------------------------------- MODULE Pipeline -------------------------------
(***************************************************************************)
(* The threads of engine::backup: one blocking reader that cuts the source *)
(* into chunks, the workers that hash and compress them, and the async     *)
(* task ("main") that puts them back in source order, writes them to the   *)
(* repository, joins the threads and commits the manifest.                 *)
(*                                                                         *)
(*   reader --raw--> workers --processed--> main (pending) --> manifest    *)
(*                                                                         *)
(* A chunk is its sequence index.  Both channels hold QueueDepth elements. *)
(* The state begins where `backup` first awaits: lock held, source opened, *)
(* threads spawned, main's own processed_tx dropped.                       *)
(***************************************************************************)
EXTENDS Integers, Sequences, FiniteSets, Functions

CONSTANTS
    Worker,         \* the worker threads
    FailingWorker,  \* those whose compression may return an error or panic
    QueueDepth,     \* capacity of each channel
    NumChunks       \* chunks FastCDC finds in the source

(* What BackupConfig::validate accepts.                                    *)
ASSUME PipelineAssumption ==
    /\ IsFiniteSet(Worker)
    /\ Worker # {}
    /\ FailingWorker \subseteq Worker
    /\ QueueDepth \in 1..4096
    /\ NumChunks \in Nat

VARIABLES
    rd,             \* the reader thread
    index,          \* its `index`: chunks it has sent
    raw,            \* channel from the reader to the workers
    wk,             \* the worker threads
    hand,           \* the chunk each worker received last; owned while "busy"
    processed,      \* channel from the workers to main
    main,           \* where main is in `backup`
    pending,        \* main's reorder buffer
    next_index,     \* the chunk main writes next
    manifest        \* indices of the descriptors added so far

readerVars == <<rd, index>>
workerVars == <<wk, hand>>
mainVars == <<main, pending, next_index, manifest>>
vars == <<rd, index, raw, wk, hand, processed, main, pending, next_index, manifest>>

Chunk == 0..NumChunks-1

ReaderState == {"read", "send", "ok", "failed"}
WorkerState == {"idle", "recv", "busy", "done", "failed"}
MainState == {"recv", "drain", "join_reader", "join_workers", "leftover", "finish",
              "committed", "error", "cancelled"}

ReaderExited == rd \in {"ok", "failed"}
WorkerExited(w) == wk[w] \in {"done", "failed"}
WorkersExited == \A w \in Worker : WorkerExited(w)
Returned == main \in {"committed", "error", "cancelled"}

(* Mutant of RawOpen: a handle that outlives `backup` and the workers.     *)
RawOpenLeaked == TRUE

(* The receiver of `raw` lives in an Arc.  Main holds one handle until     *)
(* `backup` returns, each worker holds one until it exits.                 *)
RawOpen == ~Returned \/ ~WorkersExited

TypeOK ==
    /\ rd \in ReaderState
    /\ index \in 0..NumChunks
    /\ raw \in Seq(Chunk)
    /\ Len(raw) <= QueueDepth
    /\ wk \in [Worker -> WorkerState]
    /\ hand \in [Worker -> Nat]
    /\ processed \in Seq(Chunk)
    /\ Len(processed) <= QueueDepth
    /\ main \in MainState
    /\ pending \in SUBSET Chunk
    /\ next_index \in 0..NumChunks
    /\ manifest \in Seq(Chunk)

Init ==
    /\ rd = "read"
    /\ index = 0
    /\ raw = <<>>
    /\ wk = [w \in Worker |-> "idle"]
    /\ hand = [w \in Worker |-> 0]
    /\ processed = <<>>
    /\ main = "recv"
    /\ pending = {}
    /\ next_index = 0
    /\ manifest = <<>>

-----------------------------------------------------------------------------
(* The reader *)

(* FastCDC yields a chunk of a legal size, admitted by the read bucket.    *)
ReadChunk ==
    /\ rd = "read"
    /\ index < NumChunks
    /\ rd' = "send"
    /\ UNCHANGED <<index, raw, workerVars, processed, mainVars>>

ReadEof ==
    /\ rd = "read"
    /\ index = NumChunks
    /\ rd' = "ok"
    /\ UNCHANGED <<index, raw, workerVars, processed, mainVars>>

(* A read error, or a chunk above MAX_ORIGINAL_CHUNK_BYTES.                *)
ReadError ==
    /\ rd = "read"
    /\ rd' = "failed"
    /\ UNCHANGED <<index, raw, workerVars, processed, mainVars>>

(* Mutant of SendRaw: the channel takes one element too many.              *)
SendRawOverfull ==
    /\ rd = "send"
    /\ RawOpen
    /\ Len(raw) <= QueueDepth
    /\ raw' = Append(raw, index)
    /\ index' = index + 1
    /\ rd' = "read"
    /\ UNCHANGED <<workerVars, processed, mainVars>>

SendRaw ==
    /\ rd = "send"
    /\ RawOpen
    /\ Len(raw) < QueueDepth
    /\ raw' = Append(raw, index)
    /\ index' = index + 1
    /\ rd' = "read"
    /\ UNCHANGED <<workerVars, processed, mainVars>>

(* blocking_send fails once nothing can receive: Error::Cancelled.         *)
SendCancelled ==
    /\ rd = "send"
    /\ ~RawOpen
    /\ rd' = "failed"
    /\ UNCHANGED <<index, raw, workerVars, processed, mainVars>>

Reader == ReadChunk \/ ReadEof \/ ReadError \/ SendRaw \/ SendCancelled

-----------------------------------------------------------------------------
(* A worker *)

(* The mutex around the receiver is held until blocking_recv answers.      *)
Lock(w) ==
    /\ wk[w] = "idle"
    /\ \A v \in Worker : wk[v] # "recv"
    /\ wk' = [wk EXCEPT ![w] = "recv"]
    /\ UNCHANGED <<readerVars, raw, hand, processed, mainVars>>

(* Mutant of Recv: the element is read before it is taken out, so that the *)
(* next worker gets it again.                                              *)
RecvPeek(w) ==
    /\ wk[w] = "recv"
    /\ raw # <<>>
    /\ raw' \in {raw, Tail(raw)}
    /\ hand' = [hand EXCEPT ![w] = Head(raw)]
    /\ wk' = [wk EXCEPT ![w] = "busy"]
    /\ UNCHANGED <<readerVars, processed, mainVars>>

Recv(w) ==
    /\ wk[w] = "recv"
    /\ raw # <<>>
    /\ raw' = Tail(raw)
    /\ hand' = [hand EXCEPT ![w] = Head(raw)]
    /\ wk' = [wk EXCEPT ![w] = "busy"]
    /\ UNCHANGED <<readerVars, processed, mainVars>>

(* raw_tx went with the reader: an empty channel ends the worker.          *)
RecvClosed(w) ==
    /\ wk[w] = "recv"
    /\ raw = <<>>
    /\ ReaderExited
    /\ wk' = [wk EXCEPT ![w] = "done"]
    /\ UNCHANGED <<readerVars, raw, hand, processed, mainVars>>

(* Compressor::compress returns an error, or the task panics: the chunk in *)
(* hand is dropped and the worker ends.                                    *)
CompressError(w) ==
    /\ wk[w] = "busy"
    /\ w \in FailingWorker
    /\ wk' = [wk EXCEPT ![w] = "failed"]
    /\ UNCHANGED <<readerVars, raw, hand, processed, mainVars>>

(* Mutant of SendProcessed: a send that gives up when the channel is full. *)
SendProcessedTry(w) ==
    /\ wk[w] = "busy"
    /\ ~Returned
    /\ processed' = IF Len(processed) < QueueDepth
                    THEN Append(processed, hand[w]) ELSE processed
    /\ wk' = [wk EXCEPT ![w] = "idle"]
    /\ UNCHANGED <<readerVars, raw, hand, mainVars>>

SendProcessed(w) ==
    /\ wk[w] = "busy"
    /\ ~Returned
    /\ Len(processed) < QueueDepth
    /\ processed' = Append(processed, hand[w])
    /\ wk' = [wk EXCEPT ![w] = "idle"]
    /\ UNCHANGED <<readerVars, raw, hand, mainVars>>

(* processed_rx was dropped when `backup` returned.                        *)
SendRefused(w) ==
    /\ wk[w] = "busy"
    /\ Returned
    /\ wk' = [wk EXCEPT ![w] = "done"]
    /\ UNCHANGED <<readerVars, raw, hand, processed, mainVars>>

WorkerStep(w) ==
    Lock(w) \/ Recv(w) \/ RecvClosed(w) \/ CompressError(w) \/ SendProcessed(w) \/ SendRefused(w)

-----------------------------------------------------------------------------
(* Main *)

RecvProcessed ==
    /\ main = "recv"
    /\ processed # <<>>
    /\ processed' = Tail(processed)
    /\ pending' = pending \cup {Head(processed)}
    /\ main' = "drain"
    /\ UNCHANGED <<readerVars, raw, workerVars, next_index, manifest>>

(* Mutant of RecvEnd: main keeps a sender of its own until it returns.     *)
RecvEndSenderKept ==
    /\ main = "recv"
    /\ processed = <<>>
    /\ WorkersExited /\ Returned
    /\ main' = "join_reader"
    /\ UNCHANGED <<readerVars, raw, workerVars, processed, pending, next_index, manifest>>

(* Mutant of RecvEnd: the loop ends with the first worker.                 *)
RecvEndEarly ==
    /\ main = "recv"
    /\ processed = <<>>
    /\ \E w \in Worker : WorkerExited(w)
    /\ main' = "join_reader"
    /\ UNCHANGED <<readerVars, raw, workerVars, processed, pending, next_index, manifest>>

(* Every sender of `processed` is gone: each worker owned one, and main    *)
(* dropped its own before the loop.                                        *)
RecvEnd ==
    /\ main = "recv"
    /\ processed = <<>>
    /\ WorkersExited
    /\ main' = "join_reader"
    /\ UNCHANGED <<readerVars, raw, workerVars, processed, pending, next_index, manifest>>

(* Mutant of WriteChunk: chunks are written as they come.                  *)
WriteChunkUnordered ==
    /\ main = "drain"
    /\ pending # {}
    /\ \E i \in pending :
        /\ pending' = pending \ {i}
        /\ manifest' = Append(manifest, i)
    /\ next_index' = next_index + 1
    /\ UNCHANGED <<readerVars, raw, workerVars, processed, main>>

(* pending.remove, the write bucket, write_chunk and add_chunk.            *)
WriteChunk ==
    /\ main = "drain"
    /\ next_index \in pending
    /\ pending' = pending \ {next_index}
    /\ manifest' = Append(manifest, next_index)
    /\ next_index' = next_index + 1
    /\ UNCHANGED <<readerVars, raw, workerVars, processed, main>>

WriteError ==
    /\ main = "drain"
    /\ next_index \in pending
    /\ pending' = pending \ {next_index}
    /\ main' = "error"
    /\ UNCHANGED <<readerVars, raw, workerVars, processed, next_index, manifest>>

DrainEnd ==
    /\ main = "drain"
    /\ next_index \notin pending
    /\ main' = "recv"
    /\ UNCHANGED <<readerVars, raw, workerVars, processed, pending, next_index, manifest>>

(* Mutants of the joins: the result of the thread is dropped.              *)
JoinReaderIgnored ==
    /\ main = "join_reader"
    /\ ReaderExited
    /\ main' = "join_workers"
    /\ UNCHANGED <<readerVars, raw, workerVars, processed, pending, next_index, manifest>>

JoinWorkersIgnored ==
    /\ main = "join_workers"
    /\ WorkersExited
    /\ main' = "leftover"
    /\ UNCHANGED <<readerVars, raw, workerVars, processed, pending, next_index, manifest>>

JoinReader ==
    /\ main = "join_reader"
    /\ ReaderExited
    /\ main' = IF rd = "ok" THEN "join_workers" ELSE "error"
    /\ UNCHANGED <<readerVars, raw, workerVars, processed, pending, next_index, manifest>>

JoinWorkers ==
    /\ main = "join_workers"
    /\ WorkersExited
    /\ main' = IF \A w \in Worker : wk[w] = "done" THEN "leftover" ELSE "error"
    /\ UNCHANGED <<readerVars, raw, workerVars, processed, pending, next_index, manifest>>

CheckLeftover ==
    /\ main = "leftover"
    /\ main' = IF pending = {} THEN "finish" ELSE "error"
    /\ UNCHANGED <<readerVars, raw, workerVars, processed, pending, next_index, manifest>>

(* verify_unchanged and commit_manifest, either of which may fail.         *)
Finish ==
    /\ main = "finish"
    /\ main' \in {"committed", "error"}
    /\ UNCHANGED <<readerVars, raw, workerVars, processed, pending, next_index, manifest>>

MainStep ==
    \/ RecvProcessed \/ RecvEnd \/ WriteChunk \/ WriteError \/ DrainEnd
    \/ JoinReader \/ JoinWorkers \/ CheckLeftover \/ Finish

(* The caller drops the future of `backup` while it is suspended: at the   *)
(* channel, at the write bucket, or at a join.  The threads live on.       *)
Cancel ==
    /\ \/ main \in {"recv", "join_reader", "join_workers"}
       \/ main = "drain" /\ next_index \in pending
    /\ main' = "cancelled"
    /\ UNCHANGED <<readerVars, raw, workerVars, processed, pending, next_index, manifest>>

-----------------------------------------------------------------------------
Next ==
    \/ Reader
    \/ \E w \in Worker : WorkerStep(w)
    \/ MainStep
    \/ Cancel

SafeSpec == Init /\ [][Next]_vars

(* The operating system runs every thread and tokio polls every task that  *)
(* is ready; nobody has to cancel.                                         *)
Fairness ==
    /\ WF_vars(Reader)
    /\ \A w \in Worker : WF_vars(WorkerStep(w))
    /\ WF_vars(MainStep)

Spec == SafeSpec /\ Fairness

-----------------------------------------------------------------------------
(* Where the chunks are *)

Received == index - Len(raw)        \* chunks the workers have taken
InHand(w) == wk[w] = "busy"         \* w owns the chunk hand[w]
InProcessed == Range(processed)
InHands == {hand[w] : w \in {v \in Worker : InHand(v)}}

(* No chunk is in two places.  Workers take the chunks in the order they   *)
(* were read, so `raw` is the last part of what the reader sent; whatever  *)
(* the interleaving, a chunk taken from it is held by one worker, or once  *)
(* in `processed`, or in `pending`, or written, and only one of these.     *)
NothingDuplicated ==
    /\ \A k \in 1..Len(raw) : raw[k] = Received + k - 1
    /\ \A j, k \in 1..Len(processed) : processed[j] = processed[k] => j = k
    /\ \A v, w \in Worker : InHand(v) /\ InHand(w) /\ hand[v] = hand[w] => v = w
    /\ InHands \cap InProcessed = {}
    /\ pending \cap (InHands \cup InProcessed) = {}
    /\ next_index <= Received
    /\ \A i \in InHands \cup InProcessed \cup pending : next_index <= i /\ i < Received

(* No chunk vanishes: while `backup` runs and no worker has failed, every  *)
(* chunk the workers have taken is written or still on its way.            *)
NothingLost ==
    (~Returned /\ \A w \in Worker : wk[w] # "failed") =>
        \A i \in 0..Received-1 :
            i < next_index \/ i \in InHands \cup InProcessed \cup pending

(* docs/architecture.md, "Chunk order in the manifest is source order":    *)
(* the k-th descriptor is chunk k, however the workers were scheduled.     *)
SourceOrder ==
    /\ Len(manifest) = next_index
    /\ \A k \in 1..Len(manifest) : manifest[k] = k - 1

(* A manifest is committed only after the reader reached the end of the    *)
(* source and no worker failed, and then it describes every chunk.         *)
CommittedComplete ==
    main = "committed" =>
        /\ rd = "ok"
        /\ \A w \in Worker : wk[w] = "done"
        /\ Len(manifest) = NumChunks

(* The error "backup ended with unordered leftover chunks" is never        *)
(* returned: once every thread has ended well, pending is empty.           *)
NoLeftover == main = "leftover" => pending = {}

(* What each stage knows of the stages before it.                          *)
StageOrder ==
    /\ rd = "send" => index < NumChunks
    /\ rd = "ok" => index = NumChunks
    /\ \A w \in Worker : wk[w] = "done" => Returned \/ (ReaderExited /\ raw = <<>>)
    /\ main # "drain" /\ ~Returned => next_index \notin pending
    /\ main \in {"join_reader", "join_workers", "leftover", "finish"} =>
        WorkersExited /\ processed = <<>>
    /\ main \in {"join_workers", "leftover", "finish"} => rd = "ok"
    /\ main \in {"leftover", "finish"} => \A w \in Worker : wk[w] = "done"
    /\ main = "finish" => pending = {}

(* The inductive invariant: committing every chunk once and in order rests *)
(* on where the chunks are and on the order in which the stages end.       *)
IInv ==
    /\ TypeOK
    /\ NothingDuplicated
    /\ NothingLost
    /\ SourceOrder
    /\ StageOrder
    /\ CommittedComplete

(* The threads of a backup that returned, failed or was dropped all end,   *)
(* so that the runtime that owns them can shut down.                       *)
ThreadsExit == Returned ~> (ReaderExited /\ WorkersExited)

(* A backup ends.                                                          *)
Terminates == <>Returned

(* When each thread has a step to take that is not an error.              *)
ReaderCanGo == rd = "read" \/ (rd = "send" /\ (~RawOpen \/ Len(raw) < QueueDepth))

WorkerCanGo(w) ==
    \/ wk[w] = "idle" /\ \A v \in Worker : wk[v] # "recv"
    \/ wk[w] = "recv" /\ (raw # <<>> \/ ReaderExited)
    \/ wk[w] = "busy" /\ (Returned \/ Len(processed) < QueueDepth)

MainCanGo ==
    \/ main = "recv" /\ (processed # <<>> \/ WorkersExited)
    \/ main = "join_reader" /\ ReaderExited
    \/ main = "join_workers" /\ WorkersExited
    \/ main \in {"drain", "leftover", "finish"}

Ended == Returned /\ ReaderExited /\ WorkersExited

(* Main awaits the reader, the reader awaits room in a channel that only   *)
(* main keeps open.  Of the chunks not yet written each worker has dropped *)
(* one, the channel is full of others and the reader holds one more.       *)
KnownHang ==
    /\ main = "join_reader" /\ rd = "send"
    /\ \A w \in Worker : w \in FailingWorker /\ wk[w] = "failed"
    /\ Len(raw) = QueueDepth
    /\ NumChunks - next_index > QueueDepth + Cardinality(Worker)

(* The threads never all wait for each other, but in one way: with every   *)
(* worker failed, and with more chunks still to write than the workers     *)
(* dropped and the raw channel holds.                                      *)
OnlyKnownHang ==
    Ended \/ ReaderCanGo \/ (\E w \in Worker : WorkerCanGo(w)) \/ MainCanGo \/ KnownHang

(* How many steps the threads still have to take, at most: what is left of *)
(* each chunk's way, and of each thread's.                                 *)
Workers(state) == {w \in Worker : wk[w] = state}

StepsOfReader == IF rd = "read" THEN 2 ELSE IF rd = "send" THEN 1 ELSE 0
StepsOfMain ==
    [drain |-> 6, recv |-> 5, join_reader |-> 4, join_workers |-> 3, leftover |-> 2,
     finish |-> 1, committed |-> 0, error |-> 0, cancelled |-> 0][main]

StepsLeft ==
    8 * (NumChunks - index) + 6 * Len(raw)
    + 6 * Cardinality(Workers("busy")) + 2 * Cardinality(Workers("idle"))
    + Cardinality(Workers("recv"))
    + 3 * Len(processed) + Cardinality(pending)
    + StepsOfReader + StepsOfMain

(* No step is taken in vain: nothing the threads do can go round in a      *)
(* circle, whatever the order, the failures and the cancellation.          *)
StepsRunOut == [][StepsLeft' < StepsLeft]_vars

(* A failed worker is reported: the result of every thread is awaited, so  *)
(* a compression error ends the backup.                                    *)
FailureReported == \A w \in Worker : wk[w] = "failed" ~> Returned

(* docs/architecture.md, "Backpressure": a full channel stops the feeder,  *)
(* which keeps memory bounded, also that of the reorder buffer.            *)
PendingBounded == Cardinality(pending) <= QueueDepth + Cardinality(Worker)

(* The pipeline seen by its caller is a sequential backup.                 *)
Sequential == INSTANCE SequentialBackup WITH
    recorded <- manifest,
    outcome <- IF main = "committed" THEN "committed"
               ELSE IF Returned THEN "failed" ELSE "running"

(* Every step of the threads is a step of the sequential backup or none.   *)
RefinesSequential == Sequential!SafeSpec
=============================================================================
