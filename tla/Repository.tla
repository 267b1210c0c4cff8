------------------------------ MODULE Repository ------------------------------
(***************************************************************************)
(* The repository on disk and the backups that write it: the chunk files,  *)
(* the redb index, the manifest copies and the writer lock, through        *)
(* errors, process crashes, power losses and decay of the files.           *)
(*                                                                         *)
(* A Job is one call of engine::backup, and also the backup ID it          *)
(* generated.  Only its main task writes (see Pipeline), one chunk after   *)
(* the other; Source[j] gives the content IDs in source order.  The        *)
(* temporary files are left out: their names are random and nothing reads  *)
(* them back.                                                              *)
(***************************************************************************)
EXTENDS Integers, Sequences, FiniteSets, Functions

CONSTANTS
    Job,            \* the backups
    Cid,            \* content IDs
    Encoding,       \* what codec and level make of a chunk: tag and length
    Source,         \* Source[j]: content IDs of the chunks of j's source
    Requested,      \* Requested[j]: the encoding j is configured with
    InFlight,       \* InFlight[j]: queue_depth + workers of j
    Missing,        \* no file
    MaxFaultKinds   \* bound on the kinds of fault in one behaviour

FileState == {"intact", "rotten", "unreadable"}
File == [encoding : Encoding, state : FileState]

ASSUME RepositoryAssumption ==
    /\ IsFiniteSet(Job) /\ IsFiniteSet(Cid)
    /\ Source \in [Job -> Seq(Cid)]
    /\ Requested \in [Job -> Encoding]
    /\ InFlight \in [Job -> Nat]
    /\ Missing \notin File \cup Seq([cid : Cid, encoding : Encoding]) \cup Seq(Cid)
    /\ MaxFaultKinds \in Nat

VARIABLES
    chunks,         \* chunks/<aa>/<rest> as the processes see it
    durable,        \* the same directory entries, as they are on the disk
    index,          \* rows of the redb table "backups": id -> descriptors
    refs,           \* rows of the redb table "chunks": reference counts
    copies,         \* ids of the files in manifests/
    lock,           \* holders of the advisory lock on .lock
    pc,             \* where each job is
    desc,           \* the descriptors in each job's manifest
    faults          \* the kinds of fault that have happened

diskVars == <<chunks, durable>>
indexVars == <<index, refs>>
vars == <<chunks, durable, index, refs, copies, lock, pc, desc, faults>>

FaultKind == {"read", "power", "rot"}
Running == {"write", "hung", "staged", "indexed"}
PC == {"start", "done", "failed", "locked", "dead"} \cup Running

Descriptor == [cid : Cid, encoding : Encoding]

(* A fault of kind f happens: at most MaxFaultKinds kinds in one history.  *)
Happens(f) ==
    /\ faults' = faults \cup {f}
    /\ Cardinality(faults') <= MaxFaultKinds

Listed == {j \in Job : index[j] # Missing}

(* StoredChunk::decode accepts the file: the header is sound.  The payload *)
(* is not looked at before it is decompressed.                             *)
Decodes(c) == chunks[c] # Missing /\ chunks[c].state # "unreadable"
Intact(c) == chunks[c] # Missing /\ chunks[c].state = "intact"

(* How often c occurs in the descriptors d.                                *)
Occurrences(c, d) == Cardinality({k \in DOMAIN d : d[k].cid = c})

TypeOK ==
    /\ chunks \in [Cid -> File \cup {Missing}]
    /\ durable \in [Cid -> File \cup {Missing}]
    /\ index \in [Job -> Seq(Descriptor) \cup {Missing}]
    /\ refs \in [Cid -> Nat]
    /\ copies \in SUBSET Job
    /\ lock \in SUBSET Job
    /\ pc \in [Job -> PC]
    /\ desc \in [Job -> Seq(Descriptor)]
    /\ faults \in SUBSET FaultKind

(* A repository that `init` has just made.                                 *)
Init ==
    /\ chunks = [c \in Cid |-> Missing]
    /\ durable = [c \in Cid |-> Missing]
    /\ index = [j \in Job |-> Missing]
    /\ refs = [c \in Cid |-> 0]
    /\ copies = {}
    /\ lock = {}
    /\ pc = [j \in Job |-> "start"]
    /\ desc = [j \in Job |-> <<>>]
    /\ faults = {}

-----------------------------------------------------------------------------
(* The writer lock *)

(* The source is unreadable or lies inside the repository, or the lock     *)
(* file cannot be opened.                                                  *)
Rejected(j) ==
    /\ pc[j] = "start"
    /\ pc' = [pc EXCEPT ![j] = "failed"]
    /\ UNCHANGED <<diskVars, indexVars, copies, lock, desc, faults>>

(* Mutant of Begin: the answer of try_lock is not looked at.               *)
BeginUnlocked(j) ==
    /\ pc[j] = "start"
    /\ lock' = lock \cup {j}
    /\ pc' = [pc EXCEPT ![j] = "write"]
    /\ UNCHANGED <<diskVars, indexVars, copies, desc, faults>>

Begin(j) ==
    /\ pc[j] = "start"
    /\ lock = {}
    /\ lock' = {j}
    /\ pc' = [pc EXCEPT ![j] = "write"]
    /\ UNCHANGED <<diskVars, indexVars, copies, desc, faults>>

(* try_lock does not wait: Error::RepositoryLocked.                        *)
Refused(j) ==
    /\ pc[j] = "start"
    /\ lock # {}
    /\ pc' = [pc EXCEPT ![j] = "locked"]
    /\ UNCHANGED <<diskVars, indexVars, copies, lock, desc, faults>>

(* Mutant of Return: an error path that forgets the lock.                  *)
ReturnLeaking(j, result) ==
    /\ pc' = [pc EXCEPT ![j] = result]
    /\ desc' = [desc EXCEPT ![j] = <<>>]
    /\ lock' = IF result = "failed" THEN lock ELSE lock \ {j}

(* `backup` returns: its manifest and its lock guard are dropped.          *)
Return(j, result) ==
    /\ pc' = [pc EXCEPT ![j] = result]
    /\ desc' = [desc EXCEPT ![j] = <<>>]
    /\ lock' = lock \ {j}

-----------------------------------------------------------------------------
(* write_chunk *)

Next_cid(j) == Source[j][Len(desc[j]) + 1]

Writes(j) == pc[j] = "write" /\ Len(desc[j]) < Len(Source[j])

(* Mutant of AddChunk: the configured codec is recorded, not the file's.   *)
AddChunkRequested(j, e) ==
    desc' = [desc EXCEPT ![j] = Append(@, [cid |-> Next_cid(j), encoding |-> Requested[j]])]

(* add_chunk: the descriptor takes the codec and the length write_chunk    *)
(* reports, those of the file.                                             *)
AddChunk(j, e) == desc' = [desc EXCEPT ![j] = Append(@, [cid |-> Next_cid(j), encoding |-> e])]

(* Mutant of Reuse: a chunk is taken to exist because the index counts it. *)
ReuseCounted(j) ==
    /\ Writes(j)
    /\ refs[Next_cid(j)] > 0
    /\ AddChunk(j, Requested[j])
    /\ UNCHANGED <<diskVars, indexVars, copies, lock, pc, faults>>

(* read_chunk succeeds: the existing file is kept.                         *)
Reuse(j) ==
    /\ Writes(j)
    /\ Decodes(Next_cid(j))
    /\ AddChunk(j, chunks[Next_cid(j)].encoding)
    /\ UNCHANGED <<diskVars, indexVars, copies, lock, pc, faults>>

(* Mutant of Publish: the error of the rename is dropped.                  *)
PublishUnchecked(j) ==
    LET f == [encoding |-> Requested[j], state |-> "intact"]
    IN  /\ chunks' \in {chunks, [chunks EXCEPT ![Next_cid(j)] = f]}
        /\ AddChunk(j, f.encoding)
        /\ UNCHANGED <<durable, indexVars, copies, lock, pc>>

(* The temporary file, synced, is renamed over the target: visible at      *)
(* once, durable only when the directory is written back.                  *)
Publish(j) ==
    LET f == [encoding |-> Requested[j], state |-> "intact"]
    IN  /\ chunks' = [chunks EXCEPT ![Next_cid(j)] = f]
        /\ AddChunk(j, f.encoding)
        /\ UNCHANGED <<durable, indexVars, copies, lock, pc>>

Store(j) ==
    /\ Writes(j)
    /\ ~Decodes(Next_cid(j))
    /\ Publish(j)
    /\ UNCHANGED faults

(* read_chunk fails on a sound file (EIO, no memory, no descriptors left): *)
(* any error is taken for "no such chunk".                                 *)
StoreAfterReadError(j) ==
    /\ Writes(j)
    /\ Decodes(Next_cid(j))
    /\ Publish(j)
    /\ Happens("read")

(* The rename fails, and the file that could not be read before is read.   *)
ReuseAfterReadError(j) ==
    /\ Writes(j)
    /\ Decodes(Next_cid(j))
    /\ AddChunk(j, chunks[Next_cid(j)].encoding)
    /\ Happens("read")
    /\ UNCHANGED <<diskVars, indexVars, copies, lock, pc>>

(* Any error before the manifest is staged, whether of write_chunk, of a   *)
(* thread or of verify_unchanged, and the dropping of the future.          *)
Abort(j) ==
    /\ pc[j] = "write"
    /\ Return(j, "failed")
    /\ UNCHANGED <<diskVars, indexVars, copies, faults>>

(* Every worker has failed with a chunk in its hands, the queue behind     *)
(* them is full and the reader waits with one chunk more: KnownHang of     *)
(* Pipeline.  Main awaits the reader, and the lock guard is main's.        *)
Hang(j) ==
    /\ pc[j] = "write"
    /\ Len(Source[j]) - Len(desc[j]) > InFlight[j]
    /\ pc' = [pc EXCEPT ![j] = "hung"]
    /\ UNCHANGED <<diskVars, indexVars, copies, lock, desc, faults>>

(* The caller drops the future of a backup that hangs.                     *)
Drop(j) ==
    /\ pc[j] = "hung"
    /\ Return(j, "failed")
    /\ UNCHANGED <<diskVars, indexVars, copies, faults>>

-----------------------------------------------------------------------------
(* commit_manifest *)

(* Mutant of StageManifest: the file goes to its final place before the    *)
(* transaction.                                                            *)
StageManifestInPlace(j) ==
    /\ pc[j] = "write"
    /\ Len(desc[j]) = Len(Source[j])
    /\ pc' = [pc EXCEPT ![j] = "staged"]
    /\ copies' = copies \cup {j}
    /\ UNCHANGED <<diskVars, indexVars, lock, desc, faults>>

StageManifest(j) ==
    /\ pc[j] = "write"
    /\ Len(desc[j]) = Len(Source[j])
    /\ pc' = [pc EXCEPT ![j] = "staged"]
    /\ UNCHANGED <<diskVars, indexVars, copies, lock, desc, faults>>

(* Mutants of CommitIndex: a chunk that occurs twice is counted once; the  *)
(* counts go down.                                                         *)
CommitIndexDistinct(j) ==
    /\ pc[j] = "staged"
    /\ index' = [index EXCEPT ![j] = desc[j]]
    /\ refs' = [c \in Cid |-> refs[c] + (IF Occurrences(c, desc[j]) > 0 THEN 1 ELSE 0)]
    /\ pc' = [pc EXCEPT ![j] = "indexed"]
    /\ UNCHANGED <<diskVars, copies, lock, desc, faults>>

CommitIndexDown(j) ==
    /\ pc[j] = "staged"
    /\ index' = [index EXCEPT ![j] = desc[j]]
    /\ refs' = [c \in Cid |-> refs[c] - Occurrences(c, desc[j])]
    /\ pc' = [pc EXCEPT ![j] = "indexed"]
    /\ UNCHANGED <<diskVars, copies, lock, desc, faults>>

(* One redb transaction: the row of the backup, and one more reference for *)
(* each descriptor.                                                        *)
CommitIndex(j) ==
    /\ pc[j] = "staged"
    /\ index' = [index EXCEPT ![j] = desc[j]]
    /\ refs' = [c \in Cid |-> refs[c] + Occurrences(c, desc[j])]
    /\ pc' = [pc EXCEPT ![j] = "indexed"]
    /\ UNCHANGED <<diskVars, copies, lock, desc, faults>>

CommitIndexFails(j) ==
    /\ pc[j] = "staged"
    /\ Return(j, "failed")
    /\ UNCHANGED <<diskVars, indexVars, copies, faults>>

PublishCopy(j) ==
    /\ pc[j] = "indexed"
    /\ copies' = copies \cup {j}
    /\ Return(j, "done")
    /\ UNCHANGED <<diskVars, indexVars, faults>>

(* fs::rename returns an error: the backup fails after its row is there.   *)
PublishCopyFails(j) ==
    /\ pc[j] = "indexed"
    /\ Return(j, "failed")
    /\ UNCHANGED <<diskVars, indexVars, copies, faults>>

(* What a backup does when nothing goes wrong.                             *)
Advance(j) ==
    \/ Begin(j) \/ Refused(j) \/ Reuse(j) \/ Store(j)
    \/ StageManifest(j) \/ CommitIndex(j) \/ PublishCopy(j)

JobStep(j) ==
    \/ Advance(j)
    \/ Rejected(j) \/ StoreAfterReadError(j) \/ ReuseAfterReadError(j)
    \/ Abort(j) \/ Hang(j) \/ Drop(j)
    \/ CommitIndexFails(j) \/ PublishCopyFails(j)

-----------------------------------------------------------------------------
(* The machine *)

(* Every running job is gone, with its memory and its lock.                *)
Die ==
    /\ pc' = [j \in Job |-> IF pc[j] \in Running THEN "dead" ELSE pc[j]]
    /\ desc' = [j \in Job |-> <<>>]
    /\ lock' = {}

(* The process dies; the kernel drops its lock.                            *)
Crash ==
    /\ \E j \in Job : pc[j] \in Running
    /\ Die
    /\ UNCHANGED <<diskVars, indexVars, copies, faults>>

(* The kernel writes a directory entry back.                               *)
WriteBack(c) ==
    /\ durable[c] # chunks[c]
    /\ durable' = [durable EXCEPT ![c] = chunks[c]]
    /\ UNCHANGED <<chunks, indexVars, copies, lock, pc, desc, faults>>

(* The machine dies: each entry not written back may be lost.  redb syncs  *)
(* its file at every commit, so the rows stay.                             *)
PowerLoss ==
    /\ \E kept \in SUBSET Cid :
        chunks' = [c \in Cid |-> IF c \in kept THEN chunks[c] ELSE durable[c]]
    /\ durable' = chunks'
    /\ copies' \in SUBSET copies
    /\ Die
    /\ Happens("power")
    /\ UNCHANGED indexVars

(* A file decays: its payload, or its header.                              *)
Rot(c) ==
    /\ Intact(c)
    /\ \E s \in {"rotten", "unreadable"} :
        chunks' = [chunks EXCEPT ![c].state = s]
    /\ durable' = [durable EXCEPT ![c] = IF durable[c] = chunks[c] THEN chunks'[c] ELSE @]
    /\ Happens("rot")
    /\ UNCHANGED <<indexVars, copies, lock, pc, desc>>

Environment == Crash \/ PowerLoss \/ (\E c \in Cid : WriteBack(c) \/ Rot(c))

Next == (\E j \in Job : JobStep(j)) \/ Environment

SafeSpec == Init /\ [][Next]_vars

(* A backup that does not hang goes on: its threads never all wait for     *)
(* each other in another way (Pipeline), and the write bucket lets every   *)
(* request through (TokenBucket).  Nothing has to fail, and nobody has to  *)
(* drop a backup that hangs.                                               *)
Spec == SafeSpec /\ \A j \in Job : WF_vars(Advance(j))

-----------------------------------------------------------------------------
(* What `verify` checks of a listed backup: every chunk decodes, has the   *)
(* recorded codec and length, and hashes to its content ID.  Its check of  *)
(* the total is left out: a source does not change here, so that the       *)
(* chunks of a whole manifest add up to it (SourceCheck has the others).   *)
Verifies(j) ==
    \A k \in DOMAIN index[j] :
        /\ Intact(index[j][k].cid)
        /\ chunks[index[j][k].cid].encoding = index[j][k].encoding

(* Every byte of the source of j is in the repository.                     *)
Present(j) == \A k \in DOMAIN Source[j] : Intact(Source[j][k])

(* Without faults of the machine, and whatever jobs fail, are dropped or   *)
(* crash at any point, and with whatever codecs, every listed backup       *)
(* passes verify.                                                          *)
ListedVerifies == faults = {} => \A j \in Listed : Verifies(j)

(* Read errors make write_chunk replace sound files, but never lose bytes. *)
ListedPresent == faults \subseteq {"read"} => \A j \in Listed : Present(j)

(* A chunk lost in a power loss is written again by the next backup that   *)
(* contains it: what is committed after that verifies.                     *)
CommitVerifies ==
    [][\A j \in Job : CommitIndex(j) /\ faults \subseteq {"power"} => Verifies(j)']_vars

(* A reference count is the number of descriptors, over all listed         *)
(* backups, that name the chunk, whatever failed in between.               *)
References(c) ==
    UNION {{j} \X {k \in DOMAIN index[j] : index[j][k].cid = c} : j \in Listed}
RefsExact == \A c \in Cid : refs[c] = Cardinality(References(c))

(* One backup writes at a time, and it holds the lock; a crash, a failure  *)
(* or a cancelled backup leaves no lock behind.                            *)
LockHeldByWriter ==
    /\ lock = {j \in Job : pc[j] \in Running}
    /\ \A i, j \in lock : i = j

(* docs/repository-format.md, "Atomic commit": the row comes before the    *)
(* copy, and a backup that succeeded has both.                             *)
RowBeforeCopy ==
    /\ copies \subseteq Listed
    /\ \A j \in Job : pc[j] = "done" => j \in Listed

(* The repository as those who list it see it.                             *)
StoredOf(j) ==
    IF index[j] = Missing THEN Missing ELSE [k \in DOMAIN index[j] |-> index[j][k].cid]

ResultOf(j) ==
    CASE pc[j] = "start" -> "none"
      [] pc[j] \in Running -> "running"
      [] pc[j] \in {"failed", "dead"} -> "failed"
      [] OTHER -> pc[j]

Listing == INSTANCE BackupStore WITH
    Backup <- Job,
    Content <- Source,
    Absent <- Missing,
    stored <- [j \in Job |-> StoredOf(j)],
    result <- [j \in Job |-> ResultOf(j)],
    copies <- copies

(* Chunk by chunk, through a staged manifest, a transaction and a rename,  *)
(* with failures, crashes and power losses in between, every backup is     *)
(* stored at one instant, whole and for good, and before its copy.         *)
RefinesStore == Listing!Spec

(* README.md, "Failed backups are not listed as completed".                *)
FailedNotListed == \A j \in Listed : pc[j] # "failed"

(* docs/repository-format.md, "keep the existing chunk": so that a read    *)
(* error during one backup does no harm to another.                        *)
ReadErrorsHarmless == faults \subseteq {"read"} => \A j \in Listed : Verifies(j)

(* README.md, "Atomic chunk and manifest publish (temp file + fsync +      *)
(* rename)": a listed backup survives a power loss.                        *)
ListedDurable == faults \subseteq {"power"} => \A j \in Listed : Present(j)

(* A backup gives the lock back, whatever fails on the way, or it hangs;   *)
(* one that hangs keeps the lock until it is dropped or its process dies.  *)
LockReleased == \A j \in Job : j \in lock ~> (j \notin lock \/ pc[j] = "hung")
=============================================================================
