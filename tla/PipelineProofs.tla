---------------------------- MODULE PipelineProofs ----------------------------
(***************************************************************************)
(* Proofs about Pipeline, for every set of workers, queue depth, source    *)
(* length and choice of failing workers.  IInv is inductive; the other     *)
(* theorems follow from it.                                                *)
(***************************************************************************)
EXTENDS Pipeline, SequenceTheorems, FiniteSetTheorems, TLAPS

(* What taking the first element of a channel leaves.                      *)
LEMMA TakeFirst ==
    ASSUME NEW S, NEW s \in Seq(S), s # <<>>
    PROVE  /\ Len(s) \in Nat /\ Len(s) >= 1
           /\ Head(s) \in S /\ Head(s) = s[1]
           /\ Tail(s) \in Seq(S) /\ Len(Tail(s)) = Len(s) - 1
           /\ \A k \in 1..Len(s)-1 : Tail(s)[k] = s[k+1]
  OBVIOUS

(* What adding an element to a channel leaves.                             *)
LEMMA AddLast ==
    ASSUME NEW S, NEW s \in Seq(S), NEW e \in S
    PROVE  /\ Len(s) \in Nat
           /\ Append(s, e) \in Seq(S) /\ Len(Append(s, e)) = Len(s) + 1
           /\ \A k \in 1..Len(s) : Append(s, e)[k] = s[k]
           /\ Append(s, e)[Len(s)+1] = e
  OBVIOUS

(* The same of the set of the elements of a channel.                       *)
LEMMA TakeFirstElements ==
    ASSUME NEW S, NEW s \in Seq(S), s # <<>>
    PROVE  Range(s) = Range(Tail(s)) \cup {Head(s)}
<1>1. /\ DOMAIN s = 1..Len(s) /\ DOMAIN Tail(s) = 1..Len(s)-1 /\ Len(s) \in Nat
      /\ Len(s) >= 1 /\ Head(s) = s[1]
      /\ \A k \in 1..Len(s)-1 : Tail(s)[k] = s[k+1]
  BY TakeFirst
<1>2. ASSUME NEW k \in DOMAIN s, k # 1
      PROVE  s[k] \in Range(Tail(s))
  <2>1. k - 1 \in 1..Len(s)-1 /\ (k - 1) + 1 = k
    BY <1>1, <1>2
  <2>2. s[k] = Tail(s)[k-1]
    BY <1>1, <2>1
  <2>3. QED
    BY <1>1, <2>1, <2>2 DEF Range
<1>3. ASSUME NEW k \in DOMAIN Tail(s)
      PROVE  Tail(s)[k] \in Range(s)
  <2>1. k + 1 \in DOMAIN s
    BY <1>1
  <2>2. Tail(s)[k] = s[k+1]
    BY <1>1
  <2>3. QED
    BY <2>1, <2>2 DEF Range
<1>4. Head(s) \in Range(s)
  BY <1>1 DEF Range
<1>5. QED
  BY <1>1, <1>2, <1>3, <1>4 DEF Range

LEMMA AddLastElements ==
    ASSUME NEW S, NEW s \in Seq(S), NEW e \in S
    PROVE  Range(Append(s, e)) = Range(s) \cup {e}
<1>1. /\ DOMAIN s = 1..Len(s) /\ DOMAIN Append(s, e) = 1..Len(s)+1 /\ Len(s) \in Nat
      /\ \A k \in 1..Len(s) : Append(s, e)[k] = s[k]
      /\ Append(s, e)[Len(s)+1] = e
  BY AddLast
<1>2. QED
  BY <1>1 DEF Range

-----------------------------------------------------------------------------
(* Every variable keeps its type: an index that is received, written or    *)
(* sent is one the reader has read.  The hand of a busy worker needs the   *)
(* rest of the invariant to be a chunk.                                    *)
LEMMA TypeStep == IInv /\ [Next]_vars => TypeOK'
<1> SUFFICES ASSUME IInv, [Next]_vars PROVE TypeOK'
  OBVIOUS
<1> USE PipelineAssumption
<1>t. TypeOK
  BY DEF IInv
<1>i. index \in Nat /\ next_index \in Nat /\ QueueDepth \in Nat
  BY <1>t DEF TypeOK
<1>1. CASE Reader
  <2>1. CASE SendRaw
    <3>1. index \in Chunk /\ index + 1 \in 0..NumChunks
      BY <2>1, <1>t DEF IInv, StageOrder, TypeOK, SendRaw, Chunk
    <3>2. raw' \in Seq(Chunk) /\ Len(raw') <= QueueDepth
      BY <2>1, <3>1, <1>t, <1>i, AddLast DEF TypeOK, SendRaw
    <3>3. QED
      BY <2>1, <3>1, <3>2, <1>t DEF TypeOK, SendRaw, ReaderState, workerVars, mainVars
  <2>2. CASE ReadChunk \/ ReadEof \/ ReadError \/ SendCancelled
    BY <2>2, <1>t DEF TypeOK, ReadChunk, ReadEof, ReadError, SendCancelled, ReaderState,
         workerVars, mainVars
  <2>3. QED
    BY <1>1, <2>1, <2>2 DEF Reader
<1>2. ASSUME NEW w \in Worker, WorkerStep(w) PROVE TypeOK'
  <2>1. CASE Recv(w)
    <3>1. raw' \in Seq(Chunk) /\ Len(raw') <= QueueDepth /\ Head(raw) \in Nat
      BY SMTT(20), <2>1, <1>t, <1>i, TakeFirst DEF TypeOK, Recv, Chunk
    <3>2. QED
      BY <2>1, <3>1, <1>t DEF TypeOK, Recv, WorkerState, readerVars, mainVars
  <2>2. CASE SendProcessed(w)
    <3>1. hand[w] \in InHands
      BY <2>2 DEF SendProcessed, InHands, InHand
    <3>2. hand[w] \in Chunk
      BY <3>1, <1>t, <1>i DEF IInv, NothingDuplicated, TypeOK, Chunk, Received
    <3>3. processed' \in Seq(Chunk) /\ Len(processed') <= QueueDepth
      BY <2>2, <3>2, <1>t, <1>i, AddLast DEF TypeOK, SendProcessed
    <3>4. QED
      BY <2>2, <3>3, <1>t DEF TypeOK, SendProcessed, WorkerState, readerVars, mainVars
  <2>3. CASE Lock(w)
    BY <2>3, <1>t DEF TypeOK, Lock, WorkerState, readerVars, mainVars
  <2>4. CASE RecvClosed(w)
    BY <2>4, <1>t DEF TypeOK, RecvClosed, WorkerState, readerVars, mainVars
  <2>5. CASE CompressError(w)
    BY <2>5, <1>t DEF TypeOK, CompressError, WorkerState, readerVars, mainVars
  <2>6. CASE SendRefused(w)
    BY <2>6, <1>t DEF TypeOK, SendRefused, WorkerState, readerVars, mainVars
  <2>7. QED
    BY <1>2, <2>1, <2>2, <2>3, <2>4, <2>5, <2>6 DEF WorkerStep
<1>3. CASE MainStep
  <2>1. CASE RecvProcessed
    <3>1. /\ processed' \in Seq(Chunk) /\ Len(processed') <= QueueDepth
          /\ Head(processed) \in Chunk
      BY <2>1, <1>t, <1>i, TakeFirst DEF TypeOK, RecvProcessed
    <3>2. QED
      BY <2>1, <3>1, <1>t DEF TypeOK, RecvProcessed, MainState, readerVars, workerVars
  <2>2. CASE WriteChunk
    <3>1. next_index \in Chunk /\ next_index + 1 \in 0..NumChunks
      BY <2>2, <1>t DEF TypeOK, WriteChunk, Chunk
    <3>2. manifest' \in Seq(Chunk)
      BY <2>2, <3>1, <1>t, AddLast DEF TypeOK, WriteChunk
    <3>3. QED
      BY <2>2, <3>1, <3>2, <1>t DEF TypeOK, WriteChunk, MainState, readerVars, workerVars
  <2>3. CASE RecvEnd \/ WriteError \/ DrainEnd \/ JoinReader \/ JoinWorkers
             \/ CheckLeftover \/ Finish
    BY <2>3, <1>t DEF TypeOK, RecvEnd, WriteError, DrainEnd, JoinReader, JoinWorkers,
         CheckLeftover, Finish, MainState, readerVars, workerVars
  <2>4. QED
    BY <1>3, <2>1, <2>2, <2>3 DEF MainStep
<1>4. CASE Cancel
  BY <1>4, <1>t DEF TypeOK, Cancel, MainState, readerVars, workerVars
<1>5. CASE UNCHANGED vars
  BY <1>5, <1>t DEF TypeOK, vars
<1>6. QED
  BY <1>1, <1>2, <1>3, <1>4, <1>5 DEF Next

-----------------------------------------------------------------------------
(* The steps that move no chunk: a thread ends, takes the mutex or goes    *)
(* from one stage to the next.                                             *)
Idle ==
    \/ ReadChunk \/ ReadEof \/ ReadError \/ SendCancelled
    \/ RecvEnd \/ DrainEnd \/ JoinReader \/ JoinWorkers \/ CheckLeftover \/ Finish \/ Cancel
    \/ UNCHANGED vars

LEMMA DuplicatedStep == IInv /\ TypeOK' /\ [Next]_vars => NothingDuplicated'
<1> SUFFICES ASSUME IInv, TypeOK', [Next]_vars PROVE NothingDuplicated'
  OBVIOUS
<1> USE PipelineAssumption
<1>t. TypeOK /\ NothingDuplicated
  BY DEF IInv
<1>i. /\ index \in Nat /\ next_index \in Nat /\ Len(raw) \in Nat /\ Len(processed) \in Nat
      /\ Received \in Int
  BY <1>t DEF TypeOK, Received
<1>n. InHands \cup InProcessed \cup pending \subseteq Nat
  <2>1. InHands \subseteq Nat
    BY <1>t DEF TypeOK, InHands
  <2>2. InProcessed \subseteq Nat
    <3>1. processed \in Seq(Chunk)
      BY <1>t DEF TypeOK
    <3>2. \A k \in DOMAIN processed : processed[k] \in Chunk
      BY <3>1, LenProperties
    <3>3. QED
      BY <3>2 DEF InProcessed, Range, Chunk
  <2>3. pending \subseteq Nat
    BY <1>t DEF TypeOK, Chunk
  <2>4. QED
    BY <2>1, <2>2, <2>3
<1>1. CASE Idle
  <2>1. UNCHANGED <<raw, wk, hand, processed, next_index, index>> /\ UNCHANGED pending
    BY <1>1 DEF Idle, ReadChunk, ReadEof, ReadError, SendCancelled, RecvEnd, DrainEnd,
         JoinReader, JoinWorkers, CheckLeftover, Finish, Cancel, vars, workerVars,
         readerVars, mainVars
  <2>2. UNCHANGED <<InHands, InProcessed, Received>>
    BY <2>1 DEF InHands, InProcessed, InHand, Received
  <2>3. QED
    BY <2>1, <2>2, <1>t DEF NothingDuplicated, InHand
<1>2. CASE SendRaw
  <2>0. raw' = Append(raw, index) /\ index' = index + 1 /\ index \in Chunk
    BY <1>2, <1>t DEF SendRaw, TypeOK, Chunk, IInv, StageOrder
  <2>a. /\ Len(raw') = Len(raw) + 1
        /\ \A k \in 1..Len(raw) : raw'[k] = raw[k]
        /\ raw'[Len(raw)+1] = index
    BY <2>0, <1>t, AddLast DEF TypeOK
  <2>b. Received' = Received
    BY <2>0, <2>a, <1>i DEF Received
  <2>1. \A k \in 1..Len(raw') : raw'[k] = Received' + k - 1
    <3> SUFFICES ASSUME NEW k \in 1..Len(raw') PROVE raw'[k] = Received' + k - 1
      OBVIOUS
    <3>1. CASE k \in 1..Len(raw)
      BY <3>1, <2>a, <2>b, <1>t DEF NothingDuplicated
    <3>2. CASE k = Len(raw) + 1
      BY <3>2, <2>a, <2>b, <1>i DEF Received
    <3>3. QED
      BY <3>1, <3>2, <2>a, <1>i
  <2>2. UNCHANGED <<InHands, InProcessed, pending, next_index, processed, wk, hand>>
    BY <1>2 DEF SendRaw, InHands, InProcessed, InHand, workerVars, mainVars
  <2>3. QED
    BY <2>1, <2>2, <2>b, <1>t DEF NothingDuplicated, InHand
<1>3. ASSUME NEW w \in Worker, Recv(w) PROVE NothingDuplicated'
  <2>1. /\ Len(raw) >= 1 /\ Head(raw) = Received /\ Received' = Received + 1
        /\ \A k \in 1..Len(raw') : raw'[k] = Received' + k - 1
    BY <1>3, <1>t, <1>i, TakeFirst DEF Recv, TypeOK, Received, NothingDuplicated, readerVars
  <2>2. InHands' = InHands \cup {Received}
    BY SMTT(20), <1>3, <1>t, <2>1 DEF Recv, TypeOK, InHands, InHand
  <2>3. UNCHANGED <<InProcessed, processed, pending, next_index>>
    BY <1>3 DEF Recv, InProcessed, mainVars
  <2>4. \A i \in InHands \cup InProcessed \cup pending : i < Received
    BY <1>t DEF NothingDuplicated
  <2>5. \A u, v \in Worker :
            InHand(u)' /\ InHand(v)' /\ hand'[u] = hand'[v] => u = v
    <3> SUFFICES ASSUME NEW u \in Worker, NEW v \in Worker,
                        InHand(u)', InHand(v)', hand'[u] = hand'[v]
                 PROVE  u = v
      OBVIOUS
    <3>1. \A x \in Worker \ {w} : hand'[x] = hand[x] /\ (InHand(x)' <=> InHand(x))
      BY <1>3, <1>t DEF Recv, TypeOK, InHand
    <3>2. \A x \in Worker \ {w} : InHand(x) => hand[x] \in InHands
      BY DEF InHands
    <3>3. hand'[w] = Received
      BY <1>3, <1>t, <2>1 DEF Recv, TypeOK
    <3>4. \A x \in Worker \ {w} : InHand(x)' => hand'[x] \in Nat /\ hand'[x] < Received
      BY <3>1, <3>2, <2>4, <1>t DEF TypeOK
    <3>5. CASE u = w \/ v = w
      BY <3>3, <3>4, <3>5, <1>i
    <3>6. CASE u # w /\ v # w
      BY <3>1, <3>6, <1>t DEF NothingDuplicated
    <3>7. QED
      BY <3>5, <3>6
  <2>6. /\ InHands' \cap InProcessed' = {}
        /\ pending' \cap (InHands' \cup InProcessed') = {}
    BY <2>2, <2>3, <2>4, <1>i, <1>t DEF NothingDuplicated
  <2>7. /\ next_index' <= Received'
        /\ \A i \in InHands' \cup InProcessed' \cup pending' : next_index' <= i /\ i < Received'
    BY <2>1, <2>2, <2>3, <1>i, <1>n, <1>t DEF NothingDuplicated
  <2>8. QED
    BY <2>1, <2>3, <2>5, <2>6, <2>7, <1>t DEF NothingDuplicated
<1>4. ASSUME NEW w \in Worker, SendProcessed(w) PROVE NothingDuplicated'
  <2>1. /\ InHand(w) /\ hand[w] \in InHands /\ ~InHand(w)'
        /\ \A x \in Worker \ {w} : InHand(x)' <=> InHand(x)
    BY <1>4, <1>t DEF SendProcessed, TypeOK, InHands, InHand
  <2>2. InHands' = InHands \ {hand[w]}
    BY <1>4, <2>1, <1>t DEF SendProcessed, InHands, NothingDuplicated
  <2>3. hand[w] \in Chunk
    BY SMTT(20), <2>1, <1>t, <1>i DEF NothingDuplicated, TypeOK, Chunk, Received
  <2>4. /\ Len(processed') = Len(processed) + 1
        /\ \A k \in 1..Len(processed) : processed'[k] = processed[k]
        /\ processed'[Len(processed)+1] = hand[w]
        /\ DOMAIN processed = 1..Len(processed)
        /\ DOMAIN processed' = 1..Len(processed')
    BY <1>4, <2>3, <1>t, AddLast DEF SendProcessed, TypeOK
  <2>5. InProcessed' = InProcessed \cup {hand[w]}
    BY <1>4, <2>3, <1>t, AddLastElements DEF SendProcessed, TypeOK, InProcessed
  <2>6. \A j, k \in 1..Len(processed') : processed'[j] = processed'[k] => j = k
    <3>1. \A k \in 1..Len(processed) : processed[k] # hand[w]
      BY <2>1, <2>4, <1>t DEF NothingDuplicated, InProcessed, Range
    <3>2. QED
      BY <3>1, <2>4, <1>i, <1>t DEF NothingDuplicated
  <2>7. UNCHANGED <<raw, hand, pending, next_index, Received>>
    BY <1>4 DEF SendProcessed, Received, readerVars, mainVars
  <2>8. QED
    BY <2>1, <2>2, <2>5, <2>6, <2>7, <1>t DEF NothingDuplicated
<1>5. ASSUME NEW w \in Worker,
             Lock(w) \/ RecvClosed(w) \/ CompressError(w) \/ SendRefused(w)
      PROVE  NothingDuplicated'
  <2>1. \A x \in Worker : InHand(x)' => InHand(x)
    BY <1>5, <1>t DEF Lock, RecvClosed, CompressError, SendRefused, TypeOK, InHand
  <2>2. UNCHANGED <<raw, hand, processed, pending, next_index, Received, InProcessed>>
    BY <1>5 DEF Lock, RecvClosed, CompressError, SendRefused, Received, InProcessed,
         readerVars, mainVars
  <2>3. InHands' \subseteq InHands
    BY <2>1, <2>2 DEF InHands
  <2>4. QED
    BY <2>1, <2>2, <2>3, <1>t DEF NothingDuplicated
<1>6. CASE RecvProcessed
  <2>1. /\ Len(processed) >= 1
        /\ Len(processed') = Len(processed) - 1
        /\ \A k \in 1..Len(processed') : processed'[k] = processed[k+1]
        /\ DOMAIN processed = 1..Len(processed)
        /\ DOMAIN processed' = 1..Len(processed')
        /\ Head(processed) = processed[1]
    BY <1>6, <1>t, TakeFirst DEF RecvProcessed, TypeOK
  <2>2. InProcessed = InProcessed' \cup {Head(processed)}
    BY <1>6, <1>t, TakeFirstElements DEF RecvProcessed, TypeOK, InProcessed
  <2>3. Head(processed) \notin InProcessed'
    <3>1. \A k \in 1..Len(processed') : processed'[k] # processed[1]
      BY <2>1, <1>i, <1>t DEF NothingDuplicated
    <3>2. QED
      BY <3>1, <2>1 DEF InProcessed, Range
  <2>4. \A j, k \in 1..Len(processed') : processed'[j] = processed'[k] => j = k
    BY <2>1, <1>i, <1>t DEF NothingDuplicated
  <2>5. /\ UNCHANGED <<raw, hand, wk, next_index, InHands, Received>>
        /\ pending' = pending \cup {Head(processed)}
    BY <1>6 DEF RecvProcessed, InHands, InHand, Received, readerVars, workerVars
  <2>6. QED
    BY <2>2, <2>3, <2>4, <2>5, <1>t DEF NothingDuplicated, InHand
<1>7. CASE WriteChunk \/ WriteError
  <2>1. /\ UNCHANGED <<raw, hand, wk, processed, InHands, InProcessed, Received>>
        /\ next_index \in pending /\ pending' = pending \ {next_index}
        /\ next_index' \in {next_index, next_index + 1}
    BY <1>7 DEF WriteChunk, WriteError, InHands, InProcessed, InHand, Received, readerVars,
         workerVars
  <2>2. next_index \notin InHands \cup InProcessed /\ next_index < Received
    BY <2>1, <1>t DEF NothingDuplicated
  <2>3. /\ next_index' <= Received'
        /\ \A i \in InHands' \cup InProcessed' \cup pending' : next_index' <= i /\ i < Received'
    BY <2>1, <2>2, <1>i, <1>n, <1>t DEF NothingDuplicated
  <2>4. QED
    BY <2>1, <2>3, <1>t DEF NothingDuplicated, InHand
<1>8. QED
  BY <1>1, <1>2, <1>3, <1>4, <1>5, <1>6, <1>7
     DEF Next, Idle, Reader, WorkerStep, MainStep

-----------------------------------------------------------------------------
(* No step makes a chunk vanish: each one moves the chunk it takes to the  *)
(* next place, or fails a worker, or is main's return.                     *)
LEMMA LostStep == IInv /\ TypeOK' /\ [Next]_vars => NothingLost'
<1> SUFFICES ASSUME IInv, TypeOK', [Next]_vars,
                    ~Returned', \A w \in Worker : wk'[w] # "failed"
             PROVE  \A i \in 0..Received'-1 :
                       i < next_index' \/ i \in InHands' \cup InProcessed' \cup pending'
  BY DEF NothingLost
<1> USE PipelineAssumption
<1>t. TypeOK /\ NothingDuplicated /\ NothingLost
  BY DEF IInv
<1>i. /\ index \in Nat /\ next_index \in Nat /\ Len(raw) \in Nat /\ Len(processed) \in Nat
      /\ Received \in Int
  BY <1>t DEF TypeOK, Received
<1>1. CASE Idle
  <2>1. UNCHANGED <<raw, wk, hand, processed, next_index, index>> /\ UNCHANGED pending
    BY <1>1 DEF Idle, ReadChunk, ReadEof, ReadError, SendCancelled, RecvEnd, DrainEnd,
         JoinReader, JoinWorkers, CheckLeftover, Finish, Cancel, vars, workerVars,
         readerVars, mainVars
  <2>2. UNCHANGED <<InHands, InProcessed, Received>>
    BY <2>1 DEF InHands, InProcessed, InHand, Received
  <2>3. ~Returned
    BY <1>1 DEF Idle, ReadChunk, ReadEof, ReadError, SendCancelled, RecvEnd, DrainEnd,
         JoinReader, JoinWorkers, CheckLeftover, Finish, Cancel, vars, mainVars, Returned
  <2>4. QED
    BY <2>1, <2>2, <2>3, <1>t DEF NothingLost
<1>2. CASE SendRaw
  <2>1. Received' = Received
    BY <1>2, <1>t, <1>i, AddLast DEF SendRaw, TypeOK, Received, Chunk, IInv, StageOrder
  <2>2. UNCHANGED <<InHands, InProcessed, pending, next_index, wk, main>>
    BY <1>2 DEF SendRaw, InHands, InProcessed, InHand, workerVars, mainVars
  <2>3. QED
    BY <2>1, <2>2, <1>t DEF NothingLost, Returned
<1>3. ASSUME NEW w \in Worker, Recv(w)
      PROVE  \A i \in 0..Received'-1 :
                i < next_index' \/ i \in InHands' \cup InProcessed' \cup pending'
  <2>1. Head(raw) = Received /\ Received' = Received + 1
    BY <1>3, <1>t, <1>i, TakeFirst DEF Recv, TypeOK, Received, NothingDuplicated, readerVars
  <2>2. InHands' = InHands \cup {Received}
    BY SMTT(20), <1>3, <1>t, <2>1 DEF Recv, TypeOK, InHands, InHand
  <2>3. UNCHANGED <<InProcessed, pending, next_index, main>>
    BY <1>3 DEF Recv, InProcessed, mainVars
  <2>4. \A v \in Worker : wk[v] # "failed"
    BY <1>3, <1>t DEF Recv, TypeOK
  <2>5. QED
    BY <2>1, <2>2, <2>3, <2>4, <1>i, <1>t DEF NothingLost, Returned
<1>4. ASSUME NEW w \in Worker, SendProcessed(w)
      PROVE  \A i \in 0..Received'-1 :
                i < next_index' \/ i \in InHands' \cup InProcessed' \cup pending'
  <2>1. hand[w] \in Chunk
    BY <1>4, <1>t, <1>i
       DEF SendProcessed, NothingDuplicated, TypeOK, Chunk, Received, InHands, InHand
  <2>2. InHands \subseteq InHands' \cup {hand[w]}
    BY <1>4, <1>t DEF SendProcessed, TypeOK, InHands, InHand
  <2>4. InProcessed' = InProcessed \cup {hand[w]}
    BY <1>4, <2>1, <1>t, AddLastElements DEF SendProcessed, TypeOK, InProcessed
  <2>5. UNCHANGED <<pending, next_index, main, Received>>
    BY <1>4 DEF SendProcessed, Received, readerVars, mainVars
  <2>6. \A v \in Worker : wk[v] # "failed"
    BY <1>4, <1>t DEF SendProcessed, TypeOK
  <2>7. QED
    BY <2>2, <2>4, <2>5, <2>6, <1>t DEF NothingLost, Returned
<1>5. ASSUME NEW w \in Worker,
             Lock(w) \/ RecvClosed(w) \/ CompressError(w) \/ SendRefused(w)
      PROVE  \A i \in 0..Received'-1 :
                i < next_index' \/ i \in InHands' \cup InProcessed' \cup pending'
  <2>1. CASE Lock(w) \/ RecvClosed(w)
    <3>1. \A v \in Worker : (InHand(v)' <=> InHand(v)) /\ wk[v] # "failed"
      BY <2>1, <1>t DEF Lock, RecvClosed, TypeOK, InHand
    <3>2. UNCHANGED <<hand, pending, next_index, main, Received, InProcessed>>
      BY <2>1 DEF Lock, RecvClosed, Received, InProcessed, readerVars, mainVars
    <3>3. InHands' = InHands
      BY <3>1, <3>2 DEF InHands
    <3>4. QED
      BY <3>1, <3>2, <3>3, <1>t DEF NothingLost, Returned
  <2>2. CASE CompressError(w)
    BY <2>2, <1>t DEF CompressError, TypeOK
  <2>3. CASE SendRefused(w)
    BY <2>3 DEF SendRefused, Returned, mainVars
  <2>4. QED
    BY <1>5, <2>1, <2>2, <2>3
<1>6. CASE RecvProcessed
  <2>1. InProcessed = InProcessed' \cup {Head(processed)}
    BY <1>6, <1>t, TakeFirstElements DEF RecvProcessed, TypeOK, InProcessed
  <2>2. /\ UNCHANGED <<wk, next_index, InHands, Received>>
        /\ pending' = pending \cup {Head(processed)}
        /\ ~Returned
    BY <1>6 DEF RecvProcessed, InHands, InHand, Received, readerVars, workerVars, Returned
  <2>3. QED
    BY <2>1, <2>2, <1>t DEF NothingLost
<1>7. CASE WriteChunk
  <2>1. /\ UNCHANGED <<wk, InHands, InProcessed, Received>>
        /\ next_index \in pending /\ pending' = pending \ {next_index}
        /\ next_index' = next_index + 1
        /\ ~Returned
    BY <1>7 DEF WriteChunk, InHands, InProcessed, InHand, Received, readerVars, workerVars,
         Returned
  <2>2. QED
    BY <2>1, <1>i, <1>t DEF NothingLost
<1>8. CASE WriteError
  BY <1>8 DEF WriteError, Returned
<1>9. QED
  BY <1>1, <1>2, <1>3, <1>4, <1>5, <1>6, <1>7, <1>8
     DEF Next, Idle, Reader, WorkerStep, MainStep

-----------------------------------------------------------------------------
(* The manifest grows by the next index, or not at all.                    *)
LEMMA ManifestStep ==
    [Next]_vars => \/ UNCHANGED <<manifest, next_index>>
                   \/ WriteChunk
  BY DEF Next, Reader, ReadChunk, ReadEof, ReadError, SendRaw, SendCancelled, WorkerStep, Lock,
     Recv, RecvClosed, CompressError, SendProcessed, SendRefused, MainStep, RecvProcessed,
     RecvEnd, WriteError, DrainEnd, JoinReader, JoinWorkers, CheckLeftover, Finish, Cancel,
     vars, mainVars

LEMMA OrderStep == IInv /\ [Next]_vars => SourceOrder'
<1> SUFFICES ASSUME IInv, [Next]_vars PROVE SourceOrder'
  OBVIOUS
<1> USE PipelineAssumption
<1>t. TypeOK /\ SourceOrder
  BY DEF IInv
<1>1. CASE UNCHANGED <<manifest, next_index>>
  BY <1>1, <1>t DEF SourceOrder
<1>2. CASE WriteChunk
  <2>1. next_index \in Chunk /\ manifest' = Append(manifest, next_index)
    BY <1>2, <1>t DEF WriteChunk, TypeOK
  <2>2. /\ Len(manifest') = Len(manifest) + 1
        /\ \A k \in 1..Len(manifest) : manifest'[k] = manifest[k]
        /\ manifest'[Len(manifest)+1] = next_index
    BY <2>1, <1>t, AddLast DEF TypeOK
  <2>3. QED
    BY <1>2, <2>2, <1>t DEF WriteChunk, SourceOrder, TypeOK
<1>3. QED
  BY <1>1, <1>2, ManifestStep

(* Once every thread has ended well, every chunk is written: the workers   *)
(* found the channel empty after the reader had reached the end, so all    *)
(* chunks were received, none is on its way, and pending holds none below  *)
(* next_index nor next_index itself.                                       *)
LEMMA AllWritten ==
    ASSUME IInv, main \in {"leftover", "finish"}
    PROVE  next_index = NumChunks /\ pending = {}
<1> USE PipelineAssumption
<1>t. TypeOK /\ NothingDuplicated /\ NothingLost /\ StageOrder
  BY DEF IInv
<1>1. /\ ~Returned /\ rd = "ok" /\ processed = <<>>
      /\ \A w \in Worker : wk[w] = "done"
  BY <1>t DEF StageOrder, Returned
<1>2. raw = <<>> /\ index = NumChunks
  BY <1>1, <1>t DEF StageOrder
<1>3. Received = NumChunks
  BY <1>2 DEF Received
<1>4. InHands = {} /\ InProcessed = {}
  BY <1>1 DEF InHands, InProcessed, Range, InHand
<1>5. next_index \notin pending
  BY <1>1, <1>t DEF StageOrder
<1>6. \A i \in 0..NumChunks-1 : i < next_index \/ i \in pending
  BY <1>1, <1>3, <1>4, <1>t DEF NothingLost
<1>7. next_index = NumChunks
  BY <1>5, <1>6, <1>t DEF TypeOK
<1>8. pending = {}
  BY <1>3, <1>7, <1>t DEF NothingDuplicated, TypeOK, Chunk
<1>9. QED
  BY <1>7, <1>8

LEMMA StageStep == IInv /\ TypeOK' /\ [Next]_vars => StageOrder'
<1> SUFFICES ASSUME IInv, TypeOK', [Next]_vars PROVE StageOrder'
  OBVIOUS
<1> USE PipelineAssumption
<1>t. TypeOK /\ StageOrder
  BY DEF IInv
<1>1. CASE Reader
  <2>1. UNCHANGED <<wk, processed, main, pending, next_index>> /\ ~ReaderExited
    BY <1>1 DEF Reader, ReadChunk, ReadEof, ReadError, SendRaw, SendCancelled, workerVars,
         mainVars, ReaderExited
  <2>2. /\ rd' = "send" => index' < NumChunks
        /\ rd' = "ok" => index' = NumChunks
    BY <1>1, <1>t DEF StageOrder, TypeOK, Reader, ReadChunk, ReadEof, ReadError, SendRaw,
         SendCancelled
  <2>3. \A w \in Worker : wk[w] = "done" => Returned
    BY <2>1, <1>t DEF StageOrder
  <2>4. main \notin {"join_workers", "leftover", "finish"}
    BY <2>1, <1>t DEF StageOrder, ReaderExited
  <2>5. QED
    BY <2>1, <2>2, <2>3, <2>4, <1>t DEF StageOrder, WorkersExited, WorkerExited, Returned
<1>2. ASSUME NEW w \in Worker, WorkerStep(w) PROVE StageOrder'
  <2>1. UNCHANGED <<rd, index, main, pending, next_index>> /\ ~WorkerExited(w)
    BY <1>2 DEF WorkerStep, Lock, Recv, RecvClosed, CompressError, SendProcessed, SendRefused,
         readerVars, mainVars, WorkerExited
  <2>2. main \notin {"join_reader", "join_workers", "leftover", "finish"}
    BY <2>1, <1>t DEF StageOrder, WorkersExited
  <2>3. \A v \in Worker : wk'[v] = "done" => wk[v] = "done" \/ Returned
                                             \/ (ReaderExited /\ raw = <<>>)
    BY <1>2, <1>t DEF TypeOK, WorkerStep, Lock, Recv, RecvClosed, CompressError, SendProcessed,
         SendRefused
  <2>4. raw = <<>> => raw' = <<>>
    BY <1>2 DEF WorkerStep, Lock, Recv, RecvClosed, CompressError, SendProcessed, SendRefused
  <2>5. QED
    BY <2>1, <2>2, <2>3, <2>4, <1>t DEF StageOrder, Returned, ReaderExited
<1>3. CASE MainStep \/ Cancel
  <2>1. UNCHANGED <<rd, index, raw, wk>>
    BY <1>3 DEF MainStep, RecvProcessed, RecvEnd, WriteChunk, WriteError, DrainEnd, JoinReader,
         JoinWorkers, CheckLeftover, Finish, Cancel, readerVars, workerVars
  <2>2. Returned => Returned'
    BY <1>3 DEF MainStep, RecvProcessed, RecvEnd, WriteChunk, WriteError, DrainEnd, JoinReader,
         JoinWorkers, CheckLeftover, Finish, Cancel, Returned
  <2>3. main' # "drain" /\ ~Returned' => next_index' \notin pending'
    BY <1>3, <1>t DEF StageOrder, Returned, MainStep, RecvProcessed, RecvEnd, WriteChunk,
         WriteError, DrainEnd, JoinReader, JoinWorkers, CheckLeftover, Finish, Cancel
  <2>4. main' \in {"join_reader", "join_workers", "leftover", "finish"} =>
            WorkersExited' /\ processed' = <<>>
    BY <1>3, <2>1, <1>t DEF StageOrder, MainStep, RecvProcessed, RecvEnd, WriteChunk,
         WriteError, DrainEnd, JoinReader, JoinWorkers, CheckLeftover, Finish, Cancel,
         WorkersExited, WorkerExited
  <2>5. main' \in {"join_workers", "leftover", "finish"} => rd' = "ok"
    BY <1>3, <2>1, <1>t DEF StageOrder, MainStep, RecvProcessed, RecvEnd, WriteChunk,
         WriteError, DrainEnd, JoinReader, JoinWorkers, CheckLeftover, Finish, Cancel
  <2>6. main' \in {"leftover", "finish"} => \A w \in Worker : wk'[w] = "done"
    BY <1>3, <2>1, <1>t DEF StageOrder, MainStep, RecvProcessed, RecvEnd, WriteChunk,
         WriteError, DrainEnd, JoinReader, JoinWorkers, CheckLeftover, Finish, Cancel
  <2>7. main' = "finish" => pending' = {}
    BY <1>3 DEF MainStep, RecvProcessed, RecvEnd, WriteChunk, WriteError, DrainEnd, JoinReader,
         JoinWorkers, CheckLeftover, Finish, Cancel
  <2>8. QED
    BY <2>1, <2>2, <2>3, <2>4, <2>5, <2>6, <2>7, <1>t DEF StageOrder, ReaderExited
<1>4. CASE UNCHANGED vars
  BY <1>4, <1>t DEF vars, StageOrder, Returned, ReaderExited, WorkersExited, WorkerExited
<1>5. QED
  BY <1>1, <1>2, <1>3, <1>4 DEF Next

LEMMA CommittedStep == IInv /\ [Next]_vars => CommittedComplete'
<1> SUFFICES ASSUME IInv, [Next]_vars, main' = "committed"
             PROVE  /\ rd' = "ok"
                    /\ \A w \in Worker : wk'[w] = "done"
                    /\ Len(manifest') = NumChunks
  BY DEF CommittedComplete
<1>1. CASE Finish
  <2>1. main = "finish" /\ UNCHANGED <<rd, wk, manifest>>
    BY <1>1 DEF Finish, readerVars, workerVars
  <2>2. rd = "ok" /\ \A w \in Worker : wk[w] = "done"
    BY <2>1 DEF IInv, StageOrder
  <2>3. next_index = NumChunks
    BY <2>1, AllWritten
  <2>4. QED
    BY <2>1, <2>2, <2>3 DEF IInv, SourceOrder
<1>2. CASE ~Finish
  <2>1. main = "committed"
    BY <1>2 DEF Next, Reader, ReadChunk, ReadEof, ReadError, SendRaw, SendCancelled, WorkerStep,
         Lock, Recv, RecvClosed, CompressError, SendProcessed, SendRefused, MainStep,
         RecvProcessed, RecvEnd, WriteChunk, WriteError, DrainEnd, JoinReader, JoinWorkers,
         CheckLeftover, Cancel, vars, mainVars
  <2>2. rd = "ok" /\ (\A w \in Worker : wk[w] = "done") /\ Len(manifest) = NumChunks
    BY <2>1 DEF IInv, CommittedComplete
  <2>3. UNCHANGED <<rd, wk, manifest>>
    BY <2>1, <2>2 DEF Next, Reader, ReadChunk, ReadEof, ReadError, SendRaw, SendCancelled,
         WorkerStep, Lock, Recv, RecvClosed, CompressError, SendProcessed, SendRefused, MainStep,
         RecvProcessed, RecvEnd, WriteChunk, WriteError, DrainEnd, JoinReader, JoinWorkers,
         CheckLeftover, Finish, Cancel, vars
  <2>4. QED
    BY <2>2, <2>3
<1>3. QED
  BY <1>1, <1>2

-----------------------------------------------------------------------------
LEMMA InitInv == Init => IInv
<1> SUFFICES ASSUME Init PROVE IInv
  OBVIOUS
<1> USE PipelineAssumption
<1>1. TypeOK
  BY DEF Init, TypeOK, ReaderState, WorkerState, MainState
<1>2. InHands = {} /\ InProcessed = {} /\ Received = 0
  <2>1. InHands = {}
    BY DEF Init, InHands, InHand
  <2>2. InProcessed = {}
    <3>1. processed = <<>>
      BY DEF Init
    <3>2. QED
      BY <3>1 DEF InProcessed, Range
  <2>3. Received = 0
    <3>1. raw = <<>> /\ index = 0
      BY DEF Init
    <3>2. Len(raw) = 0 /\ index = 0
      BY <3>1
    <3>3. QED
      BY <3>2 DEF Received
  <2>4. QED
    BY <2>1, <2>2, <2>3
<1>3. NothingDuplicated
  BY <1>2 DEF Init, NothingDuplicated, InHand
<1>4. NothingLost /\ SourceOrder /\ StageOrder /\ CommittedComplete
  BY <1>2 DEF Init, NothingLost, SourceOrder, StageOrder, CommittedComplete
<1>5. QED
  BY <1>1, <1>3, <1>4 DEF IInv

(* The inductive invariant holds in every behaviour, with or without       *)
(* fairness, for any number of workers, of which any may fail.             *)
THEOREM Invariance == SafeSpec => []IInv
<1>1. IInv /\ [Next]_vars => IInv'
  BY TypeStep, DuplicatedStep, LostStep, OrderStep, StageStep, CommittedStep DEF IInv
<1>2. QED
  BY InitInv, <1>1, PTL DEF SafeSpec

(* Every variable of the pipeline keeps its type and both channels their   *)
(* capacity.                                                               *)
THEOREM TypeCorrect == SafeSpec => []TypeOK
<1>1. IInv => TypeOK
  BY DEF IInv
<1>2. QED
  BY Invariance, <1>1, PTL

(* The engine never holds a chunk twice.                                   *)
THEOREM ChunksNotDuplicated == SafeSpec => []NothingDuplicated
<1>1. IInv => NothingDuplicated
  BY DEF IInv
<1>2. QED
  BY Invariance, <1>1, PTL

(* The engine never drops a chunk while it runs and no worker has failed.  *)
THEOREM ChunksNotLost == SafeSpec => []NothingLost
<1>1. IInv => NothingLost
  BY DEF IInv
<1>2. QED
  BY Invariance, <1>1, PTL

(* Parallel work does not reorder the manifest.                            *)
THEOREM ManifestInOrder == SafeSpec => []SourceOrder
<1>1. IInv => SourceOrder
  BY DEF IInv
<1>2. QED
  BY Invariance, <1>1, PTL

(* A committed manifest describes the whole source.                        *)
THEOREM CommitsWholeSource == SafeSpec => []CommittedComplete
<1>1. IInv => CommittedComplete
  BY DEF IInv
<1>2. QED
  BY Invariance, <1>1, PTL

(* The leftover error is dead code.                                        *)
THEOREM LeftoverUnreachable == SafeSpec => []NoLeftover
<1>1. IInv => NoLeftover
  BY AllWritten DEF NoLeftover
<1>2. QED
  BY Invariance, <1>1, PTL

-----------------------------------------------------------------------------
(* Every step of the threads is a step of the sequential backup or leaves  *)
(* it unchanged: adding a descriptor is Record, the successful commit is   *)
(* Commit, an error or a cancellation is Fail.                             *)
LEMMA SequentialStep == IInv /\ IInv' /\ [Next]_vars => [Sequential!Next]_(Sequential!vars)
<1> SUFFICES ASSUME IInv, IInv', [Next]_vars
             PROVE  Sequential!Next \/ UNCHANGED Sequential!vars
  OBVIOUS
<1> USE DEF Sequential!Next, Sequential!vars, Sequential!Record, Sequential!Commit,
            Sequential!Fail, Returned
<1>t. Len(manifest) = next_index /\ next_index \in 0..NumChunks /\ next_index' \in 0..NumChunks
  BY DEF IInv, SourceOrder, TypeOK
<1>1. CASE WriteChunk
  <2>1. main = "drain" /\ main' = "drain"
    BY <1>1 DEF WriteChunk
  <2>2. manifest' = Append(manifest, Len(manifest))
    BY <1>1, <1>t DEF WriteChunk
  <2>3. Len(manifest) < NumChunks
    BY <1>1, <1>t, PipelineAssumption DEF WriteChunk
  <2>4. Sequential!Record
    BY <2>1, <2>2, <2>3
  <2>5. QED
    BY <2>4
<1>2. CASE Finish
  <2>1. main = "finish" /\ main' \in {"committed", "error"} /\ manifest' = manifest
    BY <1>2 DEF Finish
  <2>2. Len(manifest) = NumChunks
    BY <2>1, <1>t, AllWritten
  <2>3. QED
    BY <2>1, <2>2
<1>3. CASE Cancel \/ WriteError
  BY <1>3 DEF Cancel, WriteError
<1>4. CASE RecvProcessed \/ RecvEnd \/ DrainEnd \/ JoinReader \/ JoinWorkers \/ CheckLeftover
  BY <1>4 DEF RecvProcessed, RecvEnd, DrainEnd, JoinReader, JoinWorkers, CheckLeftover
<1>5. CASE Reader \/ (\E w \in Worker : WorkerStep(w)) \/ UNCHANGED vars
  <2>1. UNCHANGED <<main, manifest>>
    BY <1>5 DEF Reader, ReadChunk, ReadEof, ReadError, SendRaw, SendCancelled, WorkerStep, Lock,
         Recv, RecvClosed, CompressError, SendProcessed, SendRefused, vars, mainVars
  <2>2. QED
    BY <2>1
<1>6. QED
  BY <1>1, <1>2, <1>3, <1>4, <1>5 DEF Next, MainStep

(* The pipeline implements the sequential backup.                          *)
THEOREM ImplementsSequential == SafeSpec => RefinesSequential
<1>1. Init => Sequential!Init
  BY DEF Init, Sequential!Init, Returned
<1>2. QED
  BY Invariance, SequentialStep, <1>1, PTL
     DEF SafeSpec, RefinesSequential, Sequential!SafeSpec

-----------------------------------------------------------------------------
(* Each worker that failed had taken a chunk of its own from the channel:  *)
(* the chunk in its hand, busy or failed, is in no other worker's hand.    *)
Holding == {w \in Worker : wk[w] \in {"busy", "failed"}}

FailuresHold ==
    /\ \A w \in Worker : wk[w] = "failed" => w \in FailingWorker
    /\ \A w \in Holding : hand[w] < Received
    /\ \A v, w \in Holding : hand[v] = hand[w] => v = w

LEMMA FailuresHoldStep == IInv /\ FailuresHold /\ [Next]_vars => FailuresHold'
<1> SUFFICES ASSUME IInv, FailuresHold, [Next]_vars PROVE FailuresHold'
  OBVIOUS
<1> USE PipelineAssumption
<1>t. TypeOK /\ NothingDuplicated /\ StageOrder
  BY DEF IInv
<1>i. /\ index \in Nat /\ Len(raw) \in Nat /\ Received \in Int
      /\ \A w \in Worker : hand[w] \in Nat
  BY <1>t DEF TypeOK, Received
<1>1. CASE UNCHANGED <<raw, index, wk, hand>>
  BY <1>1 DEF FailuresHold, Holding, Received
<1>2. CASE SendRaw
  <2>1. index \in Chunk /\ raw' = Append(raw, index) /\ index' = index + 1
    BY <1>2, <1>t DEF SendRaw, TypeOK, Chunk, StageOrder
  <2>2. Received' = Received
    BY <2>1, <1>t, <1>i, AddLast DEF TypeOK, Received
  <2>3. QED
    BY <1>2, <2>2 DEF SendRaw, workerVars, FailuresHold, Holding
<1>3. ASSUME NEW w \in Worker, Recv(w) PROVE FailuresHold'
  <2>1. Len(raw) >= 1 /\ Head(raw) = Received /\ Received' = Received + 1
    BY <1>3, <1>t, <1>i, TakeFirst DEF Recv, TypeOK, Received, NothingDuplicated, readerVars
  <2>2. /\ hand' = [hand EXCEPT ![w] = Head(raw)] /\ wk' = [wk EXCEPT ![w] = "busy"]
        /\ wk[w] = "recv"
    BY <1>3 DEF Recv
  <2>3. /\ wk'[w] = "busy" /\ hand'[w] = Received
        /\ \A v \in Worker \ {w} : wk'[v] = wk[v] /\ hand'[v] = hand[v]
    BY <2>1, <2>2, <1>t DEF TypeOK
  <2>4. Holding' = Holding \cup {w} /\ w \notin Holding
    BY <2>2, <2>3 DEF Holding
  <2>c. \A v \in Holding : hand'[v] = hand[v] /\ hand[v] < Received
    BY <2>3, <2>4 DEF FailuresHold, Holding
  <2>5. \A v \in Holding' : hand'[v] < Received'
    BY <2>1, <2>3, <2>4, <2>c, <1>i DEF Holding
  <2>6. \A u, v \in Holding' : hand'[u] = hand'[v] => u = v
    BY <2>3, <2>4, <2>c, <1>i DEF FailuresHold, Holding
  <2>7. \A v \in Worker : wk'[v] = "failed" => v \in FailingWorker
    BY <2>3 DEF FailuresHold
  <2>8. QED
    BY <2>5, <2>6, <2>7 DEF FailuresHold
<1>4. ASSUME NEW w \in Worker, WorkerStep(w), ~Recv(w) PROVE FailuresHold'
  <2>1. UNCHANGED <<hand, Received>>
    BY <1>4 DEF WorkerStep, Lock, RecvClosed, CompressError, SendProcessed, SendRefused,
         Received, readerVars
  <2>2. Holding' \subseteq Holding
    BY <1>4, <1>t DEF WorkerStep, Lock, RecvClosed, CompressError, SendProcessed, SendRefused,
         Holding, TypeOK
  <2>3. \A v \in Worker : wk'[v] = "failed" => v \in FailingWorker
    BY <1>4, <1>t DEF WorkerStep, Lock, RecvClosed, CompressError, SendProcessed, SendRefused,
         FailuresHold, TypeOK
  <2>4. QED
    BY <2>1, <2>2, <2>3 DEF FailuresHold
<1>5. CASE (Reader /\ ~SendRaw) \/ MainStep \/ Cancel \/ UNCHANGED vars
  <2>1. UNCHANGED <<raw, index, wk, hand>>
    BY <1>5 DEF Reader, ReadChunk, ReadEof, ReadError, SendCancelled, MainStep, RecvProcessed,
         RecvEnd, WriteChunk, WriteError, DrainEnd, JoinReader, JoinWorkers, CheckLeftover,
         Finish, Cancel, vars, workerVars, readerVars
  <2>2. QED
    BY <2>1, <1>1
<1>6. QED
  BY <1>2, <1>3, <1>4, <1>5 DEF Next

(* The chunk that went with a failed worker is never written.              *)
LostStayLost ==
    \A w \in Worker : wk[w] = "failed" =>
        next_index <= hand[w] /\ hand[w] \notin InProcessed \cup pending

LEMMA LostStayLostStep ==
    IInv /\ FailuresHold /\ LostStayLost /\ [Next]_vars => LostStayLost'
<1> SUFFICES ASSUME IInv, FailuresHold, LostStayLost, [Next]_vars PROVE LostStayLost'
  OBVIOUS
<1>t. TypeOK /\ NothingDuplicated
  BY DEF IInv
<1>i. next_index \in Nat /\ \A w \in Worker : hand[w] \in Nat
  BY <1>t, PipelineAssumption DEF TypeOK
<1>1. CASE UNCHANGED <<wk, hand, processed, pending, next_index>>
  BY <1>1 DEF LostStayLost, InProcessed
<1>2. CASE RecvProcessed
  <2>1. /\ processed \in Seq(Chunk) /\ processed # <<>> /\ processed' = Tail(processed)
        /\ pending' = pending \cup {Head(processed)}
        /\ UNCHANGED <<wk, hand, next_index>>
    BY <1>2, <1>t DEF RecvProcessed, workerVars, TypeOK
  <2>2. Range(Tail(processed)) \cup {Head(processed)} \subseteq Range(processed)
    BY <2>1, TakeFirstElements
  <2>3. (InProcessed \cup pending)' \subseteq InProcessed \cup pending
    BY <2>1, <2>2 DEF InProcessed
  <2>4. QED
    BY <2>1, <2>3 DEF LostStayLost
<1>3. CASE WriteChunk
  <2>1. /\ next_index \in pending /\ pending' = pending \ {next_index}
        /\ next_index' = next_index + 1
        /\ UNCHANGED <<wk, hand, processed>>
    BY <1>3 DEF WriteChunk, workerVars
  <2>2. \A w \in Worker : wk[w] = "failed" => hand[w] # next_index
    BY <2>1 DEF LostStayLost
  <2>3. QED
    BY <2>1, <2>2, <1>i DEF LostStayLost, InProcessed
<1>4. CASE WriteError
  BY <1>4 DEF WriteError, workerVars, LostStayLost, InProcessed
<1>5. ASSUME NEW w \in Worker, CompressError(w) PROVE LostStayLost'
  <2>1. /\ wk[w] = "busy" /\ wk' = [wk EXCEPT ![w] = "failed"]
        /\ UNCHANGED <<hand, processed, pending, next_index>>
    BY <1>5 DEF CompressError, mainVars
  <2>2. hand[w] \in InHands
    BY <2>1 DEF InHands, InHand
  <2>3. next_index <= hand[w] /\ hand[w] \notin InProcessed \cup pending
    BY <2>2, <1>t DEF NothingDuplicated
  <2>4. QED
    BY <2>1, <2>3, <1>t DEF LostStayLost, InProcessed, TypeOK
<1>6. ASSUME NEW w \in Worker, SendProcessed(w) PROVE LostStayLost'
  <2>1. /\ wk[w] = "busy" /\ wk' = [wk EXCEPT ![w] = "idle"]
        /\ processed' = Append(processed, hand[w])
        /\ processed \in Seq(Chunk) /\ hand[w] \in Chunk
        /\ UNCHANGED <<hand, pending, next_index>>
    <3>1. hand[w] \in Chunk
      <4>1. hand[w] \in InHands /\ hand[w] \in Nat
        BY <1>6, <1>i DEF SendProcessed, InHands, InHand
      <4>2. hand[w] < Received
        BY <4>1, <1>t DEF NothingDuplicated
      <4>3. QED
        BY <4>1, <4>2, <1>t, PipelineAssumption DEF Received, TypeOK, Chunk
    <3>2. QED
      BY <1>6, <1>t, <3>1 DEF SendProcessed, mainVars, TypeOK
  <2>2. InProcessed' = InProcessed \cup {hand[w]}
    BY <2>1, AddLastElements DEF InProcessed
  <2>3. \A v \in Worker : wk'[v] = "failed" => wk[v] = "failed" /\ hand[v] # hand[w]
    BY <2>1, <1>t DEF FailuresHold, Holding, TypeOK
  <2>4. QED
    BY <2>1, <2>2, <2>3 DEF LostStayLost
<1>7. ASSUME NEW w \in Worker, Lock(w) \/ Recv(w) \/ RecvClosed(w) \/ SendRefused(w)
      PROVE  LostStayLost'
  <2>1. \A v \in Worker : wk'[v] = "failed" => wk[v] = "failed" /\ hand'[v] = hand[v]
    BY <1>7, <1>t DEF Lock, Recv, RecvClosed, SendRefused, TypeOK
  <2>2. UNCHANGED <<processed, pending, next_index>>
    BY <1>7 DEF Lock, Recv, RecvClosed, SendRefused, mainVars
  <2>3. QED
    BY <2>1, <2>2 DEF LostStayLost, InProcessed
<1>8. CASE \/ Reader \/ RecvEnd \/ DrainEnd \/ JoinReader \/ JoinWorkers \/ CheckLeftover
           \/ Finish \/ Cancel \/ UNCHANGED vars
  <2>1. UNCHANGED <<wk, hand, processed, pending, next_index>>
    BY <1>8 DEF Reader, ReadChunk, ReadEof, ReadError, SendRaw, SendCancelled, RecvEnd, DrainEnd,
         JoinReader, JoinWorkers, CheckLeftover, Finish, Cancel, vars, workerVars, mainVars
  <2>2. QED
    BY <2>1, <1>1
<1>9. QED
  BY <1>2, <1>3, <1>4, <1>5, <1>6, <1>7, <1>8 DEF Next, WorkerStep, MainStep

(* If all workers have failed, they took as many chunks as they are, none  *)
(* of which is written.                                                    *)
LEMMA AllFailedCount ==
    ASSUME IInv, FailuresHold, LostStayLost, \A w \in Worker : wk[w] = "failed"
    PROVE  Cardinality(Worker) \in Nat /\ Received - next_index >= Cardinality(Worker)
<1> USE PipelineAssumption
<1>1. /\ Holding = Worker /\ Received \in Int /\ hand \in [Worker -> Nat]
      /\ next_index \in Nat
  BY DEF Holding, IInv, TypeOK, Received
<1>2. PICK w \in Worker : TRUE
  OBVIOUS
<1>3. \A v \in Worker : next_index <= hand[v] /\ hand[v] < Received
  BY <1>1 DEF FailuresHold, LostStayLost
<1> DEFINE a == next_index
           b == Received - 1
<1>4. a \in Int /\ b \in Int /\ ~(a > b) /\ b - a + 1 = Received - next_index
  BY <1>1, <1>2, <1>3
<1>5. hand \in Injection(Worker, a..b)
  BY <1>1, <1>3, <1>4 DEF FailuresHold, Injection, IsInjective
<1> HIDE DEF a, b
<1>6. IsFiniteSet(a..b) /\ Cardinality(a..b) = b - a + 1
  BY <1>4, FS_Interval
<1>7. Cardinality(Worker) \in Nat /\ Cardinality(Worker) <= Cardinality(a..b)
  BY <1>5, <1>6, FS_Injection, FS_CardinalityType
<1>8. QED
  BY <1>4, <1>6, <1>7

(* Why some thread can always go on: while `backup` runs, main waits for   *)
(* workers, a worker for the reader or for main, the reader for workers;   *)
(* the circle closes only where main no longer takes and no worker is left *)
(* to take, and there every worker has failed.                             *)
LEMMA SomeThreadCanGo == IInv /\ FailuresHold /\ LostStayLost => OnlyKnownHang
<1> SUFFICES ASSUME IInv, FailuresHold, LostStayLost, ~Ended, ~ReaderCanGo,
                    \A w \in Worker : ~WorkerCanGo(w), ~MainCanGo
             PROVE  KnownHang
  BY DEF OnlyKnownHang
<1> USE PipelineAssumption
<1>t. TypeOK /\ StageOrder
  BY DEF IInv
<1>i. /\ QueueDepth \in Nat /\ QueueDepth >= 1 /\ Len(raw) \in Nat /\ Len(processed) \in Nat
      /\ (raw = <<>> <=> Len(raw) = 0) /\ (processed = <<>> <=> Len(processed) = 0)
  BY <1>t DEF TypeOK
<1>1. ReaderExited \/ (rd = "send" /\ RawOpen /\ Len(raw) = QueueDepth)
  BY <1>t, <1>i DEF ReaderCanGo, TypeOK, ReaderState, ReaderExited
<1>2. \A w \in Worker : wk[w] = "busy" => ~Returned /\ Len(processed) = QueueDepth
  BY <1>t, <1>i DEF WorkerCanGo, TypeOK
<1>3. \A w \in Worker : wk[w] = "recv" => raw = <<>> /\ ~ReaderExited
  BY DEF WorkerCanGo
<1>4. \A w \in Worker : wk[w] # "recv"
  BY <1>1, <1>3, <1>i
<1>5. \A w \in Worker : wk[w] = "busy" \/ WorkerExited(w)
  BY <1>4, <1>t DEF WorkerCanGo, WorkerExited, TypeOK, WorkerState
<1>6. ~Returned
  <2> SUFFICES ASSUME Returned PROVE FALSE
    OBVIOUS
  <2>1. WorkersExited
    BY <1>2, <1>5 DEF WorkersExited
  <2>2. QED
    BY <1>1, <2>1 DEF RawOpen, Ended
<1>7. main # "recv"
  <2> SUFFICES ASSUME main = "recv" PROVE FALSE
    OBVIOUS
  <2>1. processed = <<>> /\ ~WorkersExited
    BY DEF MainCanGo
  <2>2. QED
    BY <2>1, <1>2, <1>5, <1>i DEF WorkersExited
<1>8. main \in {"join_reader", "join_workers"}
  BY <1>6, <1>7, <1>t DEF TypeOK, MainState, Returned, MainCanGo
<1>9. main = "join_reader" /\ rd = "send" /\ Len(raw) = QueueDepth /\ WorkersExited
  BY <1>1, <1>8, <1>t DEF MainCanGo, StageOrder
<1>10. \A w \in Worker : wk[w] = "failed"
  BY <1>9, <1>6, <1>t DEF StageOrder, WorkersExited, WorkerExited, ReaderExited
<1>11. NumChunks - next_index > QueueDepth + Cardinality(Worker)
  <2>1. index < NumChunks /\ index \in Nat /\ next_index \in Nat
    BY <1>9, <1>t DEF StageOrder, TypeOK
  <2>2. index = Received + QueueDepth
    BY <1>9, <2>1, <1>i DEF Received
  <2>3. Cardinality(Worker) \in Nat /\ Received - next_index >= Cardinality(Worker)
    BY <1>10, AllFailedCount
  <2>4. Received \in Int
    BY <2>1, <1>i DEF Received
  <2>5. QED
    BY <2>1, <2>2, <2>3, <2>4, <1>i
<1>12. QED
  BY <1>9, <1>10, <1>11 DEF KnownHang, FailuresHold

LEMMA FailuresHoldAlways == SafeSpec => [](IInv /\ FailuresHold /\ LostStayLost)
<1>1. Init => FailuresHold /\ LostStayLost
  BY DEF Init, FailuresHold, LostStayLost, Holding
<1>2. QED
  BY Invariance, FailuresHoldStep, LostStayLostStep, <1>1, PTL DEF SafeSpec

(* Freedom from deadlock, but for the one hang of engine.rs:235: the       *)
(* threads never wait for each other in a circle as long as one worker     *)
(* lives, whatever fails and whenever the future is dropped.               *)
THEOREM DeadlockOnlyAllFailed == SafeSpec => []OnlyKnownHang
  BY FailuresHoldAlways, SomeThreadCanGo, PTL

(* With a worker that cannot fail, or with a source of no more chunks than *)
(* there are workers and places in the raw channel, some thread can always *)
(* go on until the backup has returned and its threads have ended.         *)
THEOREM NoHang ==
    ASSUME Worker \ FailingWorker # {} \/ NumChunks <= QueueDepth + Cardinality(Worker)
    PROVE  SafeSpec => [](Ended \/ ReaderCanGo \/ (\E w \in Worker : WorkerCanGo(w)) \/ MainCanGo)
<1>1. IInv => ~KnownHang
  <2>1. Cardinality(Worker) \in Nat /\ QueueDepth \in Nat /\ NumChunks \in Nat
    BY PipelineAssumption, FS_CardinalityType
  <2>2. IInv => next_index \in Nat
    BY DEF IInv, TypeOK
  <2>3. QED
    BY <2>1, <2>2 DEF KnownHang
<1>2. IInv /\ FailuresHold /\ LostStayLost =>
        Ended \/ ReaderCanGo \/ (\E w \in Worker : WorkerCanGo(w)) \/ MainCanGo
  BY <1>1, SomeThreadCanGo DEF OnlyKnownHang
<1>3. QED
  BY <1>2, FailuresHoldAlways, PTL

-----------------------------------------------------------------------------
(* A worker goes from one state to another: what that does to the counts.  *)
LEMMA MoveWorker ==
    ASSUME TypeOK, NEW w \in Worker, NEW b \in WorkerState, wk[w] # b,
           wk' = [wk EXCEPT ![w] = b]
    PROVE  \A s \in WorkerState :
              Cardinality(Workers(s))' = IF s = b THEN Cardinality(Workers(s)) + 1
                                         ELSE IF s = wk[w] THEN Cardinality(Workers(s)) - 1
                                         ELSE Cardinality(Workers(s))
<1> SUFFICES ASSUME NEW s \in WorkerState
             PROVE  Cardinality(Workers(s)') = IF s = b THEN Cardinality(Workers(s)) + 1
                                               ELSE IF s = wk[w] THEN Cardinality(Workers(s)) - 1
                                               ELSE Cardinality(Workers(s))
  OBVIOUS
<1>1. wk'[w] = b /\ \A v \in Worker \ {w} : wk'[v] = wk[v]
  BY DEF TypeOK
<1>2. IsFiniteSet(Workers(s))
  BY PipelineAssumption, FS_Subset DEF Workers
<1>3. CASE s = b
  <2>1. Workers(s)' = Workers(s) \cup {w} /\ w \notin Workers(s)
    BY <1>1, <1>3 DEF Workers
  <2>2. QED
    BY <2>1, <1>2, <1>3, FS_AddElement
<1>4. CASE s = wk[w]
  <2>1. Workers(s)' = Workers(s) \ {w} /\ w \in Workers(s)
    BY <1>1, <1>4 DEF Workers
  <2>2. QED
    BY <2>1, <1>2, <1>4, FS_RemoveElement
<1>5. CASE s # b /\ s # wk[w]
  <2>1. Workers(s)' = Workers(s)
    BY <1>1, <1>5 DEF Workers
  <2>2. QED
    BY <2>1, <1>5
<1>6. QED
  BY <1>3, <1>4, <1>5

LEMMA CountsNat ==
    ASSUME TypeOK
    PROVE  /\ \A s \in WorkerState : Cardinality(Workers(s)) \in Nat
           /\ IsFiniteSet(pending) /\ Cardinality(pending) \in Nat
           /\ Len(raw) \in Nat /\ Len(processed) \in Nat
           /\ NumChunks \in Nat /\ index \in Nat /\ index <= NumChunks
           /\ StepsOfReader \in 0..2 /\ StepsOfMain \in 0..6
<1> USE PipelineAssumption
<1>1. \A s \in WorkerState : Cardinality(Workers(s)) \in Nat
  <2> SUFFICES ASSUME NEW s \in WorkerState PROVE Cardinality(Workers(s)) \in Nat
    OBVIOUS
  <2>1. IsFiniteSet(Workers(s))
    BY FS_Subset DEF Workers
  <2>2. QED
    BY <2>1, FS_CardinalityType
<1>2. IsFiniteSet(pending) /\ Cardinality(pending) \in Nat
  <2>1. IsFiniteSet(Chunk) /\ pending \in SUBSET Chunk
    BY FS_Interval DEF TypeOK, Chunk
  <2>2. QED
    BY <2>1, FS_Subset, FS_CardinalityType
<1>3. StepsOfReader \in 0..2
  BY DEF StepsOfReader
<1>4. StepsOfMain \in 0..6
  BY DEF StepsOfMain, TypeOK, MainState
<1>5. QED
  BY <1>1, <1>2, <1>3, <1>4 DEF TypeOK

(* Every step brings the whole nearer to its end.                          *)
LEMMA StepsDecrease == IInv /\ TypeOK' /\ Next => StepsLeft' < StepsLeft
<1> SUFFICES ASSUME IInv, TypeOK', Next PROVE StepsLeft' < StepsLeft
  OBVIOUS
<1>t. TypeOK
  BY DEF IInv
<1> DEFINE busy == Cardinality(Workers("busy"))
           idle == Cardinality(Workers("idle"))
           recv == Cardinality(Workers("recv"))
           left == Cardinality(pending)
<1>n. /\ busy \in Nat /\ idle \in Nat /\ recv \in Nat /\ left \in Nat
      /\ Len(raw) \in Nat /\ Len(processed) \in Nat
      /\ NumChunks \in Nat /\ index \in Nat /\ index <= NumChunks
      /\ StepsOfReader \in 0..2 /\ StepsOfMain \in 0..6
  BY <1>t, CountsNat DEF WorkerState
<1>d. StepsLeft = 8 * (NumChunks - index) + 6 * Len(raw) + 6 * busy + 2 * idle + recv
                  + 3 * Len(processed) + left + StepsOfReader + StepsOfMain
  BY DEF StepsLeft
<1>e. StepsLeft' = 8 * (NumChunks - index') + 6 * Len(raw') + 6 * busy' + 2 * idle' + recv'
                   + 3 * Len(processed') + left' + StepsOfReader' + StepsOfMain'
  BY DEF StepsLeft
<1> HIDE DEF busy, idle, recv, left
<1>w. wk' = wk => UNCHANGED <<busy, idle, recv>>
  BY DEF busy, idle, recv, Workers
<1>p. pending' = pending => left' = left
  BY DEF left
<1>r. rd' = rd => StepsOfReader' = StepsOfReader
  BY DEF StepsOfReader
<1>m. main' = main => StepsOfMain' = StepsOfMain
  BY DEF StepsOfMain
<1>1. CASE SendRaw
  <2>1. /\ UNCHANGED <<wk, processed, pending, main>>
        /\ index' = index + 1 /\ StepsOfReader = 1 /\ StepsOfReader' = 2
    BY <1>1 DEF SendRaw, workerVars, mainVars, StepsOfReader
  <2>2. index \in Chunk
    BY <1>1, <1>t DEF SendRaw, IInv, StageOrder, TypeOK, Chunk
  <2>3. Len(raw') = Len(raw) + 1
    BY <1>1, <2>2, <1>t, AddLast DEF SendRaw, TypeOK
  <2>4. QED
    BY <2>1, <2>3, <1>n, <1>d, <1>e, <1>w, <1>p, <1>m
<1>2. CASE ReadChunk \/ ReadEof \/ ReadError \/ SendCancelled
  <2>1. /\ UNCHANGED <<wk, processed, pending, main, index, raw>>
        /\ StepsOfReader' < StepsOfReader
    BY <1>2 DEF ReadChunk, ReadEof, ReadError, SendCancelled, workerVars, mainVars, StepsOfReader
  <2>2. StepsOfReader' \in Nat
    BY DEF StepsOfReader
  <2>3. QED
    BY <2>1, <2>2, <1>n, <1>d, <1>e, <1>w, <1>p, <1>m
<1>3. ASSUME NEW w \in Worker, WorkerStep(w) PROVE StepsLeft' < StepsLeft
  <2>1. UNCHANGED <<rd, index, pending, main>>
    BY <1>3 DEF WorkerStep, Lock, Recv, RecvClosed, CompressError, SendProcessed, SendRefused,
         readerVars, mainVars
  <2>2. CASE Lock(w)
    <3>1. UNCHANGED <<raw, processed>> /\ idle' = idle - 1 /\ recv' = recv + 1 /\ busy' = busy
      BY <2>2, <1>t, MoveWorker DEF Lock, WorkerState, idle, recv, busy
    <3>2. QED
      BY <3>1, <2>1, <1>n, <1>d, <1>e, <1>p, <1>r, <1>m
  <2>3. CASE Recv(w)
    <3>1. processed' = processed /\ recv' = recv - 1 /\ busy' = busy + 1 /\ idle' = idle
      BY <2>3, <1>t, MoveWorker DEF Recv, WorkerState, idle, recv, busy
    <3>2. Len(raw') = Len(raw) - 1
      BY <2>3, <1>t, TakeFirst DEF Recv, TypeOK
    <3>3. QED
      BY <3>1, <3>2, <2>1, <1>n, <1>d, <1>e, <1>p, <1>r, <1>m
  <2>4. CASE RecvClosed(w)
    <3>1. UNCHANGED <<raw, processed>> /\ recv' = recv - 1 /\ busy' = busy /\ idle' = idle
      BY <2>4, <1>t, MoveWorker DEF RecvClosed, WorkerState, idle, recv, busy
    <3>2. QED
      BY <3>1, <2>1, <1>n, <1>d, <1>e, <1>p, <1>r, <1>m
  <2>5. CASE CompressError(w) \/ SendRefused(w)
    <3>1. UNCHANGED <<raw, processed>> /\ recv' = recv /\ busy' = busy - 1 /\ idle' = idle
      BY <2>5, <1>t, MoveWorker DEF CompressError, SendRefused, WorkerState, idle, recv, busy
    <3>2. QED
      BY <3>1, <2>1, <1>n, <1>d, <1>e, <1>p, <1>r, <1>m
  <2>6. CASE SendProcessed(w)
    <3>1. raw' = raw /\ recv' = recv /\ busy' = busy - 1 /\ idle' = idle + 1
      BY <2>6, <1>t, MoveWorker DEF SendProcessed, WorkerState, idle, recv, busy
    <3>2. hand[w] \in InHands
      BY <2>6 DEF SendProcessed, InHands, InHand
    <3>3. hand[w] \in Chunk
      BY <3>2, <1>t, <1>n DEF IInv, NothingDuplicated, TypeOK, Chunk, Received
    <3>4. Len(processed') = Len(processed) + 1
      BY <2>6, <3>3, <1>t, AddLast DEF SendProcessed, TypeOK
    <3>5. QED
      BY <3>1, <3>4, <2>1, <1>n, <1>d, <1>e, <1>p, <1>r, <1>m
  <2>7. QED
    BY <1>3, <2>2, <2>3, <2>4, <2>5, <2>6 DEF WorkerStep
<1>4. CASE MainStep \/ Cancel
  <2>1. UNCHANGED <<rd, index, raw, wk>>
    BY <1>4 DEF MainStep, RecvProcessed, RecvEnd, WriteChunk, WriteError, DrainEnd, JoinReader,
         JoinWorkers, CheckLeftover, Finish, Cancel, readerVars, workerVars
  <2>2. CASE RecvProcessed
    <3>1. StepsOfMain = 5 /\ StepsOfMain' = 6
      BY <2>2 DEF RecvProcessed, StepsOfMain
    <3>2. Len(processed') = Len(processed) - 1
      BY <2>2, <1>t, TakeFirst DEF RecvProcessed, TypeOK
    <3>3. left' \in Nat /\ left' <= left + 1
      <4>1. pending' = pending \cup {Head(processed)} /\ IsFiniteSet(pending)
        BY <2>2, <1>t, CountsNat DEF RecvProcessed
      <4>2. left' = IF Head(processed) \in pending THEN left ELSE left + 1
        BY <4>1, FS_AddElement DEF left
      <4>3. QED
        BY <4>2, <1>n
    <3>4. UNCHANGED <<busy, idle, recv, StepsOfReader>>
      BY <2>1, <1>w, <1>r
    <3>5. StepsLeft' = 8 * (NumChunks - index) + 6 * Len(raw) + 6 * busy + 2 * idle + recv
                       + 3 * (Len(processed) - 1) + left' + StepsOfReader + 6
      BY <3>1, <3>2, <3>4, <2>1, <1>e
    <3>6. QED
      BY <3>1, <3>3, <3>5, <1>n, <1>d
  <2>3. CASE WriteChunk \/ WriteError
    <3>1. left' = left - 1
      <4>1. /\ pending' = pending \ {next_index} /\ next_index \in pending
            /\ IsFiniteSet(pending)
        BY <2>3, <1>t, CountsNat DEF WriteChunk, WriteError
      <4>2. QED
        BY <4>1, <1>n, FS_RemoveElement DEF left
    <3>2. processed' = processed /\ main' \in {"drain", "error"} /\ main = "drain"
      BY <2>3 DEF WriteChunk, WriteError
    <3>3. StepsOfMain' \in Nat /\ StepsOfMain' <= StepsOfMain
      BY <3>2 DEF StepsOfMain
    <3>4. QED
      BY <3>1, <3>2, <3>3, <2>1, <1>n, <1>d, <1>e, <1>w, <1>r
  <2>4. CASE \/ RecvEnd \/ DrainEnd \/ JoinReader \/ JoinWorkers \/ CheckLeftover \/ Finish
             \/ Cancel
    <3>1. UNCHANGED <<processed, pending>>
      BY <2>4 DEF RecvEnd, DrainEnd, JoinReader, JoinWorkers, CheckLeftover, Finish, Cancel
    <3>2. StepsOfMain' \in Nat /\ StepsOfMain' < StepsOfMain
      BY <2>4 DEF RecvEnd, DrainEnd, JoinReader, JoinWorkers, CheckLeftover, Finish, Cancel,
           StepsOfMain
    <3>3. QED
      BY <3>1, <3>2, <2>1, <1>n, <1>d, <1>e, <1>w, <1>p, <1>r
  <2>5. QED
    BY <1>4, <2>2, <2>3, <2>4 DEF MainStep
<1>5. QED
  BY <1>1, <1>2, <1>3, <1>4 DEF Next, Reader

(* No step of any thread is in vain.                                       *)
THEOREM NoStepInVain == SafeSpec => StepsRunOut
<1>1. IInv /\ IInv' /\ [Next]_vars => [StepsLeft' < StepsLeft]_vars
  BY StepsDecrease DEF IInv
<1>2. QED
  BY Invariance, <1>1, PTL DEF SafeSpec, StepsRunOut

(* A backup and its threads take no more steps than this, so that with     *)
(* DeadlockOnlyAllFailed the fairness of the scheduler is all that the     *)
(* termination of engine::backup rests on.                                 *)
MostSteps == 8 * NumChunks + 2 * Cardinality(Worker) + 7

THEOREM StepsBounded == SafeSpec => [](StepsLeft \in 0..MostSteps)
<1>a. MostSteps \in Nat
  BY PipelineAssumption, FS_CardinalityType DEF MostSteps
<1>n. IInv => StepsLeft \in Nat
  <2> SUFFICES ASSUME IInv PROVE StepsLeft \in Nat
    OBVIOUS
  <2>1. TypeOK
    BY DEF IInv
  <2>2. /\ Cardinality(Workers("busy")) \in Nat /\ Cardinality(Workers("idle")) \in Nat
        /\ Cardinality(Workers("recv")) \in Nat
    BY <2>1, CountsNat DEF WorkerState
  <2>3. /\ Cardinality(pending) \in Nat /\ Len(raw) \in Nat /\ Len(processed) \in Nat
        /\ NumChunks - index \in Nat /\ StepsOfReader \in Nat /\ StepsOfMain \in Nat
    BY <2>1, CountsNat
  <2> DEFINE unread == NumChunks - index
             busy == Cardinality(Workers("busy"))
             idle == Cardinality(Workers("idle"))
             recv == Cardinality(Workers("recv"))
             left == Cardinality(pending)
  <2>4. StepsLeft = 8 * unread + 6 * Len(raw) + 6 * busy + 2 * idle + recv
                    + 3 * Len(processed) + left + StepsOfReader + StepsOfMain
    BY DEF StepsLeft
  <2>5. /\ unread \in Nat /\ busy \in Nat /\ idle \in Nat /\ recv \in Nat /\ left \in Nat
    BY <2>2, <2>3
  <2> HIDE DEF unread, busy, idle, recv, left
  <2>6. QED
    BY <2>3, <2>4, <2>5
<1>m. IInv' => (StepsLeft \in Nat)'
  BY <1>n, PTL
<1>1. Init => StepsLeft <= MostSteps
  <2> SUFFICES ASSUME Init PROVE StepsLeft <= MostSteps
    OBVIOUS
  <2>1. /\ index = 0 /\ Len(raw) = 0 /\ Len(processed) = 0
        /\ StepsOfReader = 2 /\ StepsOfMain = 5
    BY DEF Init, StepsOfReader, StepsOfMain
  <2>2. Workers("busy") = {} /\ Workers("recv") = {} /\ Workers("idle") = Worker /\ pending = {}
    BY DEF Init, Workers
  <2>3. /\ Cardinality(Workers("busy")) = 0 /\ Cardinality(Workers("recv")) = 0
        /\ Cardinality(Workers("idle")) = Cardinality(Worker) /\ Cardinality(pending) = 0
        /\ Cardinality(Worker) \in Nat
    <3>1. Cardinality({}) = 0 /\ Cardinality(Worker) \in Nat
      BY PipelineAssumption, FS_EmptySet, FS_CardinalityType
    <3>2. QED
      BY <2>2, <3>1
  <2>4. QED
    BY <2>1, <2>3, PipelineAssumption DEF StepsLeft, MostSteps
<1>2. IInv /\ IInv' /\ StepsLeft <= MostSteps /\ [Next]_vars => (StepsLeft <= MostSteps)'
  <2> SUFFICES ASSUME IInv, IInv', StepsLeft <= MostSteps, [Next]_vars
               PROVE  StepsLeft' <= MostSteps
    BY DEF MostSteps
  <2>1. StepsLeft \in Nat /\ StepsLeft' \in Nat
    BY <1>n, <1>m
  <2>2. CASE Next
    BY <2>1, <2>2, <1>a, StepsDecrease DEF IInv
  <2>3. CASE UNCHANGED vars
    <3>1. StepsLeft' = StepsLeft
      BY <2>3 DEF vars, StepsLeft, StepsOfReader, StepsOfMain, Workers
    <3>2. QED
      BY <3>1
  <2>4. QED
    BY <2>2, <2>3
<1>3. IInv /\ StepsLeft <= MostSteps => StepsLeft \in 0..MostSteps
  BY <1>a, <1>n
<1>4. QED
  BY Invariance, <1>1, <1>2, <1>3, PTL DEF SafeSpec
=============================================================================
