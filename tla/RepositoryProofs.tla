--------------------------- MODULE RepositoryProofs ---------------------------
(***************************************************************************)
(* The safety of the repository for every set of backups, sources, content *)
(* IDs and encodings, and any number of faults.                            *)
(***************************************************************************)
EXTENDS Repository, FiniteSetTheorems, TLAPS

(* What the descriptors d say of their chunks: the bytes are there; and in *)
(* the recorded encoding.                                                  *)
Held(d) == \A k \in DOMAIN d : Intact(d[k].cid)
Recorded(d) ==
    \A k \in DOMAIN d :
        Intact(d[k].cid) /\ chunks[d[k].cid].encoding = d[k].encoding

(* No file is damaged, in memory or on the disk.                           *)
Sound ==
    \A c \in Cid :
        /\ chunks[c] # Missing => chunks[c].state = "intact"
        /\ durable[c] # Missing => durable[c].state = "intact"

(* A job's manifest describes a beginning of its source, and all of it     *)
(* once it is staged.                                                      *)
Progress ==
    \A j \in Job :
        /\ Len(desc[j]) <= Len(Source[j])
        /\ \A k \in 1 .. Len(desc[j]) : desc[j][k].cid = Source[j][k]
        /\ pc[j] \in {"staged", "indexed"} => Len(desc[j]) = Len(Source[j])

(* A row is written once, by its job, and describes the whole source.      *)
Rows ==
    \A j \in Job :
        /\ pc[j] \in {"start", "write", "hung", "staged"} => j \notin Listed
        /\ pc[j] = "indexed" => j \in Listed
        /\ j \in Listed =>
            /\ Len(index[j]) = Len(Source[j])
            /\ \A k \in 1 .. Len(index[j]) : index[j][k].cid = Source[j][k]

Control == TypeOK /\ LockHeldByWriter /\ RowBeforeCopy /\ Progress /\ Rows

Counted == \A c \in Cid : IsFiniteSet(References(c)) /\ refs[c] = Cardinality(References(c))

(* How much of the descriptors may be relied on depends on the faults; a   *)
(* manifest in memory does not outlive a power loss, so that it never      *)
(* names a chunk that was lost in one.                                     *)
Data ==
    /\ "rot" \notin faults => Sound
    /\ faults \subseteq {"power"} => \A j \in Job : Recorded(desc[j])
    /\ faults \subseteq {"read"} => \A j \in Job : Held(desc[j])
    /\ faults = {} => \A j \in Listed : Recorded(index[j])
    /\ faults \subseteq {"read"} => \A j \in Listed : Held(index[j])

IInv == Control /\ Counted /\ Data

-----------------------------------------------------------------------------
(* Facts about the constants, sequences and reference counts *)

LEMMA Constants ==
    /\ \A j \in Job : Source[j] \in Seq(Cid) /\ Requested[j] \in Encoding
    /\ \A f \in File : f # Missing
    /\ \A d \in Seq(Descriptor) : d # Missing
BY RepositoryAssumption DEF Descriptor

LEMMA Appended ==
    ASSUME NEW d \in Seq(Descriptor), NEW e \in Descriptor
    PROVE  /\ Append(d, e) \in Seq(Descriptor)
           /\ Len(Append(d, e)) = Len(d) + 1
           /\ DOMAIN Append(d, e) = 1 .. Len(d) + 1
           /\ DOMAIN d = 1 .. Len(d)
           /\ \A k \in 1 .. Len(d) : Append(d, e)[k] = d[k]
           /\ Append(d, e)[Len(d) + 1] = e
OBVIOUS

LEMMA NothingRecorded == Recorded(<<>>) /\ Held(<<>>)
BY DEF Recorded, Held

(* A new row adds as many references as it has descriptors.                *)
LEMMA RowCounted ==
    ASSUME Control, Counted, NEW j \in Job, CommitIndex(j)
    PROVE  Counted'
<1> DEFINE New(c) == {k \in DOMAIN desc[j] : desc[j][k].cid = c}
<1>1. /\ index' = [index EXCEPT ![j] = desc[j]]
      /\ refs' = [c \in Cid |-> refs[c] + Occurrences(c, desc[j])]
      /\ desc[j] \in Seq(Descriptor) /\ desc[j] # Missing
      /\ j \notin Listed
      /\ DOMAIN index = Job
  BY Constants DEF CommitIndex, Control, Rows, TypeOK
<1> SUFFICES ASSUME NEW c \in Cid
             PROVE  /\ IsFiniteSet(References(c)')
                    /\ refs'[c] = Cardinality(References(c)')
  BY DEF Counted
<1>2. Listed' = Listed \cup {j} /\ index'[j] = desc[j]
  BY <1>1 DEF Listed
<1>3. \A i \in Listed : i # j /\ index'[i] = index[i]
  BY <1>1 DEF Listed
<1>4. References(c)' = References(c) \cup ({j} \X New(c))
  BY <1>2, <1>3 DEF References
<1>5. References(c) \cap ({j} \X New(c)) = {}
  BY <1>1 DEF References
<1>6. IsFiniteSet(New(c))
  <2>1. New(c) \subseteq 1 .. Len(desc[j]) /\ Len(desc[j]) \in Int
    BY <1>1
  <2> QED
    <3>1. IsFiniteSet(1 .. Len(desc[j]))
      BY <2>1, FS_Interval
    <3> HIDE DEF New
    <3> QED
      BY <2>1, <3>1, FS_Subset
<1>7. IsFiniteSet({j} \X New(c)) /\ Cardinality({j} \X New(c)) = Cardinality(New(c))
  <2>1. IsFiniteSet({j}) /\ Cardinality({j}) = 1
    BY FS_Singleton
  <2>2. Cardinality(New(c)) \in Nat
    BY <1>6, FS_CardinalityType
  <2> QED
    BY <1>6, <2>1, <2>2, FS_Product
<1>8. IsFiniteSet(References(c)) /\ refs[c] = Cardinality(References(c))
  BY DEF Counted
<1>9. /\ IsFiniteSet(References(c)')
      /\ Cardinality(References(c)') = Cardinality(References(c)) + Cardinality(New(c))
  <2>1. Cardinality(References(c)) \in Nat /\ Cardinality(New(c)) \in Nat
    BY <1>6, <1>8, FS_CardinalityType
  <2>2. Cardinality(References(c) \cap ({j} \X New(c))) = 0
    BY <1>5, FS_EmptySet
  <2> DEFINE S == References(c)
             T == {j} \X New(c)
  <2>3. IsFiniteSet(S) /\ IsFiniteSet(T)
    BY <1>7, <1>8
  <2>4. Cardinality(S \cap T) = 0 /\ Cardinality(T) = Cardinality(New(c))
    BY <1>7, <2>2
  <2>5. References(c)' = S \cup T
    BY <1>4
  <2>6. Cardinality(S) \in Nat
    BY <2>1
  <2> HIDE DEF New, S, T
  <2>7. IsFiniteSet(S \cup T) /\ Cardinality(S \cup T) = Cardinality(S) + Cardinality(T) - 0
    BY <2>3, <2>4, FS_Union
  <2>8. Cardinality(S \cup T) = Cardinality(S) + Cardinality(New(c))
    BY <2>1, <2>4, <2>6, <2>7
  <2> QED
    BY <2>5, <2>7, <2>8 DEF S
<1> QED
  BY <1>1, <1>8, <1>9 DEF Occurrences

-----------------------------------------------------------------------------
(* What the actions have in common *)

(* A step that leaves the disk and the index alone, and gives up manifests *)
(* at most.                                                                *)
LEMMA QuietKeeps ==
    ASSUME Data, Counted, UNCHANGED <<chunks, durable, index, refs, faults>>,
           \A j \in Job : desc'[j] = desc[j] \/ desc'[j] = <<>>
    PROVE  Data' /\ Counted'
<1>1. Counted'
  BY DEF Counted, References, Listed
<1>2. \A j \in Job : Recorded(desc[j]) => Recorded(desc[j])'
  BY NothingRecorded DEF Recorded, Intact
<1>3. \A j \in Job : Held(desc[j]) => Held(desc[j])'
  BY NothingRecorded DEF Held, Intact
<1>4. \A j \in Job : Recorded(index[j]) => Recorded(index[j])'
  BY DEF Recorded, Intact
<1>5. \A j \in Job : Held(index[j]) => Held(index[j])'
  BY DEF Held, Intact
<1>6. Sound' <=> Sound
  BY DEF Sound
<1>7. Listed' = Listed /\ Listed \subseteq Job
  BY DEF Listed
<1> QED
  BY <1>1, <1>2, <1>3, <1>4, <1>5, <1>6, <1>7 DEF Data

(* The next descriptor.                                                    *)
LEMMA NextDescriptor ==
    ASSUME Control, NEW j \in Job, Writes(j), NEW e \in Encoding, AddChunk(j, e)
    PROVE  LET d == [cid |-> Next_cid(j), encoding |-> e]
           IN  /\ Next_cid(j) \in Cid
               /\ d \in Descriptor
               /\ desc \in [Job -> Seq(Descriptor)]
               /\ desc' = [desc EXCEPT ![j] = Append(desc[j], d)]
               /\ Next_cid(j) = Source[j][Len(desc[j]) + 1]
               /\ Len(desc[j]) + 1 <= Len(Source[j])
<1>1. desc \in [Job -> Seq(Descriptor)] /\ Source[j] \in Seq(Cid) /\ Len(desc[j]) < Len(Source[j])
  BY Constants DEF Control, TypeOK, Writes
<1>2. Len(desc[j]) \in Nat /\ Len(desc[j]) + 1 \in 1 .. Len(Source[j])
  BY <1>1
<1>3. Next_cid(j) \in Cid
  BY <1>1, <1>2 DEF Next_cid
<1>4. Next_cid(j) = Source[j][Len(desc[j]) + 1] /\ Len(desc[j]) + 1 <= Len(Source[j])
  BY <1>2 DEF Next_cid
<1>5. [cid |-> Next_cid(j), encoding |-> e] \in Descriptor
  BY <1>3 DEF Descriptor
<1> QED
  BY <1>1, <1>3, <1>4, <1>5 DEF AddChunk

LEMMA AppendControl ==
    ASSUME Control, NEW j \in Job, Writes(j), NEW e \in Encoding, AddChunk(j, e),
           UNCHANGED <<durable, index, refs, copies, lock, pc>>,
           chunks' \in [Cid -> File \cup {Missing}],
           faults' \in SUBSET FaultKind
    PROVE  Control'
<1> DEFINE d == [cid |-> Next_cid(j), encoding |-> e]
<1>1. /\ d \in Descriptor /\ d.cid = Source[j][Len(desc[j]) + 1]
      /\ desc \in [Job -> Seq(Descriptor)]
      /\ desc' = [desc EXCEPT ![j] = Append(desc[j], d)]
      /\ Len(desc[j]) + 1 <= Len(Source[j])
      /\ pc[j] = "write"
  BY NextDescriptor DEF Writes
<1> HIDE DEF d
<1>2. /\ Append(desc[j], d) \in Seq(Descriptor)
      /\ Len(Append(desc[j], d)) = Len(desc[j]) + 1
      /\ \A k \in 1 .. Len(desc[j]) : Append(desc[j], d)[k] = desc[j][k]
      /\ Append(desc[j], d)[Len(desc[j]) + 1] = d
  BY <1>1, Appended
<1>3. desc' \in [Job -> Seq(Descriptor)]
  BY <1>1, <1>2
<1>4. TypeOK'
  BY <1>3 DEF Control, TypeOK
<1>5. Progress'
  <2> SUFFICES ASSUME NEW i \in Job
               PROVE  /\ Len(desc'[i]) <= Len(Source[i])
                      /\ \A k \in 1 .. Len(desc'[i]) : desc'[i][k].cid = Source[i][k]
                      /\ pc[i] \in {"staged", "indexed"} => Len(desc'[i]) = Len(Source[i])
    BY DEF Progress
  <2>1. CASE i # j
    BY <1>1, <2>1 DEF Control, Progress
  <2>2. CASE i = j
    <3>1. desc'[j] = Append(desc[j], d) /\ Len(desc[j]) \in Nat
      BY <1>1
    <3>2. \A k \in 1 .. Len(desc[j]) : desc[j][k].cid = Source[j][k]
      BY DEF Control, Progress
    <3>3. \A k \in 1 .. Len(desc'[j]) : desc'[j][k].cid = Source[j][k]
      BY <1>1, <1>2, <3>1, <3>2
    <3> QED
      BY <1>1, <1>2, <2>2, <3>1, <3>3
  <2> QED
    BY <2>1, <2>2
<1> QED
  BY <1>4, <1>5 DEF Control, LockHeldByWriter, RowBeforeCopy, Listed, Rows

(* The new descriptor describes the file as it is now, and what the others *)
(* rely on is still there.                                                 *)
LEMMA AppendData ==
    ASSUME Control, Counted, Data, NEW j \in Job, Writes(j), NEW e \in Encoding, AddChunk(j, e),
           NEW x \in Cid, x = Next_cid(j),
           UNCHANGED <<index, refs>>,
           faults \subseteq faults',
           "rot" \notin faults' =>
              /\ Sound'
              /\ Intact(x)' /\ chunks'[x].encoding = e,
           faults' \subseteq {"read"} => \A c \in Cid : Intact(c) => Intact(c)',
           "read" \notin faults' /\ "rot" \notin faults' =>
              \A c \in Cid : Intact(c) => chunks'[c] = chunks[c]
    PROVE  Data' /\ Counted'
<1> DEFINE d == [cid |-> Next_cid(j), encoding |-> e]
<1>1. /\ d \in Descriptor
      /\ desc \in [Job -> Seq(Descriptor)]
      /\ desc' = [desc EXCEPT ![j] = Append(desc[j], d)]
      /\ d.cid = x /\ d.encoding = e
  BY NextDescriptor
<1> HIDE DEF d
<1>2. ASSUME NEW i \in Job, NEW k \in DOMAIN desc'[i]
      PROVE  \/ k \in DOMAIN desc[i] /\ desc'[i][k] = desc[i][k]
             \/ desc'[i][k] = d
  <2>1. CASE i # j
    BY <1>1, <2>1
  <2>2. CASE i = j
    <3>1. desc[j] \in Seq(Descriptor) /\ desc'[j] = Append(desc[j], d)
      BY <1>1
    <3>2. Len(desc[j]) \in Nat
      BY <3>1
    <3> QED
      BY <1>1, <2>2, <3>1, <3>2, Appended
  <2> QED
    BY <2>1, <2>2
<1>3. ASSUME NEW i \in Job, NEW k \in DOMAIN desc[i] PROVE desc[i][k].cid \in Cid
  <2>1. desc[i] \in Seq(Descriptor) /\ desc[i][k] \in Descriptor
    BY <1>1
  <2> QED
    BY <2>1 DEF Descriptor
<1>4. ASSUME NEW i \in Listed, NEW k \in DOMAIN index[i] PROVE index[i][k].cid \in Cid
  <2>1. index[i] \in Seq(Descriptor)
    BY DEF Control, TypeOK, Listed
  <2>2. index[i][k] \in Descriptor
    BY <2>1
  <2> QED
    BY <2>2 DEF Descriptor
<1>5. Listed' = Listed
  BY DEF Listed
<1>6. Counted'
  BY DEF Counted, References, Listed
<1>7. ASSUME faults' \subseteq {"power"} PROVE \A i \in Job : Recorded(desc[i])'
  <2>1. /\ \A i \in Job : Recorded(desc[i])
        /\ Intact(x)' /\ chunks'[x].encoding = e
        /\ \A c \in Cid : Intact(c) => chunks'[c] = chunks[c]
    BY <1>7 DEF Data
  <2>2. ASSUME NEW i \in Job, NEW k \in DOMAIN desc'[i]
        PROVE  Intact(desc[i][k].cid)' /\ chunks'[desc'[i][k].cid].encoding = desc'[i][k].encoding
    <3>1. CASE k \in DOMAIN desc[i] /\ desc'[i][k] = desc[i][k]
      <4>1. Intact(desc[i][k].cid) /\ chunks[desc[i][k].cid].encoding = desc[i][k].encoding
        BY <2>1, <3>1 DEF Recorded
      <4> QED
        BY <1>3, <2>1, <3>1, <4>1 DEF Intact
    <3>2. CASE desc'[i][k] = d
      BY <1>1, <2>1, <3>2 DEF Intact
    <3> QED
      BY <1>2, <3>1, <3>2
  <2> QED
    BY <2>2 DEF Recorded, Intact
<1>8. ASSUME faults' \subseteq {"read"} PROVE \A i \in Job : Held(desc[i])'
  <2>1. /\ \A i \in Job : Held(desc[i])
        /\ Intact(x)'
        /\ \A c \in Cid : Intact(c) => Intact(c)'
    BY <1>8 DEF Data
  <2>2. ASSUME NEW i \in Job, NEW k \in DOMAIN desc'[i] PROVE Intact(desc[i][k].cid)'
    <3>1. CASE k \in DOMAIN desc[i] /\ desc'[i][k] = desc[i][k]
      <4>1. Intact(desc[i][k].cid)
        BY <2>1, <3>1 DEF Held
      <4> QED
        BY <1>3, <2>1, <3>1, <4>1 DEF Intact
    <3>2. CASE desc'[i][k] = d
      BY <1>1, <2>1, <3>2 DEF Intact
    <3> QED
      BY <1>2, <3>1, <3>2
  <2> QED
    BY <2>2 DEF Held, Intact
<1>9. ASSUME faults' = {} PROVE \A i \in Listed : Recorded(index[i])'
  <2>1. /\ \A i \in Listed : Recorded(index[i])
        /\ \A c \in Cid : Intact(c) => chunks'[c] = chunks[c]
    BY <1>9 DEF Data
  <2> QED
    BY <1>4, <2>1 DEF Recorded, Intact
<1>10. ASSUME faults' \subseteq {"read"} PROVE \A i \in Listed : Held(index[i])'
  <2>1. /\ \A i \in Listed : Held(index[i])
        /\ \A c \in Cid : Intact(c) => Intact(c)'
    BY <1>10 DEF Data
  <2> QED
    BY <1>4, <2>1 DEF Held, Intact
<1> QED
  BY <1>5, <1>6, <1>7, <1>8, <1>9, <1>10 DEF Data

-----------------------------------------------------------------------------
(* Initially *)

LEMMA InitIInv == Init => IInv
<1> SUFFICES ASSUME Init PROVE IInv
  OBVIOUS
<1>1. TypeOK
  <2>1. \A j \in Job : desc[j] \in Seq(Descriptor)
    BY DEF Init
  <2> QED
    BY <2>1 DEF Init, TypeOK, PC, FaultKind
<1>2. Listed = {}
  BY DEF Init, Listed
<1>3. LockHeldByWriter /\ RowBeforeCopy
  BY <1>2 DEF Init, LockHeldByWriter, RowBeforeCopy, Running
<1>4. Progress
  <2> SUFFICES ASSUME NEW j \in Job
               PROVE  /\ Len(desc[j]) <= Len(Source[j])
                      /\ \A k \in 1 .. Len(desc[j]) : desc[j][k].cid = Source[j][k]
                      /\ pc[j] \notin {"staged", "indexed"}
    BY DEF Progress
  <2>1. desc[j] = <<>> /\ pc[j] = "start" /\ Source[j] \in Seq(Cid)
    BY Constants DEF Init
  <2> QED
    BY <2>1
<1>5. Rows
  BY <1>2 DEF Init, Rows
<1>6. Counted
  <2> SUFFICES ASSUME NEW c \in Cid
               PROVE  IsFiniteSet(References(c)) /\ refs[c] = Cardinality(References(c))
    BY DEF Counted
  <2>1. References(c) = {}
    BY <1>2 DEF References
  <2> QED
    BY <2>1, FS_EmptySet DEF Init
<1>7. Data
  <2>1. Sound /\ \A j \in Job : desc[j] = <<>>
    BY DEF Init, Sound
  <2> QED
    BY <1>2, <2>1, NothingRecorded DEF Data
<1> QED
  BY <1>1, <1>3, <1>4, <1>5, <1>6, <1>7 DEF IInv, Control

-----------------------------------------------------------------------------
(* Steps that do not write *)

(* The manifest of a job that stops is empty, and so keeps every promise.  *)
LEMMA ReturnControl ==
    ASSUME Control, NEW j \in Job, pc[j] \in Running,
           NEW result \in {"done", "failed"}, result = "done" => pc[j] = "indexed",
           Return(j, result), UNCHANGED <<chunks, durable, index, refs, faults>>,
           \/ UNCHANGED copies
           \/ pc[j] = "indexed" /\ copies' = copies \cup {j}
    PROVE  Control'
<1>1. /\ pc' = [pc EXCEPT ![j] = result]
      /\ desc' = [desc EXCEPT ![j] = <<>>]
      /\ lock' = lock \ {j}
  BY DEF Return
<1>2. TypeOK'
  <2>1. <<>> \in Seq(Descriptor)
    OBVIOUS
  <2> QED
    BY <1>1, <2>1 DEF Control, TypeOK, PC
<1>3. Listed' = Listed
  BY DEF Listed
<1>4. LockHeldByWriter'
  BY <1>1 DEF Control, TypeOK, LockHeldByWriter, Running
<1>5. RowBeforeCopy'
  BY <1>1, <1>3 DEF Control, TypeOK, RowBeforeCopy, Rows
<1>6. Progress'
  <2>1. \A i \in Job :
          \/ desc'[i] = desc[i] /\ pc'[i] = pc[i]
          \/ desc'[i] = <<>> /\ pc'[i] = result
    BY <1>1 DEF Control, TypeOK
  <2>2. \A i \in Job : Len(Source[i]) \in Nat
    BY Constants
  <2> QED
    BY <2>1, <2>2 DEF Control, Progress
<1>7. Rows'
  BY <1>1, <1>3 DEF Control, TypeOK, Rows
<1> QED
  BY <1>2, <1>4, <1>5, <1>6, <1>7 DEF Control

LEMMA RejectedIInv == ASSUME IInv, NEW j \in Job, Rejected(j) PROVE IInv'
<1>1. Control'
  <2>1. /\ pc[j] = "start" /\ pc' = [pc EXCEPT ![j] = "failed"]
        /\ UNCHANGED <<chunks, durable, index, refs, copies, lock, desc, faults>>
    BY DEF Rejected, diskVars, indexVars
  <2>2. TypeOK' /\ LockHeldByWriter' /\ RowBeforeCopy'
    BY <2>1 DEF IInv, Control, TypeOK, PC, Running, LockHeldByWriter, RowBeforeCopy, Listed
  <2>3. Progress' /\ Rows'
    BY <2>1 DEF IInv, Control, TypeOK, Progress, Rows, Listed
  <2> QED
    BY <2>2, <2>3 DEF Control
<1>2. Data' /\ Counted'
  BY QuietKeeps DEF IInv, Rejected, diskVars, indexVars
<1> QED
  BY <1>1, <1>2 DEF IInv

LEMMA BeginIInv == ASSUME IInv, NEW j \in Job, Begin(j) PROVE IInv'
<1>1. /\ pc[j] = "start" /\ pc' = [pc EXCEPT ![j] = "write"]
      /\ lock = {} /\ lock' = {j}
      /\ UNCHANGED <<chunks, durable, index, refs, copies, desc, faults>>
  BY DEF Begin, diskVars, indexVars
<1>2. TypeOK' /\ LockHeldByWriter' /\ RowBeforeCopy'
  BY <1>1 DEF IInv, Control, TypeOK, PC, Running, LockHeldByWriter, RowBeforeCopy, Listed
<1>3. Progress' /\ Rows'
  BY <1>1 DEF IInv, Control, TypeOK, Progress, Rows, Listed
<1>4. Data' /\ Counted'
  BY <1>1, QuietKeeps DEF IInv
<1> QED
  BY <1>2, <1>3, <1>4 DEF IInv, Control

LEMMA RefusedIInv == ASSUME IInv, NEW j \in Job, Refused(j) PROVE IInv'
<1>1. Control'
  <2>1. /\ pc[j] = "start" /\ pc' = [pc EXCEPT ![j] = "locked"]
        /\ UNCHANGED <<chunks, durable, index, refs, copies, lock, desc, faults>>
    BY DEF Refused, diskVars, indexVars
  <2>2. TypeOK' /\ LockHeldByWriter' /\ RowBeforeCopy'
    BY <2>1 DEF IInv, Control, TypeOK, PC, Running, LockHeldByWriter, RowBeforeCopy, Listed
  <2>3. Progress' /\ Rows'
    BY <2>1 DEF IInv, Control, TypeOK, Progress, Rows, Listed
  <2> QED
    BY <2>2, <2>3 DEF Control
<1>2. Data' /\ Counted'
  BY QuietKeeps DEF IInv, Refused, diskVars, indexVars
<1> QED
  BY <1>1, <1>2 DEF IInv

LEMMA AbortIInv == ASSUME IInv, NEW j \in Job, Abort(j) PROVE IInv'
<1>1. Control'
  BY ReturnControl DEF IInv, Abort, Running, diskVars, indexVars
<1>2. Data' /\ Counted'
  BY QuietKeeps DEF IInv, Control, TypeOK, Abort, Return, diskVars, indexVars
<1> QED
  BY <1>1, <1>2 DEF IInv

LEMMA HangIInv == ASSUME IInv, NEW j \in Job, Hang(j) PROVE IInv'
<1>1. /\ pc[j] = "write" /\ pc' = [pc EXCEPT ![j] = "hung"]
      /\ UNCHANGED <<chunks, durable, index, refs, copies, lock, desc, faults>>
  BY DEF Hang, diskVars, indexVars
<1>2. TypeOK' /\ LockHeldByWriter' /\ RowBeforeCopy'
  BY <1>1 DEF IInv, Control, TypeOK, PC, Running, LockHeldByWriter, RowBeforeCopy, Listed
<1>3. Progress' /\ Rows'
  BY <1>1 DEF IInv, Control, TypeOK, Progress, Rows, Listed
<1>4. Data' /\ Counted'
  BY <1>1, QuietKeeps DEF IInv
<1> QED
  BY <1>2, <1>3, <1>4 DEF IInv, Control

LEMMA DropIInv == ASSUME IInv, NEW j \in Job, Drop(j) PROVE IInv'
<1>1. Control'
  BY ReturnControl DEF IInv, Drop, Running, diskVars, indexVars
<1>2. Data' /\ Counted'
  BY QuietKeeps DEF IInv, Control, TypeOK, Drop, Return, diskVars, indexVars
<1> QED
  BY <1>1, <1>2 DEF IInv

LEMMA StageManifestIInv == ASSUME IInv, NEW j \in Job, StageManifest(j) PROVE IInv'
<1>1. /\ pc[j] = "write" /\ pc' = [pc EXCEPT ![j] = "staged"]
      /\ Len(desc[j]) = Len(Source[j])
      /\ UNCHANGED <<chunks, durable, index, refs, copies, lock, desc, faults>>
  BY DEF StageManifest, diskVars, indexVars
<1>2. TypeOK' /\ LockHeldByWriter' /\ RowBeforeCopy'
  BY <1>1 DEF IInv, Control, TypeOK, PC, Running, LockHeldByWriter, RowBeforeCopy, Listed
<1>3. Progress' /\ Rows'
  BY <1>1 DEF IInv, Control, TypeOK, Progress, Rows, Listed
<1>4. Data' /\ Counted'
  BY <1>1, QuietKeeps DEF IInv
<1> QED
  BY <1>2, <1>3, <1>4 DEF IInv, Control

LEMMA CommitIndexFailsIInv == ASSUME IInv, NEW j \in Job, CommitIndexFails(j) PROVE IInv'
<1>1. Control'
  BY ReturnControl DEF IInv, CommitIndexFails, Running, diskVars, indexVars
<1>2. Data' /\ Counted'
  BY QuietKeeps DEF IInv, Control, TypeOK, CommitIndexFails, Return, diskVars, indexVars
<1> QED
  BY <1>1, <1>2 DEF IInv

LEMMA PublishCopyIInv == ASSUME IInv, NEW j \in Job, PublishCopy(j) PROVE IInv'
<1>1. Control'
  BY ReturnControl DEF IInv, PublishCopy, Running, diskVars, indexVars
<1>2. Data' /\ Counted'
  BY QuietKeeps DEF IInv, Control, TypeOK, PublishCopy, Return, diskVars, indexVars
<1> QED
  BY <1>1, <1>2 DEF IInv

LEMMA PublishCopyFailsIInv == ASSUME IInv, NEW j \in Job, PublishCopyFails(j) PROVE IInv'
<1>1. Control'
  BY ReturnControl DEF IInv, PublishCopyFails, Running, diskVars, indexVars
<1>2. Data' /\ Counted'
  BY QuietKeeps DEF IInv, Control, TypeOK, PublishCopyFails, Return, diskVars, indexVars
<1> QED
  BY <1>1, <1>2 DEF IInv

-----------------------------------------------------------------------------
(* Steps that write *)

LEMMA ReuseKeeps ==
    ASSUME IInv, NEW j \in Job, Writes(j), Decodes(Next_cid(j)),
           AddChunk(j, chunks[Next_cid(j)].encoding),
           UNCHANGED <<chunks, durable, index, refs, copies, lock, pc>>,
           faults \subseteq faults', faults' \in SUBSET FaultKind
    PROVE  IInv'
<1> DEFINE e == chunks[Next_cid(j)].encoding
<1>1. Next_cid(j) \in Cid
  <2>1. Len(desc[j]) \in Nat /\ Len(desc[j]) < Len(Source[j]) /\ Source[j] \in Seq(Cid)
    BY Constants DEF IInv, Control, TypeOK, Writes
  <2> QED
    BY <2>1 DEF Next_cid
<1>2. chunks[Next_cid(j)] \in File /\ e \in Encoding
  BY <1>1 DEF IInv, Control, TypeOK, Decodes, File
<1> DEFINE x == Next_cid(j)
<1>3. x \in Cid /\ x = Next_cid(j) /\ e = chunks[x].encoding /\ chunks[x] # Missing
  BY <1>1 DEF Decodes
<1>4. Control'
  BY <1>2, AppendControl DEF IInv, Control, TypeOK
<1>5. PICK y \in Cid : y = Next_cid(j)
  BY <1>1
<1>6. "rot" \notin faults' => Sound' /\ Intact(y)' /\ chunks'[y].encoding = e
  BY <1>5, <1>3 DEF IInv, Data, Sound, Intact
<1>7. \A c \in Cid : Intact(c) => Intact(c)' /\ chunks'[c] = chunks[c]
  BY DEF Intact
<1> HIDE DEF e, x
<1>8. Data' /\ Counted'
  BY <1>2, <1>5, <1>6, <1>7, AppendData DEF IInv, e
<1> QED
  BY <1>4, <1>8 DEF IInv

LEMMA PublishKeeps ==
    ASSUME IInv, NEW j \in Job, Writes(j), Publish(j),
           faults \subseteq faults', faults' \in SUBSET FaultKind,
           "read" \notin faults' => ~Decodes(Next_cid(j))
    PROVE  IInv'
<1> DEFINE e == Requested[j]
           f == [encoding |-> e, state |-> "intact"]
<1>1. Next_cid(j) \in Cid
  <2>1. Len(desc[j]) \in Nat /\ Len(desc[j]) < Len(Source[j]) /\ Source[j] \in Seq(Cid)
    BY Constants DEF IInv, Control, TypeOK, Writes
  <2> QED
    BY <2>1 DEF Next_cid
<1>2. PICK y \in Cid : y = Next_cid(j)
  BY <1>1
<1>3. e \in Encoding /\ f \in File /\ f # Missing
  BY Constants DEF File, FileState
<1>4. /\ chunks' = [chunks EXCEPT ![y] = f] /\ AddChunk(j, e)
      /\ chunks \in [Cid -> File \cup {Missing}]
      /\ f.state = "intact" /\ f.encoding = e
      /\ UNCHANGED <<durable, index, refs, copies, lock, pc>>
  BY <1>2 DEF Publish, indexVars, IInv, Control, TypeOK
<1> HIDE DEF e, f
<1>5. chunks' \in [Cid -> File \cup {Missing}]
  BY <1>3, <1>4
<1>6. Control'
  BY <1>3, <1>4, <1>5, AppendControl DEF IInv
<1>7. "rot" \notin faults' => Sound' /\ Intact(y)' /\ chunks'[y].encoding = e
  BY <1>3, <1>4 DEF IInv, Data, Sound, Intact
<1>8. \A c \in Cid : Intact(c) => Intact(c)'
  BY <1>3, <1>4 DEF Intact
<1>9. "read" \notin faults' => \A c \in Cid : Intact(c) => chunks'[c] = chunks[c]
  BY <1>2, <1>4 DEF Intact, Decodes
<1>10. Data' /\ Counted'
  BY <1>2, <1>3, <1>4, <1>7, <1>8, <1>9, AppendData DEF IInv
<1> QED
  BY <1>6, <1>10 DEF IInv

LEMMA FaultHappens ==
    ASSUME IInv, NEW k \in FaultKind, Happens(k)
    PROVE  faults' = faults \cup {k} /\ faults' \in SUBSET FaultKind
BY DEF Happens, IInv, Control, TypeOK

LEMMA WriteChunkIInv ==
    ASSUME IInv, NEW j \in Job,
           Reuse(j) \/ Store(j) \/ StoreAfterReadError(j) \/ ReuseAfterReadError(j)
    PROVE  IInv'
<1>1. faults \in SUBSET FaultKind /\ "read" \in FaultKind
  BY DEF IInv, Control, TypeOK, FaultKind
<1>2. CASE Reuse(j)
  BY <1>1, <1>2, ReuseKeeps DEF Reuse, diskVars, indexVars
<1>3. CASE Store(j)
  BY <1>1, <1>3, PublishKeeps DEF Store
<1>4. CASE StoreAfterReadError(j)
  <2>1. faults' = faults \cup {"read"} /\ faults' \in SUBSET FaultKind
    BY <1>1, <1>4, FaultHappens DEF StoreAfterReadError
  <2> QED
    BY <1>4, <2>1, PublishKeeps DEF StoreAfterReadError
<1>5. CASE ReuseAfterReadError(j)
  <2>1. faults' = faults \cup {"read"} /\ faults' \in SUBSET FaultKind
    BY <1>1, <1>5, FaultHappens DEF ReuseAfterReadError
  <2> QED
    BY <1>5, <2>1, ReuseKeeps DEF ReuseAfterReadError, diskVars, indexVars
<1> QED
  BY <1>2, <1>3, <1>4, <1>5

(* What a new row promises is what its job's manifest promised.            *)
LEMMA CommitIndexIInv == ASSUME IInv, NEW j \in Job, CommitIndex(j) PROVE IInv'
<1>1. /\ pc[j] = "staged" /\ pc' = [pc EXCEPT ![j] = "indexed"]
      /\ index' = [index EXCEPT ![j] = desc[j]]
      /\ refs' = [c \in Cid |-> refs[c] + Occurrences(c, desc[j])]
      /\ UNCHANGED <<chunks, durable, copies, lock, desc, faults>>
      /\ TypeOK
      /\ desc[j] \in Seq(Descriptor) /\ desc[j] # Missing
  BY Constants DEF CommitIndex, diskVars, IInv, Control, TypeOK
<1>2. Listed' = Listed \cup {j} /\ \A i \in Job : i # j => index'[i] = index[i]
  BY <1>1 DEF Listed, TypeOK
<1>3. index'[j] = desc[j]
  BY <1>1 DEF TypeOK
<1>4. TypeOK'
  <2>1. ASSUME NEW c \in Cid PROVE Occurrences(c, desc[j]) \in Nat
    <3> DEFINE S == {k \in DOMAIN desc[j] : desc[j][k].cid = c}
    <3>1. S \subseteq 1 .. Len(desc[j]) /\ Len(desc[j]) \in Int
      BY <1>1
    <3>2. IsFiniteSet(1 .. Len(desc[j]))
      BY <3>1, FS_Interval
    <3> HIDE DEF S
    <3>3. Cardinality(S) \in Nat
      BY <3>1, <3>2, FS_Subset, FS_CardinalityType
    <3> QED
      BY <3>3 DEF S, Occurrences
  <2>2. refs' \in [Cid -> Nat]
    BY <1>1, <2>1 DEF TypeOK
  <2>3. index' \in [Job -> Seq(Descriptor) \cup {Missing}]
    BY <1>1 DEF TypeOK
  <2> QED
    BY <1>1, <2>2, <2>3 DEF TypeOK, PC, Running
<1>5. LockHeldByWriter' /\ RowBeforeCopy'
  BY <1>1, <1>2 DEF IInv, Control, TypeOK, Running, LockHeldByWriter, RowBeforeCopy
<1>6. Progress'
  BY <1>1 DEF IInv, Control, TypeOK, Progress
<1>7. Rows'
  <2>1. Rows /\ Progress
    BY DEF IInv, Control
  <2> SUFFICES ASSUME NEW i \in Job
               PROVE  /\ pc'[i] \in {"start", "write", "hung", "staged"} => i \notin Listed'
                      /\ pc'[i] = "indexed" => i \in Listed'
                      /\ i \in Listed' =>
                          /\ Len(index'[i]) = Len(Source[i])
                          /\ \A k \in 1 .. Len(index'[i]) : index'[i][k].cid = Source[i][k]
    BY DEF Rows
  <2>2. CASE i = j
    BY <1>1, <1>2, <1>3, <2>1, <2>2 DEF Progress, TypeOK
  <2>3. CASE i # j
    BY <1>1, <1>2, <2>1, <2>3 DEF Rows, TypeOK
  <2> QED
    BY <2>2, <2>3
<1>8. Counted'
  BY RowCounted DEF IInv
<1>9. Data'
  <2>1. \A i \in Job : (Recorded(desc[i])' <=> Recorded(desc[i])) /\ (Held(desc[i])' <=> Held(desc[i]))
    BY <1>1 DEF Recorded, Held, Intact
  <2>2. \A i \in Listed \ {j} :
          (Recorded(index[i])' <=> Recorded(index[i])) /\ (Held(index[i])' <=> Held(index[i]))
    BY <1>1, <1>2 DEF Recorded, Held, Intact, Listed
  <2>3. (Recorded(index[j])' <=> Recorded(desc[j])) /\ (Held(index[j])' <=> Held(desc[j]))
    BY <1>1, <1>3 DEF Recorded, Held, Intact
  <2>4. Sound' <=> Sound
    BY <1>1 DEF Sound
  <2> QED
    BY <1>1, <1>2, <2>1, <2>2, <2>3, <2>4 DEF IInv, Data
<1> QED
  BY <1>4, <1>5, <1>6, <1>7, <1>8, <1>9 DEF IInv, Control

-----------------------------------------------------------------------------
(* Steps of the machine *)

LEMMA DieControl ==
    ASSUME Control, Die, UNCHANGED <<index, refs>>,
           chunks' \in [Cid -> File \cup {Missing}],
           durable' \in [Cid -> File \cup {Missing}],
           copies' \subseteq copies, faults' \in SUBSET FaultKind
    PROVE  Control'
<1>1. /\ pc' = [j \in Job |-> IF pc[j] \in Running THEN "dead" ELSE pc[j]]
      /\ desc' = [j \in Job |-> <<>>]
      /\ lock' = {}
  BY DEF Die
<1>2. TypeOK'
  <2>1. \A j \in Job : <<>> \in Seq(Descriptor)
    OBVIOUS
  <2>2. desc' \in [Job -> Seq(Descriptor)] /\ pc' \in [Job -> PC]
    BY <1>1, <2>1 DEF Control, TypeOK, PC
  <2> QED
    BY <1>1, <2>2 DEF Control, TypeOK
<1>3. Listed' = Listed
  BY DEF Listed
<1>4. LockHeldByWriter' /\ RowBeforeCopy'
  BY <1>1, <1>3 DEF Control, TypeOK, LockHeldByWriter, RowBeforeCopy, Running
<1>5. Progress'
  <2>1. \A j \in Job : desc'[j] = <<>> /\ Len(Source[j]) \in Nat /\ pc'[j] \notin {"staged", "indexed"}
    BY <1>1, Constants DEF Running
  <2> QED
    BY <2>1 DEF Progress
<1>6. Rows'
  BY <1>1, <1>3 DEF Control, TypeOK, Rows, Running
<1> QED
  BY <1>2, <1>4, <1>5, <1>6 DEF Control

LEMMA CrashIInv == ASSUME IInv, Crash PROVE IInv'
<1>1. Control'
  BY DieControl DEF IInv, Control, TypeOK, Crash, diskVars, indexVars
<1>2. Data' /\ Counted'
  BY QuietKeeps DEF IInv, Crash, Die, diskVars, indexVars
<1> QED
  BY <1>1, <1>2 DEF IInv

LEMMA WriteBackIInv == ASSUME IInv, NEW c \in Cid, WriteBack(c) PROVE IInv'
<1>1. /\ durable' = [durable EXCEPT ![c] = chunks[c]]
      /\ UNCHANGED <<chunks, index, refs, copies, lock, pc, desc, faults>>
  BY DEF WriteBack, indexVars
<1>2. Control'
  BY <1>1 DEF IInv, Control, TypeOK, LockHeldByWriter, RowBeforeCopy, Listed, Progress, Rows
<1>3. Sound => Sound'
  BY <1>1 DEF IInv, Control, TypeOK, Sound
<1>4. Counted'
  BY <1>1 DEF IInv, Counted, References, Listed
<1>5. /\ \A j \in Job : (Recorded(desc[j]) => Recorded(desc[j])') /\ (Held(desc[j]) => Held(desc[j])')
      /\ \A j \in Job : (Recorded(index[j]) => Recorded(index[j])') /\ (Held(index[j]) => Held(index[j])')
  BY <1>1 DEF Recorded, Held, Intact
<1>6. Data'
  BY <1>1, <1>3, <1>5 DEF IInv, Data, Listed
<1> QED
  BY <1>2, <1>4, <1>6 DEF IInv

(* Rows may lose their chunks, but nothing promises them any more.         *)
LEMMA PowerLossIInv == ASSUME IInv, PowerLoss PROVE IInv'
<1>1. PICK kept \in SUBSET Cid :
        chunks' = [c \in Cid |-> IF c \in kept THEN chunks[c] ELSE durable[c]]
  BY DEF PowerLoss
<1>2. /\ durable' = chunks' /\ copies' \subseteq copies /\ Die /\ Happens("power")
      /\ UNCHANGED <<index, refs>>
  BY DEF PowerLoss, indexVars, IInv, Control, TypeOK
<1>3. faults' = faults \cup {"power"} /\ faults' \in SUBSET FaultKind
  BY <1>2, FaultHappens DEF FaultKind
<1>4. chunks' \in [Cid -> File \cup {Missing}]
  BY <1>1 DEF IInv, Control, TypeOK
<1>5. Control'
  BY <1>2, <1>3, <1>4, DieControl DEF IInv
<1>6. Counted'
  BY <1>2 DEF IInv, Counted, References, Listed
<1>7. Sound => Sound'
  BY <1>1, <1>2 DEF Sound
<1>8. \A j \in Job : desc'[j] = <<>>
  BY <1>2 DEF Die
<1>9. \A j \in Job : Recorded(desc[j])' /\ Held(desc[j])'
  BY <1>8 DEF Recorded, Held
<1>10. Data'
  BY <1>3, <1>7, <1>9 DEF IInv, Data
<1> QED
  BY <1>5, <1>6, <1>10 DEF IInv

LEMMA RotIInv == ASSUME IInv, NEW c \in Cid, Rot(c) PROVE IInv'
<1>1. PICK s \in {"rotten", "unreadable"} : chunks' = [chunks EXCEPT ![c].state = s]
  BY DEF Rot
<1>2. /\ Intact(c) /\ Happens("rot")
      /\ durable' = [durable EXCEPT ![c] = IF durable[c] = chunks[c] THEN chunks'[c] ELSE durable[c]]
      /\ UNCHANGED <<index, refs, copies, lock, pc, desc>>
  BY DEF Rot, indexVars
<1>3. faults' = faults \cup {"rot"} /\ faults' \in SUBSET FaultKind
  BY <1>2, FaultHappens DEF FaultKind
<1>4. TypeOK /\ chunks[c] \in File
  BY <1>2 DEF IInv, Control, TypeOK, Intact
<1>5. chunks' = [chunks EXCEPT ![c] = [chunks[c] EXCEPT !.state = s]]
  BY <1>1
<1>6. [chunks[c] EXCEPT !.state = s] \in File
  BY <1>4 DEF File, FileState
<1>7. chunks' \in [Cid -> File \cup {Missing}] /\ chunks'[c] \in File
  BY <1>4, <1>5, <1>6 DEF TypeOK
<1>8. durable' \in [Cid -> File \cup {Missing}]
  BY <1>2, <1>4, <1>7 DEF TypeOK
<1>9. Control'
  BY <1>2, <1>3, <1>4, <1>7, <1>8 DEF IInv, Control, TypeOK, LockHeldByWriter, RowBeforeCopy,
     Listed, Progress, Rows
<1>10. Counted'
  BY <1>2 DEF IInv, Counted, References, Listed
<1>11. Data'
  BY <1>3 DEF Data
<1> QED
  BY <1>9, <1>10, <1>11 DEF IInv

LEMMA NextIInv == ASSUME IInv, [Next]_vars PROVE IInv'
<1>1. ASSUME NEW j \in Job, JobStep(j) PROVE IInv'
  BY <1>1, RejectedIInv, BeginIInv, RefusedIInv, WriteChunkIInv, AbortIInv, HangIInv,
     DropIInv, StageManifestIInv, CommitIndexIInv, CommitIndexFailsIInv, PublishCopyIInv,
     PublishCopyFailsIInv DEF JobStep, Advance
<1>2. CASE Environment
  BY <1>2, CrashIInv, PowerLossIInv, WriteBackIInv, RotIInv DEF Environment
<1>3. CASE UNCHANGED vars
  <2>1. Control'
    BY <1>3 DEF vars, IInv, Control, TypeOK, LockHeldByWriter, RowBeforeCopy, Listed, Progress, Rows
  <2>2. Data' /\ Counted'
    BY <1>3, QuietKeeps DEF vars, IInv
  <2> QED
    BY <2>1, <2>2 DEF IInv
<1> QED
  BY <1>1, <1>2, <1>3 DEF Next

-----------------------------------------------------------------------------
(* The theorems *)

(* The invariant holds in every behaviour.                                 *)
THEOREM Invariance == SafeSpec => []IInv
<1>1. Init => IInv
  BY InitIInv
<1>2. IInv /\ [Next]_vars => IInv'
  BY NextIInv
<1> QED
  BY <1>1, <1>2, PTL DEF SafeSpec

(* Types.                                                                  *)
THEOREM TypeCorrect == SafeSpec => []TypeOK
<1>1. IInv => TypeOK
  BY DEF IInv, Control
<1> QED
  BY <1>1, Invariance, PTL

(* One writer at a time, and no lock without one (repository.rs:130).      *)
THEOREM OneWriter == SafeSpec => []LockHeldByWriter
<1>1. IInv => LockHeldByWriter
  BY DEF IInv, Control
<1> QED
  BY <1>1, Invariance, PTL

(* The manifest copy follows the row (repository.rs:242-255).              *)
THEOREM CopyFollowsRow == SafeSpec => []RowBeforeCopy
<1>1. IInv => RowBeforeCopy
  BY DEF IInv, Control
<1> QED
  BY <1>1, Invariance, PTL

(* The reference counts count (repository.rs:248-252).                     *)
THEOREM CountsExact == SafeSpec => []RefsExact
<1>1. IInv => RefsExact
  BY DEF IInv, Counted, RefsExact
<1> QED
  BY <1>1, Invariance, PTL

(* Without faults of the machine, what is listed passes verify             *)
(* (repository.rs:180-220, engine.rs:340-366).                             *)
THEOREM ListedBackupsVerify == SafeSpec => []ListedVerifies
<1>1. IInv => ListedVerifies
  BY DEF IInv, Data, ListedVerifies, Verifies, Recorded
<1> QED
  BY <1>1, Invariance, PTL

(* Read errors lose no byte of a listed backup (repository.rs:186).        *)
THEOREM ListedBackupsPresent == SafeSpec => []ListedPresent
<1>1. ASSUME IInv PROVE ListedPresent
  <2> SUFFICES ASSUME faults \subseteq {"read"}, NEW j \in Listed, NEW k \in DOMAIN Source[j]
               PROVE  Intact(Source[j][k])
    BY DEF ListedPresent, Present
  <2>1. j \in Job /\ index[j] \in Seq(Descriptor) /\ Source[j] \in Seq(Cid)
    BY <1>1, Constants DEF IInv, Control, TypeOK, Listed
  <2>2. k \in 1 .. Len(index[j]) /\ index[j][k].cid = Source[j][k]
    BY <1>1, <2>1 DEF IInv, Control, Rows
  <2>3. k \in DOMAIN index[j]
    BY <2>1, <2>2
  <2> QED
    BY <1>1, <2>2, <2>3 DEF IInv, Data, Held
<1> QED
  BY <1>1, Invariance, PTL

(* What is committed after power losses verifies (repository.rs:242-254).  *)
THEOREM CommitsVerify == SafeSpec => CommitVerifies
<1>1. ASSUME IInv, [Next]_vars
      PROVE  [\A j \in Job : CommitIndex(j) /\ faults \subseteq {"power"} => Verifies(j)']_vars
  <2> SUFFICES ASSUME NEW j \in Job, CommitIndex(j), faults \subseteq {"power"}
               PROVE  Verifies(j)'
    OBVIOUS
  <2>1. Recorded(desc[j])
    BY <1>1 DEF IInv, Data
  <2>2. index'[j] = desc[j] /\ chunks' = chunks
    BY <1>1 DEF CommitIndex, diskVars, IInv, Control, TypeOK
  <2> QED
    BY <2>1, <2>2 DEF Recorded, Verifies, Intact
<1> QED
  BY <1>1, Invariance, PTL DEF SafeSpec, CommitVerifies

-----------------------------------------------------------------------------
(* The refinement of BackupStore *)

(* A step that moves one job on, or none.                                  *)
LEMMA ResultMoves ==
    ASSUME TypeOK, NEW j \in Job, NEW where \in PC, pc' = [pc EXCEPT ![j] = where]
    PROVE  Listing!Becomes(j, ResultOf(j)')
<1>1. \A i \in Job \ {j} : ResultOf(i)' = ResultOf(i)
  BY DEF ResultOf
<1> QED
  BY <1>1 DEF Listing!Becomes

LEMMA ResultStays ==
    ASSUME TypeOK, NEW j \in Job, NEW where \in PC, pc' = [pc EXCEPT ![j] = where],
           ResultOf(j)' = ResultOf(j)
    PROVE  [i \in Job |-> ResultOf(i)]' = [i \in Job |-> ResultOf(i)]
<1>1. \A i \in Job : ResultOf(i)' = ResultOf(i)
  BY DEF ResultOf
<1> QED
  BY <1>1

LEMMA StoredStays ==
    ASSUME index' = index
    PROVE  [i \in Job |-> StoredOf(i)]' = [i \in Job |-> StoredOf(i)]
BY DEF StoredOf

(* Busy is who holds the lock.                                             *)
LEMMA BusyHoldsLock == ASSUME Control PROVE Listing!Busy = lock
<1>1. \A j \in Job : ResultOf(j) = "running" <=> pc[j] \in Running
  BY DEF Control, TypeOK, PC, Running, ResultOf
<1> QED
  BY <1>1 DEF Control, LockHeldByWriter, Listing!Busy

(* The one step that stores: the transaction writes the row of the whole   *)
(* source, where there was none.                                           *)
LEMMA CommitStores ==
    ASSUME IInv, NEW j \in Job, CommitIndex(j)
    PROVE  Listing!StoreWhole(j)
<1>1. /\ pc[j] = "staged" /\ j \notin Listed
      /\ index' = [index EXCEPT ![j] = desc[j]]
      /\ pc' = [pc EXCEPT ![j] = "indexed"]
      /\ copies' = copies
      /\ TypeOK
  BY DEF CommitIndex, IInv, Control, Rows
<1>2. /\ desc[j] \in Seq(Descriptor) /\ Source[j] \in Seq(Cid)
      /\ Len(desc[j]) = Len(Source[j])
      /\ \A k \in 1 .. Len(desc[j]) : desc[j][k].cid = Source[j][k]
  BY <1>1, Constants DEF IInv, Control, TypeOK, Progress
<1>3. [k \in DOMAIN desc[j] |-> desc[j][k].cid] = Source[j]
  BY <1>2
<1>4. index'[j] = desc[j] /\ desc[j] # Missing
  BY <1>1, <1>2, Constants DEF TypeOK
<1>5. StoredOf(j)' = Source[j]
  BY <1>3, <1>4 DEF StoredOf
<1>6. \A i \in Job \ {j} : StoredOf(i)' = StoredOf(i)
  BY <1>1 DEF StoredOf, TypeOK
<1>7. [i \in Job |-> StoredOf(i)]' = [[i \in Job |-> StoredOf(i)] EXCEPT ![j] = Source[j]]
  BY <1>5, <1>6
<1>8. StoredOf(j) = Missing
  BY <1>1 DEF Listed, StoredOf
<1>9. ResultOf(j) = "running" /\ ResultOf(j)' = "running"
  BY <1>1 DEF TypeOK, ResultOf, Running
<1>10. [i \in Job |-> ResultOf(i)]' = [i \in Job |-> ResultOf(i)]
  BY <1>1, <1>9, ResultStays DEF PC, Running
<1> QED
  BY <1>1, <1>7, <1>8, <1>9, <1>10 DEF Listing!StoreWhole

(* The step of a job that returns.                                         *)
LEMMA ReturnEnds ==
    ASSUME IInv, NEW j \in Job, NEW r \in {"done", "failed"},
           pc[j] \in Running, Return(j, r), index' = index
    PROVE  /\ ResultOf(j) = "running" /\ Listing!Becomes(j, r)
           /\ [i \in Job |-> StoredOf(i)]' = [i \in Job |-> StoredOf(i)]
<1>1. TypeOK /\ pc' = [pc EXCEPT ![j] = r] /\ r \in PC
  BY DEF IInv, Control, Return, PC
<1>2. ResultOf(j) = "running" /\ ResultOf(j)' = r
  BY <1>1 DEF TypeOK, ResultOf, Running
<1> QED
  BY <1>1, <1>2, ResultMoves, StoredStays

LEMMA JobRefines ==
    ASSUME IInv, NEW j \in Job, JobStep(j)
    PROVE  Listing!Next \/ UNCHANGED Listing!vars
<1>1. Control /\ TypeOK
  BY DEF IInv, Control
<1>2. CASE Rejected(j)
  <2>1. pc[j] = "start" /\ pc' = [pc EXCEPT ![j] = "failed"] /\ UNCHANGED <<index, copies>>
    BY <1>2 DEF Rejected, indexVars
  <2>2. ResultOf(j) = "none" /\ ResultOf(j)' = "failed"
    BY <1>1, <2>1 DEF TypeOK, ResultOf, Running
  <2>3. Listing!TurnAway(j)
    BY <1>1, <2>1, <2>2, ResultMoves, StoredStays DEF Listing!TurnAway, PC
  <2> QED
    BY <2>3 DEF Listing!Next
<1>3. CASE Begin(j)
  <2>1. /\ pc[j] = "start" /\ pc' = [pc EXCEPT ![j] = "write"] /\ lock = {}
        /\ UNCHANGED <<index, copies>>
    BY <1>3 DEF Begin, indexVars
  <2>2. ResultOf(j) = "none" /\ ResultOf(j)' = "running"
    BY <1>1, <2>1 DEF TypeOK, ResultOf, Running
  <2>3. Listing!Start(j)
    BY <1>1, <2>1, <2>2, BusyHoldsLock, ResultMoves, StoredStays DEF Listing!Start, PC, Running
  <2> QED
    BY <2>3 DEF Listing!Next
<1>4. CASE Refused(j)
  <2>1. /\ pc[j] = "start" /\ pc' = [pc EXCEPT ![j] = "locked"] /\ lock # {}
        /\ UNCHANGED <<index, copies>>
    BY <1>4 DEF Refused, indexVars
  <2>2. ResultOf(j) = "none" /\ ResultOf(j)' = "locked"
    BY <1>1, <2>1 DEF TypeOK, ResultOf, Running
  <2>3. Listing!TurnAway(j)
    BY <1>1, <2>1, <2>2, BusyHoldsLock, ResultMoves, StoredStays DEF Listing!TurnAway, PC
  <2> QED
    BY <2>3 DEF Listing!Next
<1>5. CASE Reuse(j) \/ Store(j) \/ StoreAfterReadError(j) \/ ReuseAfterReadError(j)
  <2>1. UNCHANGED <<index, copies, pc>>
    BY <1>5 DEF Reuse, Store, StoreAfterReadError, ReuseAfterReadError, Publish, indexVars
  <2>2. [i \in Job |-> ResultOf(i)]' = [i \in Job |-> ResultOf(i)]
    BY <2>1 DEF ResultOf
  <2> QED
    BY <2>1, <2>2, StoredStays DEF Listing!vars
<1>6. CASE Abort(j) \/ Drop(j) \/ CommitIndexFails(j) \/ PublishCopyFails(j)
  <2>1. pc[j] \in Running /\ Return(j, "failed") /\ UNCHANGED <<index, copies>>
    BY <1>6 DEF Abort, Drop, CommitIndexFails, PublishCopyFails, indexVars, Running
  <2>2. Listing!Fail(j)
    BY <2>1, ReturnEnds DEF Listing!Fail
  <2> QED
    BY <2>2 DEF Listing!Next
<1>7. CASE StageManifest(j) \/ Hang(j)
  <2>1. PICK where \in {"staged", "hung"} :
            /\ pc[j] = "write" /\ pc' = [pc EXCEPT ![j] = where]
            /\ UNCHANGED <<index, copies>>
    BY <1>7 DEF StageManifest, Hang, indexVars
  <2>2. ResultOf(j)' = ResultOf(j)
    BY <1>1, <2>1 DEF TypeOK, ResultOf, Running
  <2> QED
    BY <1>1, <2>1, <2>2, ResultStays, StoredStays DEF Listing!vars, PC, Running
<1>8. CASE CommitIndex(j)
  BY <1>8, CommitStores DEF Listing!Next
<1>9. CASE PublishCopy(j)
  <2>1. /\ pc[j] = "indexed" /\ copies' = copies \cup {j} /\ Return(j, "done")
        /\ index' = index
    BY <1>9 DEF PublishCopy, indexVars
  <2>2. StoredOf(j) # Missing
    <3>1. index[j] # Missing /\ index[j] \in Seq(Descriptor)
      BY <1>1, <2>1 DEF Control, Rows, Listed, TypeOK
    <3>2. [k \in DOMAIN index[j] |-> index[j][k].cid] \in Seq(Cid)
      <4> DEFINE s == index[j]
                 t == [k \in DOMAIN s |-> s[k].cid]
      <4>1. DOMAIN s = 1 .. Len(s) /\ Len(s) \in Nat /\ \A k \in DOMAIN s : s[k].cid \in Cid
        <5> HIDE DEF s
        <5>1. s \in Seq(Descriptor)
          BY <3>1 DEF s
        <5>2. DOMAIN s = 1 .. Len(s) /\ Len(s) \in Nat /\ \A k \in DOMAIN s : s[k] \in Descriptor
          BY <5>1
        <5> QED
          BY <5>2 DEF Descriptor
      <4> HIDE DEF s
      <4>2. t \in [1 .. Len(s) -> Cid]
        BY <4>1
      <4>3. t \in Seq(Cid)
        BY <4>1, <4>2
      <4> QED
        BY <4>3 DEF s
    <3>3. Missing \notin Seq(Cid)
      BY RepositoryAssumption
    <3> QED
      BY <3>1, <3>2, <3>3 DEF StoredOf
  <2>3. Listing!Succeed(j)
    BY <2>1, <2>2, ReturnEnds DEF Listing!Succeed, Running
  <2> QED
    BY <2>3 DEF Listing!Next
<1> QED
  BY <1>2, <1>3, <1>4, <1>5, <1>6, <1>7, <1>8, <1>9 DEF JobStep, Advance

(* A crash is the failure of whoever was running, and a power loss may     *)
(* take copies with it.                                                    *)
LEMMA DieRefines ==
    ASSUME IInv, Die, index' = index, copies' \in SUBSET copies
    PROVE  Listing!Die
<1>1. TypeOK /\ Control
  BY DEF IInv, Control
<1>2. ASSUME NEW j \in Job
      PROVE  ResultOf(j)' = IF j \in Listing!Busy THEN "failed" ELSE ResultOf(j)
  <2>1. pc'[j] = IF pc[j] \in Running THEN "dead" ELSE pc[j]
    BY <1>1 DEF Die
  <2>2. j \in Listing!Busy <=> pc[j] \in Running
    BY <1>1, BusyHoldsLock DEF Control, LockHeldByWriter
  <2> HIDE DEF Listing!Busy
  <2> QED
    BY <2>1, <2>2 DEF ResultOf, Running
<1> QED
  BY <1>2, StoredStays DEF Listing!Die

LEMMA StepRefines == ASSUME IInv, [Next]_vars PROVE [Listing!Next]_(Listing!vars)
<1>1. ASSUME UNCHANGED <<index, copies, pc>> PROVE UNCHANGED Listing!vars
  <2>1. [i \in Job |-> ResultOf(i)]' = [i \in Job |-> ResultOf(i)]
    BY <1>1 DEF ResultOf
  <2> QED
    BY <1>1, <2>1, StoredStays DEF Listing!vars
<1>2. ASSUME NEW j \in Job, JobStep(j) PROVE [Listing!Next]_(Listing!vars)
  BY <1>2, JobRefines
<1>3. CASE Crash
  <2>1. Listing!Die
    BY <1>3, DieRefines DEF Crash, indexVars
  <2> QED
    BY <2>1 DEF Listing!Next
<1>4. CASE PowerLoss
  <2>1. Listing!Die
    BY <1>4, DieRefines DEF PowerLoss, indexVars
  <2> QED
    BY <2>1 DEF Listing!Next
<1>5. CASE \E c \in Cid : WriteBack(c) \/ Rot(c)
  BY <1>1, <1>5 DEF WriteBack, Rot, indexVars
<1>6. CASE UNCHANGED vars
  BY <1>1, <1>6 DEF vars
<1> QED
  BY <1>2, <1>3, <1>4, <1>5, <1>6 DEF Next, Environment

(* To those who list it the repository is a store in which every backup    *)
(* appears at one instant, whole and for good, whatever fails, crashes or  *)
(* loses power between its chunks, its row and its copy                    *)
(* (engine.rs:100-256, repository.rs:180-257).                             *)
THEOREM StoresAtomically == SafeSpec => RefinesStore
<1>1. Init => Listing!Init
  <2> SUFFICES ASSUME Init PROVE Listing!Init
    OBVIOUS
  <2>1. \A j \in Job : StoredOf(j) = Missing /\ ResultOf(j) = "none"
    <3>1. \A j \in Job : index[j] = Missing /\ pc[j] = "start"
      BY DEF Init
    <3> QED
      BY <3>1 DEF StoredOf, ResultOf, Running
  <2> QED
    BY <2>1 DEF Init, Listing!Init
<1>2. IInv /\ [Next]_vars => [Listing!Next]_(Listing!vars)
  BY StepRefines
<1> QED
  BY <1>1, <1>2, Invariance, PTL DEF SafeSpec, RefinesStore, Listing!Spec

-----------------------------------------------------------------------------
(* A bound on the steps of a backup *)

(* How many steps j still takes, at most: one for each chunk and for each  *)
(* stage.  None if it has ended.                                           *)
Remaining(j) ==
    IF pc[j] = "start" THEN Len(Source[j]) + 4
    ELSE IF pc[j] = "write" THEN Len(Source[j]) - Len(desc[j]) + 3
    ELSE IF pc[j] = "staged" THEN 2
    ELSE IF pc[j] \in {"indexed", "hung"} THEN 1
    ELSE 0

LEMMA RemainingNat ==
    ASSUME Control, NEW j \in Job
    PROVE  /\ Remaining(j) \in 0 .. Len(Source[j]) + 4
           /\ pc[j] \in {"start"} \cup Running => Remaining(j) >= 1
           /\ pc[j] \in Running => Remaining(j) <= Len(Source[j]) + 3
           /\ Len(Source[j]) \in Nat
           /\ Len(desc[j]) \in Nat
<1>1. /\ Len(Source[j]) \in Nat /\ Len(desc[j]) \in Nat /\ Len(desc[j]) <= Len(Source[j])
  BY Constants DEF Control, TypeOK, Progress
<1>2. CASE pc[j] = "start"
  <2>1. Remaining(j) = Len(Source[j]) + 4
    BY <1>2 DEF Remaining
  <2> QED
    BY <1>1, <1>2, <2>1 DEF Running
<1>3. CASE pc[j] = "write"
  <2> DEFINE n == Len(Source[j])
             k == Len(desc[j])
  <2>1. Remaining(j) = n - k + 3
    BY <1>3 DEF Remaining
  <2>2. n \in Nat /\ k \in Nat /\ k <= n
    BY <1>1
  <2> HIDE DEF n, k
  <2>3. Remaining(j) \in 1 .. n + 3
    BY <2>1, <2>2
  <2> QED
    BY <1>1, <1>3, <2>2, <2>3 DEF n
<1>4. CASE pc[j] \in {"staged", "indexed", "hung"}
  <2>1. Remaining(j) \in {1, 2}
    BY <1>4 DEF Remaining
  <2> QED
    BY <1>1, <1>4, <2>1
<1>5. CASE pc[j] \notin {"start"} \cup Running
  <2>1. Remaining(j) = 0
    BY <1>5 DEF Remaining, Running
  <2> QED
    BY <1>1, <1>5, <2>1
<1> QED
  BY <1>2, <1>3, <1>4, <1>5 DEF Running

(* A step of j uses one of them up, at least.                              *)
LEMMA OwnStep ==
    ASSUME Control, NEW j \in Job, JobStep(j)
    PROVE  Remaining(j)' < Remaining(j)
<1>1. /\ TypeOK /\ Len(Source[j]) \in Nat /\ Len(desc[j]) \in Nat
      /\ Remaining(j) \in Nat
  BY RemainingNat DEF Control
<1>2. ASSUME pc[j] \in {"start"} \cup Running,
             NEW r \in {"failed", "locked", "done"}, pc' = [pc EXCEPT ![j] = r]
      PROVE  Remaining(j)' < Remaining(j)
  <2>1. Remaining(j)' = 0
    BY <1>1, <1>2 DEF Remaining, TypeOK
  <2>2. Remaining(j) >= 1
    BY <1>2, RemainingNat
  <2> QED
    BY <1>1, <2>1, <2>2
<1>3. CASE Rejected(j) \/ Refused(j)
  BY <1>2, <1>3 DEF Rejected, Refused
<1>4. CASE Begin(j)
  BY <1>1, <1>4 DEF Begin, Remaining, TypeOK
<1>5. CASE Reuse(j) \/ Store(j) \/ StoreAfterReadError(j) \/ ReuseAfterReadError(j)
  <2>1. pc[j] = "write" /\ pc' = pc /\ Writes(j)
    BY <1>5 DEF Reuse, Store, StoreAfterReadError, ReuseAfterReadError, Publish, Writes
  <2>2. PICK e \in Encoding : AddChunk(j, e)
    <3>1. CASE Reuse(j) \/ ReuseAfterReadError(j)
      <4>1. Decodes(Next_cid(j)) /\ AddChunk(j, chunks[Next_cid(j)].encoding)
        BY <3>1 DEF Reuse, ReuseAfterReadError
      <4>2. Next_cid(j) \in Cid
        <5>1. Len(desc[j]) + 1 \in 1 .. Len(Source[j]) /\ Source[j] \in Seq(Cid)
          BY <1>1, <2>1, Constants DEF Writes
        <5> QED
          BY <5>1 DEF Next_cid
      <4>3. chunks[Next_cid(j)] \in File
        BY <1>1, <4>1, <4>2 DEF Decodes, TypeOK
      <4>4. chunks[Next_cid(j)].encoding \in Encoding
        BY <4>3 DEF File
      <4> QED
        BY <4>1, <4>4
    <3>2. CASE Store(j) \/ StoreAfterReadError(j)
      BY <3>2, Constants DEF Store, StoreAfterReadError, Publish
    <3> QED
      BY <1>5, <3>1, <3>2
  <2>3. Len(desc'[j]) = Len(desc[j]) + 1
    <3> DEFINE d == [cid |-> Next_cid(j), encoding |-> e]
    <3>1. d \in Descriptor /\ desc' = [desc EXCEPT ![j] = Append(desc[j], d)]
      BY <2>2, <2>1, NextDescriptor
    <3> HIDE DEF d
    <3>2. Len(Append(desc[j], d)) = Len(desc[j]) + 1
      BY <1>1, <3>1, Appended DEF TypeOK
    <3> QED
      BY <1>1, <3>1, <3>2 DEF TypeOK
  <2> DEFINE n == Len(Source[j])
             k == Len(desc[j])
  <2>4. Remaining(j) = n - k + 3 /\ Remaining(j)' = n - (k + 1) + 3
    BY <2>1, <2>3 DEF Remaining
  <2>5. n \in Nat /\ k \in Nat
    BY <1>1
  <2> HIDE DEF n, k
  <2> QED
    BY <2>4, <2>5
<1>6. CASE Abort(j) \/ Drop(j) \/ CommitIndexFails(j) \/ PublishCopyFails(j) \/ PublishCopy(j)
  BY <1>2, <1>6 DEF Abort, Drop, CommitIndexFails, PublishCopyFails, PublishCopy, Return, Running
<1>7. CASE StageManifest(j)
  <2>1. pc[j] = "write" /\ pc'[j] = "staged" /\ Len(desc[j]) = Len(Source[j])
    BY <1>1, <1>7 DEF StageManifest, TypeOK
  <2>2. Remaining(j) = Len(Source[j]) - Len(Source[j]) + 3 /\ Remaining(j)' = 2
    BY <2>1 DEF Remaining
  <2> QED
    BY <1>1, <2>2
<1>8. CASE CommitIndex(j)
  <2>1. pc[j] = "staged" /\ pc'[j] = "indexed"
    BY <1>1, <1>8 DEF CommitIndex, TypeOK
  <2> QED
    BY <2>1 DEF Remaining
<1>9. CASE Hang(j)
  <2>1. pc[j] = "write" /\ pc'[j] = "hung" /\ Len(desc[j]) <= Len(Source[j])
    BY <1>1, <1>9 DEF Hang, TypeOK, Control, Progress
  <2> DEFINE n == Len(Source[j])
             k == Len(desc[j])
  <2>2. Remaining(j) = n - k + 3 /\ Remaining(j)' = 1 /\ n \in Nat /\ k \in Nat /\ k <= n
    BY <1>1, <2>1 DEF Remaining
  <2> HIDE DEF n, k
  <2> QED
    BY <2>2
<1> QED
  BY <1>3, <1>4, <1>5, <1>6, <1>7, <1>8, <1>9 DEF JobStep, Advance

(* Nobody else gives it more to do.                                        *)
LEMMA OthersStep ==
    ASSUME Control, NEW j \in Job, [Next]_vars, ~JobStep(j)
    PROVE  Remaining(j)' <= Remaining(j)
<1>1. TypeOK /\ Remaining(j) \in Nat
  BY RemainingNat DEF Control
<1>2. ASSUME pc'[j] = pc[j], desc'[j] = desc[j] PROVE Remaining(j)' <= Remaining(j)
  BY <1>1, <1>2 DEF Remaining
<1>3. ASSUME NEW i \in Job, JobStep(i) PROVE Remaining(j)' <= Remaining(j)
  <2>1. i # j
    BY <1>3
  <2>2. pc'[j] = pc[j] /\ desc'[j] = desc[j]
    BY <1>1, <1>3, <2>1 DEF JobStep, Advance, Hang, Drop, Rejected, Begin, Refused, Reuse, Store,
       StoreAfterReadError, ReuseAfterReadError, Publish, AddChunk, Abort, StageManifest,
       CommitIndex, CommitIndexFails, PublishCopy, PublishCopyFails, Return, TypeOK
  <2> QED
    BY <1>2, <2>2
<1>4. ASSUME Die PROVE Remaining(j)' <= Remaining(j)
  <2>1. pc'[j] = IF pc[j] \in Running THEN "dead" ELSE pc[j]
    BY <1>1, <1>4 DEF Die
  <2>2. Remaining(j)' = Remaining(j) \/ Remaining(j)' = 0
    BY <2>1 DEF Remaining, Running
  <2> QED
    BY <1>1, <2>2
<1>5. CASE \E c \in Cid : WriteBack(c) \/ Rot(c)
  BY <1>2, <1>5 DEF WriteBack, Rot
<1>6. CASE UNCHANGED vars
  BY <1>2, <1>6 DEF vars
<1> QED
  BY <1>3, <1>4, <1>5, <1>6 DEF Next, Environment, Crash, PowerLoss

(* Every step of a backup brings it nearer to its end, and neither another *)
(* backup nor a fault takes it back: write_chunk goes through the source   *)
(* once, and commit_manifest through its stages.  (A step need not come: a *)
(* backup that hangs has taken all its steps but the one it is dropped in.)*)
JobsMoveOn ==
    [][\A j \in Job :
        IF JobStep(j) THEN Remaining(j)' < Remaining(j)
        ELSE Remaining(j)' <= Remaining(j)]_vars

THEOREM BackupsMoveOn == SafeSpec => JobsMoveOn
<1>1. IInv /\ [Next]_vars =>
        [\A j \in Job :
            IF JobStep(j) THEN Remaining(j)' < Remaining(j)
            ELSE Remaining(j)' <= Remaining(j)]_vars
  BY OwnStep, OthersStep DEF IInv
<1> QED
  BY <1>1, Invariance, PTL DEF SafeSpec, JobsMoveOn

(* So whoever holds the writer lock has only so many steps before it       *)
(* returns, a number that the source alone bounds.  How long they take is  *)
(* not said: the last one of a backup that hangs may never come            *)
(* (engine.rs:235, LockReleased).                                          *)
LockBounded == \A j \in lock : Remaining(j) \in 1 .. Len(Source[j]) + 3

THEOREM HolderStepsBounded == SafeSpec => []LockBounded
<1>1. IInv => LockBounded
  <2> SUFFICES ASSUME IInv, NEW j \in lock PROVE Remaining(j) \in 1 .. Len(Source[j]) + 3
    BY DEF LockBounded
  <2>1. j \in Job /\ pc[j] \in Running
    BY DEF IInv, Control, LockHeldByWriter
  <2> QED
    BY <2>1, RemainingNat DEF IInv
<1> QED
  BY <1>1, Invariance, PTL
=============================================================================
