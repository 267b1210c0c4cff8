--------------------------- MODULE SourceCheckProofs ---------------------------
(***************************************************************************)
(* What a committed backup of a changing source contains, for every set of *)
(* files and contents, and any number of writes.                           *)
(***************************************************************************)
EXTENDS SourceCheck, TLAPS

(* The fingerprint has been taken.                                         *)
Started == pc \in {"read", "verify", "committed", "changed"}

(* As long as the timestamp is older than the fingerprint, the file still  *)
(* has the content it had then.                                            *)
Unwritten == mtime[fd] < snapshot.time => content[fd] = snapshot.content

(* What has been read is a prefix of that content, or the timestamp tells. *)
ReadsSnapshot ==
    mtime[fd] < snapshot.time =>
        /\ Len(read) <= Len(snapshot.content)
        /\ \A k \in 1 .. Len(read) : read[k] = snapshot.content[k]
        /\ pc # "read" => Len(read) = Len(snapshot.content)

IInv ==
    /\ TypeOK
    /\ pc \in {"open", "stat"} => read = <<>>
    /\ Started =>
        /\ snapshot.time <= now
        /\ start.len = Len(snapshot.content)
        /\ ~deceived /\ pc # "changed" => Unwritten /\ ReadsSnapshot
    /\ Consistent

LEMMA InitIInv == Init => IInv
<1> SUFFICES ASSUME Init PROVE IInv
  OBVIOUS
<1>1. MaxTime \in Nat /\ MaxWrites \in Nat
  BY SourceCheckAssumption
<1>2. now \in Nat /\ mtime \in [Inode -> Nat]
  <2>1. now \in Nat /\ mtime \in [Inode -> 0 .. now]
    BY <1>1 DEF Init
  <2>2. 0 .. now \subseteq Nat
    BY <2>1
  <2> QED
    BY <2>1, <2>2
<1>3. start \in Fingerprint /\ snapshot \in [content : Seq(Block), time : Nat]
  <2>1. start = [len |-> 0, modified |-> 0] /\ snapshot = [content |-> <<>>, time |-> 0]
    BY DEF Init
  <2>2. <<>> \in Seq(Block)
    OBVIOUS
  <2> QED
    BY <2>1, <2>2 DEF Fingerprint
<1>4. content \in [Inode -> Content] /\ path \in Inode /\ writes = 0
      /\ fd = NoFile /\ read = <<>> /\ pc = "open" /\ touched = FALSE /\ deceived = FALSE
  BY DEF Init
<1>5. TypeOK
  <2>1. writes \in 0 .. MaxWrites
    BY <1>1, <1>4
  <2>2. read \in Seq(Block) /\ fd \in Inode \cup {NoFile} /\ path \in Inode \cup {NoFile}
    BY <1>4
  <2> QED
    BY <1>2, <1>3, <1>4, <2>1, <2>2 DEF TypeOK
<1> QED
  BY <1>4, <1>5 DEF IInv, Started, Consistent

-----------------------------------------------------------------------------
(* The steps of the backup *)

LEMMA OpenIInv == ASSUME IInv, Open PROVE IInv'
BY DEF IInv, TypeOK, Open, fileVars, historyVars, Started, Consistent, Fingerprint

LEMMA PathGoneIInv == ASSUME IInv, PathGone PROVE IInv'
BY DEF IInv, TypeOK, PathGone, fileVars, historyVars, Started, Consistent, Fingerprint

LEMMA IoErrorIInv == ASSUME IInv, IoError PROVE IInv'
BY DEF IInv, TypeOK, IoError, fileVars, historyVars, Started, Consistent, Fingerprint

LEMMA StatIInv == ASSUME IInv, Stat PROVE IInv'
<1>1. /\ TypeOK /\ read = <<>> /\ pc' = "read" /\ fd \in Inode
      /\ start' = FingerprintOf(fd)
      /\ snapshot' = [content |-> content[fd], time |-> now]
      /\ UNCHANGED <<content, mtime, path, now, writes, fd, read, touched, deceived>>
  BY DEF IInv, TypeOK, Stat, fileVars, historyVars
<1>2. content[fd] \in Seq(Block) /\ Len(content[fd]) \in Nat /\ mtime[fd] \in Nat /\ now \in Nat
  BY <1>1, SourceCheckAssumption DEF TypeOK
<1>3. TypeOK'
  <2>1. start' \in Fingerprint
    BY <1>1, <1>2 DEF Fingerprint, FingerprintOf
  <2>2. snapshot' \in [content : Seq(Block), time : Nat]
    BY <1>1, <1>2
  <2> QED
    BY <1>1, <2>1, <2>2 DEF TypeOK
<1>4. snapshot'.time = now /\ snapshot'.content = content[fd] /\ start'.len = Len(content[fd])
  BY <1>1 DEF FingerprintOf
<1>5. Unwritten' /\ ReadsSnapshot'
  BY <1>1, <1>2, <1>4 DEF Unwritten, ReadsSnapshot
<1> QED
  BY <1>1, <1>2, <1>3, <1>4, <1>5 DEF IInv, Consistent, Started

LEMMA ReadBlockIInv == ASSUME IInv, ReadBlock PROVE IInv'
<1> DEFINE b == content[fd][Len(read) + 1]
<1>1. /\ TypeOK /\ pc = "read" /\ fd \in Inode
      /\ Len(read) < Len(content[fd])
      /\ read' = Append(read, b)
      /\ UNCHANGED <<content, mtime, path, now, writes, fd, start, pc, snapshot, touched, deceived>>
  BY DEF IInv, TypeOK, ReadBlock, fileVars, historyVars
<1>2. content[fd] \in Seq(Block) /\ read \in Seq(Block)
  BY <1>1, SourceCheckAssumption DEF TypeOK
<1>3. Len(read) + 1 \in 1 .. Len(content[fd])
  BY <1>1, <1>2
<1>4. b \in Block
  BY <1>2, <1>3
<1>5. /\ read' \in Seq(Block) /\ Len(read') = Len(read) + 1
      /\ \A k \in 1 .. Len(read) : read'[k] = read[k]
      /\ read'[Len(read) + 1] = b
  BY <1>1, <1>2, <1>4
<1>6. TypeOK'
  BY <1>1, <1>5 DEF TypeOK
<1>7. ASSUME ~deceived PROVE Unwritten' /\ ReadsSnapshot'
  <2>1. Unwritten /\ ReadsSnapshot
    BY <1>1, <1>7 DEF IInv, Started
  <2>2. Unwritten'
    BY <1>1, <2>1 DEF Unwritten
  <2>3. ASSUME mtime[fd] < snapshot.time
        PROVE  /\ Len(read') <= Len(snapshot.content)
               /\ \A k \in 1 .. Len(read') : read'[k] = snapshot.content[k]
    <3>1. content[fd] = snapshot.content
      BY <2>1, <2>3 DEF Unwritten
    <3>2. \A k \in 1 .. Len(read) : read[k] = snapshot.content[k]
      BY <2>1, <2>3 DEF ReadsSnapshot
    <3>3. ASSUME NEW k \in 1 .. Len(read') PROVE read'[k] = snapshot.content[k]
      <4>1. CASE k \in 1 .. Len(read)
        BY <1>5, <3>2, <4>1
      <4>2. CASE k = Len(read) + 1
        BY <1>5, <3>1, <4>2
      <4> QED
        BY <1>2, <1>5, <4>1, <4>2
    <3> QED
      BY <1>1, <1>2, <1>5, <3>1, <3>3
  <2>4. ReadsSnapshot'
    BY <1>1, <2>3 DEF ReadsSnapshot
  <2> QED
    BY <2>2, <2>4
<1> QED
  BY <1>1, <1>6, <1>7 DEF IInv, Started, Consistent

LEMMA ReadEofIInv == ASSUME IInv, ReadEof PROVE IInv'
<1>1. /\ TypeOK /\ pc = "read" /\ pc' = "verify" /\ fd \in Inode
      /\ Len(read) >= Len(content[fd])
      /\ UNCHANGED <<content, mtime, path, now, writes, fd, start, read, snapshot, touched, deceived>>
  BY DEF IInv, TypeOK, ReadEof, fileVars, historyVars
<1>2. content[fd] \in Seq(Block) /\ read \in Seq(Block)
  BY <1>1, SourceCheckAssumption DEF TypeOK
<1>3. TypeOK'
  BY <1>1 DEF TypeOK
<1>4. ASSUME ~deceived PROVE Unwritten' /\ ReadsSnapshot'
  <2>1. Unwritten /\ ReadsSnapshot
    BY <1>1, <1>4 DEF IInv, Started
  <2> QED
    BY <1>1, <1>2, <2>1 DEF Unwritten, ReadsSnapshot
<1> QED
  BY <1>1, <1>3, <1>4 DEF IInv, Started, Consistent

(* The path names the open file, again or still: an old timestamp at the   *)
(* end means that there was no write since the fingerprint.                *)
LEMMA VerifyUnchangedIInv == ASSUME IInv, VerifyUnchanged PROVE IInv'
<1>1. /\ TypeOK /\ pc = "verify" /\ pc' = "committed" /\ fd \in Inode
      /\ Matches(FingerprintOf(path))
      /\ deceived' = (deceived \/ path # fd)
      /\ UNCHANGED <<content, mtime, path, now, writes, fd, start, read, snapshot, touched>>
  BY DEF IInv, TypeOK, VerifyUnchanged, fileVars
<1>2. TypeOK'
  BY <1>1 DEF TypeOK
<1>3. ~deceived => Unwritten /\ ReadsSnapshot
  BY <1>1 DEF IInv, Started
<1>4. ~deceived' => Unwritten' /\ ReadsSnapshot'
  BY <1>1, <1>3 DEF Unwritten, ReadsSnapshot
<1>5. Consistent'
  <2> SUFFICES ASSUME Settled, ~deceived'
               PROVE  read = snapshot.content /\ Len(read) = start.len
    BY <1>1 DEF Consistent, Settled
  <2>1. path = fd /\ ~deceived
    BY <1>1
  <2>2. mtime[fd] < snapshot.time
    BY <1>1, <2>1 DEF Settled, Matches, FingerprintOf
  <2>3. /\ Len(read) = Len(snapshot.content)
        /\ \A k \in 1 .. Len(read) : read[k] = snapshot.content[k]
    BY <1>1, <1>3, <2>1, <2>2 DEF ReadsSnapshot
  <2>4. read \in Seq(Block) /\ snapshot.content \in Seq(Block)
    BY <1>1 DEF TypeOK
  <2>5. read = snapshot.content
    BY <2>3, <2>4
  <2>6. start.len = Len(snapshot.content)
    BY <1>1 DEF IInv, Started
  <2> QED
    BY <2>5, <2>6
<1> QED
  BY <1>1, <1>2, <1>4, <1>5 DEF IInv, Started

LEMMA SourceChangedIInv == ASSUME IInv, SourceChanged PROVE IInv'
BY DEF IInv, TypeOK, SourceChanged, fileVars, historyVars, Started, Consistent

-----------------------------------------------------------------------------
(* The steps of other programs *)

LEMMA WriteIInv == ASSUME IInv, NEW i \in Inode, Write(i) PROVE IInv'
<1>1. /\ TypeOK /\ writes < MaxWrites /\ writes' = writes + 1
      /\ mtime' = [mtime EXCEPT ![i] = now]
      /\ touched' \in BOOLEAN
      /\ UNCHANGED <<path, now, fd, start, read, pc, snapshot, deceived>>
  BY DEF IInv, Write, Acts
<1>2. PICK s \in Content : content' = [content EXCEPT ![i] = s]
  BY DEF Write
<1>3. MaxWrites \in Nat
  BY SourceCheckAssumption
<1>4. TypeOK'
  <2>1. writes' \in 0 .. MaxWrites
    BY <1>1, <1>3 DEF TypeOK
  <2>2. content' \in [Inode -> Content] /\ mtime' \in [Inode -> Nat]
    BY <1>1, <1>2 DEF TypeOK
  <2> QED
    BY <1>1, <2>1, <2>2 DEF TypeOK
<1>5. ASSUME Started, ~deceived, pc # "changed" PROVE Unwritten' /\ ReadsSnapshot'
  <2>1. Unwritten /\ ReadsSnapshot /\ snapshot.time <= now /\ fd \in Inode
    BY <1>1, <1>5 DEF IInv, TypeOK, Started
  <2>2. CASE i = fd
    <3>1. mtime'[fd] = now /\ ~(now < snapshot.time)
      BY <1>1, <2>1, <2>2 DEF TypeOK
    <3> QED
      BY <1>1, <3>1 DEF Unwritten, ReadsSnapshot
  <2>3. CASE i # fd
    <3>1. mtime'[fd] = mtime[fd] /\ content'[fd] = content[fd]
      BY <1>1, <1>2, <2>1, <2>3 DEF TypeOK
    <3> QED
      BY <1>1, <2>1, <3>1 DEF Unwritten, ReadsSnapshot
  <2> QED
    BY <2>2, <2>3
<1>6. Consistent' /\ (Started' <=> Started)
  BY <1>1 DEF IInv, Consistent, Settled, Started
<1> QED
  BY <1>1, <1>4, <1>5, <1>6 DEF IInv

(* Timestamps that are set are not promised to be noticed; they only       *)
(* disturb what is not promised any more.                                  *)
LEMMA SetModifiedIInv == ASSUME IInv, NEW i \in Inode, SetModified(i) PROVE IInv'
<1>1. MaxWrites \in Nat
  BY SourceCheckAssumption
<1>2. PICK t \in 0 .. now : mtime' = [mtime EXCEPT ![i] = t]
  BY DEF SetModified
<1>3. mtime' \in [Inode -> Nat]
  BY <1>2 DEF IInv, TypeOK
<1>4. TypeOK'
  BY <1>1, <1>3 DEF IInv, TypeOK, SetModified, Acts
<1> QED
  BY <1>4 DEF IInv, SetModified, Acts, Started, Consistent

(* What the path names meanwhile does not change the file that is read.    *)
LEMMA MovePathIInv ==
    ASSUME IInv, NEW i \in Inode \cup {NoFile}, MovePath(i)
    PROVE  IInv'
<1>1. MaxWrites \in Nat
  BY SourceCheckAssumption
<1>2. TypeOK'
  BY <1>1 DEF IInv, TypeOK, MovePath, Acts
<1> QED
  BY <1>2 DEF IInv, MovePath, Acts, Started, Consistent, Settled, Unwritten, ReadsSnapshot

LEMMA TickIInv == ASSUME IInv, Tick PROVE IInv'
<1>1. /\ now \in Nat /\ now' = now + 1
      /\ UNCHANGED <<content, mtime, path, writes, fd, start, read, pc, snapshot, touched, deceived>>
  BY DEF IInv, TypeOK, Tick, fileVars, historyVars
<1>2. TypeOK'
  BY <1>1 DEF IInv, TypeOK
<1>3. Started => snapshot.time <= now'
  BY <1>1 DEF IInv, TypeOK
<1> QED
  BY <1>1, <1>2, <1>3 DEF IInv, Started, Unwritten, ReadsSnapshot, Consistent, Settled

LEMMA NextIInv == ASSUME IInv, [Next]_vars PROVE IInv'
<1>1. CASE Backup
  BY <1>1, OpenIInv, PathGoneIInv, StatIInv, ReadBlockIInv, ReadEofIInv,
     VerifyUnchangedIInv, SourceChangedIInv DEF Backup
<1>2. CASE Others
  BY <1>2, WriteIInv, SetModifiedIInv, MovePathIInv, TickIInv DEF Others
<1>3. CASE UNCHANGED vars
  BY <1>3 DEF vars, fileVars, historyVars, IInv, TypeOK, Started, Unwritten,
     ReadsSnapshot, Consistent, Settled
<1> QED
  BY <1>1, <1>2, <1>3, IoErrorIInv DEF Next

-----------------------------------------------------------------------------
(* The theorems *)

(* The invariant holds in every behaviour.                                 *)
THEOREM Invariance == SafeSpec => []IInv
<1>1. Init => IInv
  BY InitIInv
<1>2. IInv /\ [Next]_vars => IInv'
  BY NextIInv
<1> QED
  BY <1>1, <1>2, PTL DEF SafeSpec

(* Types.                                                                  *)
THEOREM TypeCorrect == SafeSpec => []TypeOK
<1>1. IInv => TypeOK
  BY DEF IInv
<1> QED
  BY <1>1, Invariance, PTL

(* Size and modification time are enough (source.rs:74) for a source that  *)
(* had settled when the backup began and that is not tampered with.        *)
THEOREM CommitsOneMoment == SafeSpec => []Consistent
<1>1. IInv => Consistent
  BY DEF IInv
<1> QED
  BY <1>1, Invariance, PTL

-----------------------------------------------------------------------------
(* An untouched source *)

(* Nobody has done anything since the open: the path and the fingerprint   *)
(* are those of the open file.                                             *)
Untouched ==
    ~touched =>
        /\ pc \notin {"open", "failed"} => path = fd
        /\ Started => start = FingerprintOf(fd)
        /\ pc # "changed"

LEMMA UntouchedStep == ASSUME TypeOK, Untouched, [Next]_vars PROVE Untouched'
<1> USE DEF Untouched, Started
<1>1. CASE Open \/ PathGone \/ IoError
  BY <1>1 DEF Open, PathGone, IoError, fileVars, historyVars
<1>2. CASE Stat
  BY <1>2 DEF Stat, FingerprintOf, fileVars, historyVars
<1>3. CASE ReadBlock \/ ReadEof \/ VerifyUnchanged
  BY <1>3 DEF ReadBlock, ReadEof, VerifyUnchanged, FingerprintOf, fileVars, historyVars
<1>4. CASE SourceChanged
  <2>1. touched
    BY <1>4, SourceCheckAssumption DEF SourceChanged, Matches, TypeOK
  <2> QED
    BY <1>4, <2>1 DEF SourceChanged, historyVars
<1>5. ASSUME Acts PROVE Untouched'
  BY <1>5 DEF Acts
<1>6. CASE Tick
  BY <1>6 DEF Tick, FingerprintOf, fileVars, historyVars
<1>7. CASE UNCHANGED vars
  BY <1>7 DEF vars, FingerprintOf, fileVars, historyVars
<1> QED
  BY <1>1, <1>2, <1>3, <1>4, <1>5, <1>6, <1>7 DEF Next, Backup, Others, Write, SetModified, MovePath

(* A source that nobody touches is backed up (source.rs:74).               *)
THEOREM NeverFalseAlarm == SafeSpec => []NoFalseAlarm
<1>1. Init => Untouched
  BY DEF Init, Untouched, Started
<1>2. TypeOK /\ Untouched /\ [Next]_vars => Untouched'
  BY UntouchedStep
<1>3. Untouched => NoFalseAlarm
  BY DEF Untouched, NoFalseAlarm
<1> QED
  BY <1>1, <1>2, <1>3, TypeCorrect, PTL DEF SafeSpec

-----------------------------------------------------------------------------
(* The end of the reading *)

(* What the file still has for a reader that has read so much.             *)
Unread == IF Len(read) < Len(content[fd]) THEN Len(content[fd]) - Len(read) ELSE 0

(* How many steps the backup still takes, at most, if nobody writes.       *)
Remaining ==
    IF pc = "open" THEN (IF path = NoFile THEN 1 ELSE Len(content[path]) + 4)
    ELSE IF pc = "stat" THEN Len(content[fd]) + 3
    ELSE IF pc = "read" THEN Unread + 2
    ELSE IF pc = "verify" THEN 1
    ELSE 0

LEMMA UnreadNat ==
    ASSUME TypeOK, fd \in Inode
    PROVE  /\ Len(content[fd]) \in Nat /\ Len(read) \in Nat
           /\ Unread \in 0 .. Len(content[fd])
<1>1. Len(content[fd]) \in Nat /\ Len(read) \in Nat
  <2>1. content[fd] \in Seq(Block) /\ read \in Seq(Block)
    BY SourceCheckAssumption DEF TypeOK
  <2> QED
    BY <2>1
<1> DEFINE n == Len(content[fd])
           k == Len(read)
<1>2. Unread = IF k < n THEN n - k ELSE 0
  BY DEF Unread
<1>3. n \in Nat /\ k \in Nat
  BY <1>1
<1> HIDE DEF n, k
<1>4. Unread \in 0 .. n
  BY <1>2, <1>3
<1> QED
  BY <1>1, <1>4 DEF n

LEMMA RemainingNat == ASSUME TypeOK PROVE Remaining \in Nat
<1>1. ASSUME pc = "open", path # NoFile PROVE Len(content[path]) \in Nat
  <2>1. content[path] \in Seq(Block)
    BY <1>1, SourceCheckAssumption DEF TypeOK
  <2> QED
    BY <2>1
<1>2. CASE pc \in {"stat", "read"}
  <2>1. fd \in Inode
    BY <1>2 DEF TypeOK
  <2> QED
    BY <1>2, <2>1, UnreadNat DEF Remaining
<1>3. CASE pc \notin {"stat", "read"}
  BY <1>1, <1>3 DEF Remaining
<1> QED
  BY <1>2, <1>3

LEMMA BackupStep == ASSUME TypeOK, Backup PROVE Remaining' < Remaining
<1>1. CASE Open
  <2>1. /\ pc = "open" /\ path # NoFile /\ fd' = path /\ pc' = "stat" /\ content' = content
    BY <1>1 DEF Open, fileVars
  <2>2. content[path] \in Seq(Block)
    BY <2>1, SourceCheckAssumption DEF TypeOK
  <2>3. Remaining = Len(content[path]) + 4 /\ Remaining' = Len(content[path]) + 3
    BY <2>1 DEF Remaining
  <2> QED
    BY <2>2, <2>3
<1>2. CASE PathGone
  BY <1>2 DEF PathGone, Remaining
<1>3. CASE Stat
  <2>1. pc = "stat" /\ pc' = "read" /\ fd \in Inode /\ UNCHANGED <<content, fd, read>>
    BY <1>3 DEF Stat, fileVars, TypeOK
  <2>2. Unread' = Unread
    BY <2>1 DEF Unread
  <2>3. Remaining = Len(content[fd]) + 3 /\ Remaining' = Unread + 2
    BY <2>1, <2>2 DEF Remaining
  <2> QED
    BY <2>1, <2>3, UnreadNat
<1>4. CASE ReadBlock
  <2> DEFINE n == Len(content[fd])
             k == Len(read)
             b == content[fd][Len(read) + 1]
  <2>1. /\ pc = "read" /\ fd \in Inode /\ k < n
        /\ read' = Append(read, b) /\ UNCHANGED <<content, fd, pc>>
    BY <1>4 DEF ReadBlock, fileVars, TypeOK
  <2>2. n \in Nat /\ k \in Nat
    BY <2>1, UnreadNat
  <2>3. Len(read') = k + 1
    <3>1. read \in Seq(Block) /\ content[fd] \in Seq(Block)
      BY <2>1, SourceCheckAssumption DEF TypeOK
    <3>2. b \in Block
      BY <2>1, <2>2, <3>1
    <3> HIDE DEF b
    <3> QED
      BY <2>1, <3>1, <3>2
  <2>4. Unread = n - k /\ Unread' = IF k + 1 < n THEN n - (k + 1) ELSE 0
    <3> HIDE DEF b
    <3> QED
      BY <2>1, <2>3 DEF Unread
  <2>5. Remaining = Unread + 2 /\ Remaining' = Unread' + 2
    BY <2>1 DEF Remaining
  <2> HIDE DEF n, k, b
  <2> QED
    BY <2>1, <2>2, <2>4, <2>5
<1>5. CASE ReadEof
  <2>1. pc = "read" /\ pc' = "verify" /\ fd \in Inode
    BY <1>5 DEF ReadEof, TypeOK
  <2>2. Remaining = Unread + 2 /\ Remaining' = 1
    BY <2>1 DEF Remaining
  <2> QED
    BY <2>1, <2>2, UnreadNat
<1>6. CASE VerifyUnchanged \/ SourceChanged
  BY <1>6 DEF VerifyUnchanged, SourceChanged, Remaining
<1> QED
  BY <1>1, <1>2, <1>3, <1>4, <1>5, <1>6 DEF Backup

(* Every step of a backup brings it nearer to its end, and only a program  *)
(* that writes the source or moves the path can put that off, by what it   *)
(* wrote: the reading stops at the end of the file, wherever that is by    *)
(* now (chunking.rs:62, source.rs:74).                                     *)
ReadingMovesOn ==
    [][/\ Backup => Remaining' < Remaining
       /\ Remaining' > Remaining => writes' > writes]_vars

THEOREM BackupMovesOn == SafeSpec => ReadingMovesOn /\ [](Remaining \in Nat)
<1>1. ASSUME TypeOK, (Remaining \in Nat)', [Next]_vars
      PROVE  [/\ Backup => Remaining' < Remaining
              /\ Remaining' > Remaining => writes' > writes]_vars
  <2>1. Remaining \in Nat
    BY <1>1, RemainingNat
  <2>2. CASE Backup
    <3>1. Remaining' < Remaining
      BY <1>1, <2>2, BackupStep
    <3> QED
      BY <1>1, <2>1, <3>1
  <2>3. CASE Acts
    BY <1>1, <2>3, BackupStep DEF Acts, TypeOK
  <2>5. CASE IoError
    <3>1. Remaining' = 0
      BY <2>5 DEF IoError, Remaining
    <3> QED
      BY <1>1, <2>1, <3>1, BackupStep
  <2>4. CASE Tick
    <3>1. Remaining' = Remaining
      BY <2>4 DEF Tick, fileVars, Remaining, Unread
    <3> QED
      BY <1>1, <2>1, <3>1, BackupStep
  <2> QED
    BY <1>1, <2>2, <2>3, <2>4, <2>5 DEF Next, Others, Write, SetModified, MovePath
<1>2. TypeOK => Remaining \in Nat
  BY RemainingNat
<1>3. TypeOK /\ (Remaining \in Nat)' /\ [Next]_vars =>
        [/\ Backup => Remaining' < Remaining
         /\ Remaining' > Remaining => writes' > writes]_vars
  BY <1>1
<1> QED
  BY <1>2, <1>3, TypeCorrect, PTL DEF SafeSpec, ReadingMovesOn
=============================================================================
