----------------------------- MODULE RestoreProofs -----------------------------
(***************************************************************************)
(* Theorems about StoredChunk and Restore, for every set of calls, every   *)
(* backup, every damage to the chunk files and every header and word size. *)
(***************************************************************************)
EXTENDS Restore, WellFoundedInduction, TLAPS

USE DEF Goto, Stop, Empty

-----------------------------------------------------------------------------
(* The chunk header *)

(* Once around the word.                                                   *)
LEMMA ModOnce ==
    ASSUME NEW n \in Nat, NEW w \in Nat, n < w
    PROVE  (n + w) % w = n
OBVIOUS

(* A file that decode accepts is as long as its header says, although the  *)
(* sum it is compared with may wrap around: the wrapped sum is less than   *)
(* the header, and such files are too short (codec.rs:61 and 88).          *)
THEOREM DecodeExact ==
    ASSUME NEW f \in Frame, Decodes(f)
    PROVE  f.declared = PayloadLen(f)
<1> DEFINE sum == HeaderLen + f.declared
<1>1. /\ HeaderLen \in Nat /\ Word \in Nat /\ HeaderLen < Word
      /\ f.declared \in Nat /\ f.declared < Word
      /\ f.size \in Nat /\ f.size < Word
  BY StoredChunkAssumption DEF Frame, Length
<1>2. f.size >= HeaderLen /\ f.size = sum % Word
  BY DEF Decodes
<1>3. CASE sum < Word
  <2>1. sum % Word = sum
    BY <1>1, <1>3
  <2> QED
    BY <1>1, <1>2, <2>1 DEF PayloadLen
<1>4. CASE sum >= Word
  <2>1. sum - Word \in 0 .. Word - 1 /\ sum - Word < HeaderLen
    BY <1>1, <1>4
  <2>2. ((sum - Word) + Word) % Word = sum - Word
    BY <1>1, <2>1, ModOnce
  <2>3. sum \in Int /\ (sum - Word) + Word = sum
    BY <1>1
  <2>4. sum % Word = sum - Word
    BY <2>2, <2>3
  <2> QED
    BY <1>1, <1>2, <2>1, <2>4
<1> QED
  BY <1>1, <1>3, <1>4

(* What encode writes, decode accepts, with the same payload length.       *)
THEOREM EncodeDecodes ==
    ASSUME NEW tag \in KnownTag, NEW n \in Nat, HeaderLen + n < Word
    PROVE  /\ Encode(tag, n) \in Frame
           /\ Decodes(Encode(tag, n))
           /\ PayloadLen(Encode(tag, n)) = n
<1>1. HeaderLen \in Nat /\ Word \in Nat /\ KnownTag \subseteq Tag
  BY StoredChunkAssumption
<1>2. (HeaderLen + n) % Word = HeaderLen + n
  BY <1>1
<1> QED
  BY <1>1, <1>2 DEF Encode, Decodes, PayloadLen, Frame, Length

-----------------------------------------------------------------------------
(* The inductive invariant *)

(* A temporary file is a prefix of its backup, and when it is published,   *)
(* all of it and synced.                                                   *)
TempOK(p) ==
    /\ pc[p] = "write" =>
        /\ tmp[p] # Missing
        /\ tmp[p].by = p
        /\ Len(tmp[p].content) <= Len(Cids[p])
        /\ \A i \in 1 .. Len(tmp[p].content) : tmp[p].content[i] = Cids[p][i]
    /\ pc[p] \in {"publish", "rename"} =>
        tmp[p] = [by |-> p, content |-> Cids[p], synced |-> TRUE]
    /\ pc[p] = "rename" => p \notin Forced

TempsPrefix == \A p \in Proc : TempOK(p)

(* What may be at the target path, in memory or on the disk.               *)
Whole(file) ==
    \/ file = Missing
    \/ /\ file.synced
       /\ \/ file.by \in {User, Intruder}
          \/ /\ file.by \in Proc
             /\ pc[file.by] \in {"rename", "failed", "dead", "done"}
             /\ \/ file.content = Cids[file.by]
                \/ file = Empty(file.by) /\ file.by \notin Forced

(* Once a call has succeeded only a power loss brings its placeholder back. *)
PlaceholderOver ==
    powers = 0 /\ target # Missing /\ target.by \in Proc /\ pc[target.by] = "done" =>
        target.content = Cids[target.by]

(* Who has claimed the target, alone, if nobody has removed anything.      *)
Claimant(p) ==
    /\ p \in Proc \ Forced
    /\ \/ pc[p] = "rename"
       \/ powers = 0 /\ pc[p] = "done"

Claims ==
    removals = {} =>
        /\ \A p, q \in Proc : Claimant(p) /\ Claimant(q) => p = q
        /\ \A p \in Proc : Claimant(p) => target # Missing

(* Between its placeholder and its rename a restore is alone, but for      *)
(* forced ones and other programs, unless its placeholder was removed.     *)
Window ==
    "claimed" \notin removals =>
        /\ \A p, q \in Proc : pc[p] = "rename" /\ pc[q] = "rename" => p = q
        /\ \A p \in Proc : pc[p] = "rename" =>
            target # Missing /\ target.by \in Forced \cup {p, Intruder}

IInv ==
    /\ TypeOK /\ TempsPrefix /\ Whole(target) /\ Whole(disk)
    /\ PlaceholderOver /\ Claims /\ Window

LEMMA InitIInv == Init => IInv
<1> SUFFICES ASSUME Init PROVE IInv
  OBVIOUS
<1> USE RestoreAssumption
<1>1. TypeOK
  <2>1. \A c \in Cid : Stored(c) \in ChunkFile
    <3> SUFFICES ASSUME NEW c \in Cid PROVE Stored(c) \in ChunkFile
      OBVIOUS
    <3>1. Recorded[c].tag \in KnownTag /\ Recorded[c].length \in Nat
          /\ HeaderLen + Recorded[c].length < Word
      OBVIOUS
    <3>2. Encode(Recorded[c].tag, Recorded[c].length) \in Frame
      BY <3>1, EncodeDecodes
    <3> QED
      BY <3>2 DEF Stored, ChunkFile
  <2>2. total \in [Proc -> Nat]
    <3>1. \A p \in Proc : total[p] \in Nat
      BY DEF Init
    <3> QED
      BY <3>1 DEF Init
  <2>3. Empty(User) \in OutFile
    BY DEF OutFile
  <2>4. chunks \in [Cid -> ChunkFile \cup {Missing}]
    BY <2>1 DEF Init
  <2>5. target \in OutFile \cup {Missing} /\ disk \in OutFile \cup {Missing}
    BY <2>3 DEF Init
  <2> QED
    BY <2>2, <2>4, <2>5 DEF Init, TypeOK, PC, Running
<1>2. TempsPrefix
  BY DEF Init, TempsPrefix, TempOK
<1>3. Whole(target) /\ Whole(disk)
  BY DEF Init, Whole
<1>4. PlaceholderOver /\ Claims /\ Window
  BY DEF Init, PlaceholderOver, Claims, Claimant, Window
<1> QED
  BY <1>1, <1>2, <1>3, <1>4 DEF IInv

-----------------------------------------------------------------------------
(* Every step preserves it *)

(* A step of p does not disturb the others.                                *)
LEMMA TempsStep ==
    ASSUME TempsPrefix, NEW p \in Proc,
           \A q \in Proc \ {p} : tmp'[q] = tmp[q] /\ pc'[q] = pc[q],
           TempOK(p)'
    PROVE  TempsPrefix'
<1>1. ASSUME NEW q \in Proc \ {p} PROVE TempOK(q)'
  BY <1>1 DEF TempsPrefix, TempOK
<1> QED
  BY <1>1 DEF TempsPrefix

(* A step of p that leaves the directory alone and does not claim.         *)
LEMMA QuietStep ==
    ASSUME IInv, NEW p \in Proc,
           UNCHANGED <<target, disk, powers, removals>>,
           \A q \in Proc \ {p} : pc'[q] = pc[q],
           pc[p] \in Running,
           pc'[p] \notin {"rename", "done"},
           pc[p] = "rename" => pc'[p] \in {"failed", "dead"}
    PROVE  Whole(target)' /\ Whole(disk)' /\ PlaceholderOver' /\ Claims' /\ Window'
<1>1. Whole(target)' /\ Whole(disk)'
  BY DEF IInv, Whole, Running
<1>2. PlaceholderOver'
  BY DEF IInv, PlaceholderOver, Running
<1>3. \A q \in Proc : Claimant(q)' => Claimant(q)
  BY DEF Claimant
<1>4. Claims'
  BY <1>3 DEF IInv, Claims
<1>5. \A q \in Proc : pc'[q] = "rename" => pc[q] = "rename"
  OBVIOUS
<1>6. Window'
  BY <1>5 DEF IInv, Window
<1> QED
  BY <1>1, <1>2, <1>4, <1>6

LEMMA VerifyChunkIInv == ASSUME IInv, NEW p \in Proc, VerifyChunk(p) PROVE IInv'
<1> DEFINE c == Cids[p][checked[p] + 1]
<1>1. TypeOK /\ TempsPrefix
  BY DEF IInv
<1>2. /\ UNCHANGED <<target, disk, tmp, pc, chunks, total, changes, powers, removals>>
      /\ checked[p] < Len(Cids[p])
      /\ bytes' = [bytes EXCEPT ![p] = @ + RawLen[c]]
      /\ checked' = [checked EXCEPT ![p] = @ + 1]
  BY DEF VerifyChunk, fileVars, worldVars
<1>3. RawLen[c] \in Nat
  <2>1. Cids[p] \in Seq(Cid) /\ RawLen \in [Cid -> Nat]
    BY RestoreAssumption
  <2>2. checked[p] + 1 \in 1 .. Len(Cids[p])
    BY <1>1, <1>2, <2>1 DEF TypeOK
  <2> QED
    BY <2>1, <2>2
<1> HIDE DEF c
<1>4. bytes' \in [Proc -> Nat] /\ checked' \in [Proc -> Nat]
  BY <1>1, <1>2, <1>3 DEF TypeOK
<1>5. TypeOK'
  BY <1>1, <1>2, <1>4 DEF TypeOK
<1>6. TempsPrefix'
  BY <1>1, <1>2 DEF TempsPrefix, TempOK
<1>7. Whole(target)' /\ Whole(disk)' /\ PlaceholderOver' /\ Claims' /\ Window'
  BY <1>2 DEF IInv, Whole, PlaceholderOver, Claims, Claimant, Window
<1> QED
  BY <1>5, <1>6, <1>7 DEF IInv

LEMMA CreateTempIInv == ASSUME IInv, NEW p \in Proc, CreateTemp(p) PROVE IInv'
<1> DEFINE file == [by |-> p, content |-> <<>>, synced |-> FALSE]
<1>1. TypeOK /\ TempsPrefix
  BY DEF IInv
<1>2. /\ tmp' = [tmp EXCEPT ![p] = file]
      /\ pc' = [pc EXCEPT ![p] = "write"]
      /\ checked' = [checked EXCEPT ![p] = 0]
      /\ bytes' = [bytes EXCEPT ![p] = 0]
      /\ pc[p] = "verify"
      /\ UNCHANGED <<target, disk, chunks, total, changes, powers, removals>>
  BY DEF CreateTemp, worldVars
<1>3. /\ file \in OutFile /\ file # Missing /\ file.by = p /\ Len(file.content) = 0
      /\ Len(Cids[p]) \in Nat
  <2>1. Missing \notin OutFile /\ Cids[p] \in Seq(Cid)
    BY RestoreAssumption
  <2>2. file \in OutFile /\ file.by = p /\ file.content = <<>>
    BY DEF OutFile
  <2>3. Len(file.content) = 0
    BY <2>2
  <2> HIDE DEF file
  <2> QED
    BY <2>1, <2>2, <2>3
<1> HIDE DEF file
<1>4. TypeOK'
  BY <1>1, <1>2, <1>3 DEF TypeOK, PC, Running
<1>5. TempsPrefix'
  <2>1. tmp'[p] = file /\ pc'[p] = "write"
    BY <1>1, <1>2 DEF TypeOK
  <2>2. \A q \in Proc \ {p} : tmp'[q] = tmp[q] /\ pc'[q] = pc[q]
    BY <1>1, <1>2 DEF TypeOK
  <2>3. TempOK(p)'
    BY <1>3, <2>1 DEF TempOK
  <2> QED
    BY <1>1, <2>2, <2>3, TempsStep
<1>6. Whole(target)' /\ Whole(disk)' /\ PlaceholderOver' /\ Claims' /\ Window'
  BY <1>1, <1>2, QuietStep DEF TypeOK, Running
<1> QED
  BY <1>4, <1>5, <1>6 DEF IInv

LEMMA WriteChunkIInv == ASSUME IInv, NEW p \in Proc, WriteChunk(p) PROVE IInv'
<1> DEFINE s == tmp[p].content
           c == Cids[p][Len(s) + 1]
<1>1. TypeOK /\ TempsPrefix
  BY DEF IInv
<1>2. /\ pc[p] = "write" /\ Len(s) < Len(Cids[p])
      /\ UNCHANGED <<target, disk, pc, checked, chunks, total, changes, powers, removals>>
  BY DEF WriteChunk, worldVars
<1>3. /\ tmp[p] \in OutFile /\ tmp[p].by = p
      /\ s \in Seq(Cid)
      /\ \A i \in 1 .. Len(s) : s[i] = Cids[p][i]
  <2>1. TempOK(p) /\ tmp[p] \in OutFile \cup {Missing}
    BY <1>1 DEF TypeOK, TempsPrefix
  <2>2. tmp[p] \in OutFile /\ tmp[p].by = p
    BY <1>2, <2>1 DEF TempOK
  <2>3. s \in Seq(Cid)
    BY <2>2 DEF OutFile
  <2>4. \A i \in 1 .. Len(s) : s[i] = Cids[p][i]
    BY <1>2, <2>1 DEF TempOK
  <2> QED
    BY <2>2, <2>3, <2>4
<1>4. Cids[p] \in Seq(Cid) /\ RawLen \in [Cid -> Nat] /\ Missing \notin OutFile
  BY RestoreAssumption
<1>5. c \in Cid /\ RawLen[c] \in Nat
  BY <1>2, <1>3, <1>4
<1>6. /\ tmp' = [tmp EXCEPT ![p].content = Append(s, c)]
      /\ bytes' = [bytes EXCEPT ![p] = @ + RawLen[c]]
  BY DEF WriteChunk, HashesTo
<1> DEFINE t == Append(s, c)
<1>7. /\ t \in Seq(Cid) /\ Len(t) = Len(s) + 1
      /\ \A i \in 1 .. Len(s) : t[i] = s[i]
      /\ t[Len(s) + 1] = c
  BY <1>3, <1>5
<1>8. /\ tmp'[p] \in OutFile /\ tmp'[p].content = t /\ tmp'[p].by = p
      /\ \A q \in Proc \ {p} : tmp'[q] = tmp[q]
  BY <1>1, <1>3, <1>6, <1>7 DEF OutFile, TypeOK
<1>9. TypeOK'
  <2>1. bytes' \in [Proc -> Nat]
    BY <1>1, <1>5, <1>6 DEF TypeOK
  <2>2. tmp' \in [Proc -> OutFile \cup {Missing}]
    BY <1>1, <1>6, <1>8 DEF TypeOK
  <2> QED
    BY <1>1, <1>2, <2>1, <2>2 DEF TypeOK
<1>10. TempsPrefix'
  <2>1. \A i \in 1 .. Len(t) : t[i] = Cids[p][i]
    <3> HIDE DEF t
    <3>1. \A i \in 1 .. Len(t) : i \in 1 .. Len(s) \/ i = Len(s) + 1
      BY <1>3, <1>7
    <3> QED
      BY <1>3, <1>7, <3>1
  <2>2. Len(t) <= Len(Cids[p])
    BY <1>2, <1>3, <1>4, <1>7
  <2> HIDE DEF t
  <2>3. TempOK(p)'
    BY <1>2, <1>4, <1>8, <2>1, <2>2 DEF TempOK
  <2> QED
    BY <1>1, <1>2, <1>8, <2>3, TempsStep
<1>11. Whole(target)' /\ Whole(disk)' /\ PlaceholderOver' /\ Claims' /\ Window'
  BY <1>2 DEF IInv, Whole, PlaceholderOver, Claims, Claimant, Window
<1> QED
  BY <1>9, <1>10, <1>11 DEF IInv

LEMMA SyncIInv == ASSUME IInv, NEW p \in Proc, Sync(p) PROVE IInv'
<1> DEFINE s == tmp[p].content
<1>1. TypeOK /\ TempsPrefix
  BY DEF IInv
<1>2. /\ pc[p] = "write" /\ Len(s) = Len(Cids[p])
      /\ tmp' = [tmp EXCEPT ![p].synced = TRUE]
      /\ pc' = [pc EXCEPT ![p] = "publish"]
      /\ UNCHANGED <<target, disk, checked, bytes, chunks, total, changes, powers, removals>>
  BY DEF Sync, worldVars
<1>3. /\ tmp[p] \in OutFile /\ tmp[p].by = p
      /\ s \in Seq(Cid)
      /\ \A i \in 1 .. Len(s) : s[i] = Cids[p][i]
  <2>1. TempOK(p) /\ tmp[p] \in OutFile \cup {Missing}
    BY <1>1 DEF TypeOK, TempsPrefix
  <2>2. tmp[p] \in OutFile /\ tmp[p].by = p
    BY <1>2, <2>1 DEF TempOK
  <2>3. s \in Seq(Cid)
    BY <2>2 DEF OutFile
  <2>4. \A i \in 1 .. Len(s) : s[i] = Cids[p][i]
    BY <1>2, <2>1 DEF TempOK
  <2> QED
    BY <2>2, <2>3, <2>4
<1>4. s = Cids[p]
  <2>1. Cids[p] \in Seq(Cid)
    BY RestoreAssumption
  <2> QED
    BY <1>2, <1>3, <2>1
<1>5. /\ tmp'[p] = [by |-> p, content |-> Cids[p], synced |-> TRUE]
      /\ tmp'[p] \in OutFile
      /\ \A q \in Proc \ {p} : tmp'[q] = tmp[q]
  BY <1>1, <1>2, <1>3, <1>4 DEF OutFile, TypeOK
<1>6. TypeOK'
  <2>1. tmp' \in [Proc -> OutFile \cup {Missing}]
    BY <1>1, <1>2, <1>5 DEF TypeOK
  <2> QED
    BY <1>1, <1>2, <2>1 DEF TypeOK, PC, Running
<1>7. TempsPrefix'
  <2>1. pc'[p] = "publish" /\ \A q \in Proc \ {p} : pc'[q] = pc[q]
    BY <1>1, <1>2 DEF TypeOK
  <2>2. TempOK(p)'
    BY <1>5, <2>1 DEF TempOK
  <2> QED
    BY <1>1, <1>5, <2>1, <2>2, TempsStep
<1>8. Whole(target)' /\ Whole(disk)' /\ PlaceholderOver' /\ Claims' /\ Window'
  BY <1>1, <1>2, QuietStep DEF TypeOK, Running
<1> QED
  BY <1>6, <1>7, <1>8 DEF IInv

(* A rename: the target becomes the whole of p's backup.                   *)
LEMMA PublishIInv ==
    ASSUME IInv, NEW p \in Proc, Publish(p),
           pc[p] = IF p \in Forced THEN "publish" ELSE "rename"
    PROVE  IInv'
<1>1. TypeOK /\ TempsPrefix /\ TempOK(p) /\ Claims
  BY DEF IInv, TempsPrefix
<1>2. /\ tmp[p] = [by |-> p, content |-> Cids[p], synced |-> TRUE]
      /\ tmp[p] \in OutFile /\ tmp[p] # Missing
  <2>1. Missing \notin OutFile /\ Cids[p] \in Seq(Cid)
    BY RestoreAssumption
  <2>2. tmp[p] = [by |-> p, content |-> Cids[p], synced |-> TRUE]
    BY <1>1 DEF TempOK
  <2>3. tmp[p] \in OutFile
    BY <2>1, <2>2 DEF OutFile
  <2> QED
    BY <2>1, <2>2, <2>3
<1>3. /\ target' = tmp[p]
      /\ tmp' = [tmp EXCEPT ![p] = Missing]
      /\ pc' = [pc EXCEPT ![p] = "done"]
      /\ checked' = [checked EXCEPT ![p] = 0]
      /\ bytes' = [bytes EXCEPT ![p] = 0]
      /\ UNCHANGED <<disk, chunks, total, changes, powers, removals>>
  BY DEF Publish, worldVars
<1>4. /\ pc'[p] = "done"
      /\ \A q \in Proc \ {p} : tmp'[q] = tmp[q] /\ pc'[q] = pc[q]
  BY <1>1, <1>3 DEF TypeOK
<1>5. TypeOK'
  <2>1. target' \in OutFile \cup {Missing}
    BY <1>2, <1>3
  <2> QED
    BY <1>1, <1>3, <2>1 DEF TypeOK, PC, Running
<1>6. TempsPrefix'
  <2>1. TempOK(p)'
    BY <1>4 DEF TempOK
  <2> QED
    BY <1>1, <1>4, <2>1, TempsStep
<1>7. Whole(target)'
  BY <1>2, <1>3, <1>4 DEF Whole
<1>8. Whole(disk)'
  <2>1. disk # Missing /\ disk.by \in Proc /\ disk.by # p => pc'[disk.by] = pc[disk.by]
    BY <1>4
  <2> QED
    BY <1>3, <1>4, <2>1 DEF IInv, Whole
<1>9. PlaceholderOver'
  BY <1>2, <1>3 DEF PlaceholderOver
<1>10. target' # Missing /\ target'.by = p
  BY <1>2, <1>3
<1>11. Claims'
  <2>1. \A q \in Proc : Claimant(q)' => Claimant(q)
    BY <1>3, <1>4 DEF Claimant
  <2> QED
    BY <1>1, <1>3, <1>10, <2>1 DEF Claims
<1>12. Window'
  <2>1. \A q \in Proc : pc'[q] = "rename" => q # p /\ pc[q] = "rename"
    BY <1>4
  <2>2. p \notin Forced => pc[p] = "rename"
    OBVIOUS
  <2> QED
    BY <1>3, <1>10, <2>1, <2>2 DEF IInv, Window
<1> QED
  BY <1>5, <1>6, <1>7, <1>8, <1>9, <1>11, <1>12 DEF IInv

LEMMA ClaimIInv == ASSUME IInv, NEW p \in Proc, Claim(p) PROVE IInv'
<1>1. TypeOK /\ TempsPrefix /\ TempOK(p) /\ Claims
  BY DEF IInv, TempsPrefix
<1>2. /\ pc[p] = "publish" /\ p \notin Forced /\ target = Missing
      /\ target' = Empty(p)
      /\ pc' = [pc EXCEPT ![p] = "rename"]
      /\ UNCHANGED <<disk, tmp, checked, bytes, chunks, total, changes, powers, removals>>
  BY DEF Claim, worldVars
<1>3. Empty(p) \in OutFile /\ Empty(p) # Missing /\ Empty(p).by = p
  <2>1. Missing \notin OutFile
    BY RestoreAssumption
  <2>2. Empty(p) \in OutFile /\ Empty(p).by = p
    BY DEF OutFile
  <2> QED
    BY <2>1, <2>2
<1>4. /\ pc'[p] = "rename"
      /\ \A q \in Proc \ {p} : tmp'[q] = tmp[q] /\ pc'[q] = pc[q]
  BY <1>1, <1>2 DEF TypeOK
<1>5. TypeOK'
  BY <1>1, <1>2, <1>3 DEF TypeOK, PC, Running
<1>6. TempsPrefix'
  <2>1. TempOK(p)'
    BY <1>1, <1>2, <1>4 DEF TempOK
  <2> QED
    BY <1>1, <1>4, <2>1, TempsStep
<1>7. Whole(target)'
  BY <1>2, <1>4 DEF Whole
<1>8. Whole(disk)'
  <2>1. disk # Missing /\ disk.by \in Proc /\ disk.by # p => pc'[disk.by] = pc[disk.by]
    BY <1>4
  <2> QED
    BY <1>2, <1>4, <2>1 DEF IInv, Whole
<1>9. PlaceholderOver'
  BY <1>2, <1>4 DEF PlaceholderOver
<1>10. target' # Missing /\ target'.by = p
  BY <1>2, <1>3
<1>11. Claims'
  <2>1. removals = {} => \A q \in Proc : ~Claimant(q)
    BY <1>1, <1>2 DEF Claims
  <2>2. removals = {} => \A q \in Proc \ {p} : ~Claimant(q)'
    BY <1>2, <1>4, <2>1 DEF Claimant
  <2> QED
    BY <1>2, <1>10, <2>2 DEF Claims, Claimant
<1>12. Window'
  <2>1. "claimed" \notin removals => \A q \in Proc : pc[q] # "rename"
    BY <1>2 DEF IInv, Window
  <2> QED
    BY <1>2, <1>4, <1>10, <2>1 DEF Window
<1> QED
  BY <1>5, <1>6, <1>7, <1>8, <1>9, <1>11, <1>12 DEF IInv

(* p ends without success, refused, failed or dead.                        *)
LEMMA StopIInv ==
    ASSUME IInv, NEW p \in Proc, NEW how \in {"refused", "failed", "dead"},
           pc[p] \in Running,
           pc[p] = "rename" => how # "refused",
           Stop(p, how), UNCHANGED <<target, disk, worldVars>>
    PROVE  IInv'
<1>1. TypeOK /\ TempsPrefix
  BY DEF IInv
<1>2. /\ pc' = [pc EXCEPT ![p] = how]
      /\ tmp' = [tmp EXCEPT ![p] = Missing]
      /\ checked' = [checked EXCEPT ![p] = 0]
      /\ bytes' = [bytes EXCEPT ![p] = 0]
      /\ UNCHANGED <<target, disk, chunks, total, changes, powers, removals>>
  BY DEF worldVars
<1>3. /\ pc'[p] = how
      /\ \A q \in Proc \ {p} : tmp'[q] = tmp[q] /\ pc'[q] = pc[q]
  BY <1>1, <1>2 DEF TypeOK
<1>4. TypeOK'
  BY <1>1, <1>2 DEF TypeOK, PC, Running
<1>5. TempsPrefix'
  <2>1. TempOK(p)'
    BY <1>3 DEF TempOK
  <2> QED
    BY <1>1, <1>3, <2>1, TempsStep
<1>6. Whole(target)' /\ Whole(disk)' /\ PlaceholderOver' /\ Claims' /\ Window'
  BY <1>2, <1>3, QuietStep
<1> QED
  BY <1>4, <1>5, <1>6 DEF IInv

LEMMA UserPutsIInv == ASSUME IInv, UserPuts PROVE IInv'
<1> DEFINE who == IF Claimed THEN Intruder ELSE User
           file == Empty(who)
<1>1. /\ target' = file
      /\ UNCHANGED <<disk, tmp, pc, checked, bytes, chunks, total, changes, powers, removals>>
  BY DEF UserPuts, localVars, worldVars
<1>2. /\ file \in OutFile /\ file # Missing /\ file.by = who /\ file.synced
      /\ who \in {User, Intruder} /\ who \notin Proc
      /\ Claimed => who = Intruder
  <2>1. User \notin Proc /\ Intruder \notin Proc /\ Missing \notin OutFile
    BY RestoreAssumption
  <2>2. file \in OutFile /\ file.by = who /\ file.synced
    BY DEF OutFile
  <2> QED
    BY <2>1, <2>2
<1> HIDE DEF who, file
<1>3. TypeOK'
  BY <1>1, <1>2 DEF IInv, TypeOK
<1>4. TempsPrefix'
  BY <1>1 DEF IInv, TempsPrefix, TempOK
<1>5. Whole(target)' /\ Whole(disk)'
  BY <1>1, <1>2 DEF IInv, Whole
<1>6. PlaceholderOver'
  BY <1>1, <1>2 DEF PlaceholderOver
<1>7. Claims'
  BY <1>1, <1>2 DEF IInv, Claims, Claimant
<1>8. Window'
  BY <1>1, <1>2 DEF IInv, Window, Claimed
<1> QED
  BY <1>3, <1>4, <1>5, <1>6, <1>7, <1>8 DEF IInv

LEMMA UserRemovesIInv == ASSUME IInv, UserRemoves PROVE IInv'
<1>1. /\ target' = Missing
      /\ removals' = removals \cup {IF Claimed THEN "claimed" ELSE "idle"}
      /\ UNCHANGED <<disk, tmp, pc, checked, bytes, chunks, total, changes, powers>>
  BY DEF UserRemoves, localVars
<1>2. removals' # {}
  BY <1>1
<1>3. "claimed" \notin removals' => \A p \in Proc : pc[p] # "rename"
  BY <1>1 DEF Claimed
<1>4. TypeOK'
  BY <1>1 DEF IInv, TypeOK
<1>5. TempsPrefix'
  BY <1>1 DEF IInv, TempsPrefix, TempOK
<1>6. Whole(target)' /\ Whole(disk)'
  BY <1>1 DEF IInv, Whole
<1>7. PlaceholderOver' /\ Claims'
  BY <1>1, <1>2 DEF PlaceholderOver, Claims
<1>8. Window'
  BY <1>1, <1>3 DEF Window
<1> QED
  BY <1>4, <1>5, <1>6, <1>7, <1>8 DEF IInv

LEMMA ChunkChangesIInv == ASSUME IInv, NEW c \in Cid, ChunkChanges(c) PROVE IInv'
<1>1. /\ changes < MaxChanges /\ changes' = changes + 1
      /\ UNCHANGED <<target, disk, tmp, pc, checked, bytes, total, powers, removals>>
  BY DEF ChunkChanges, fileVars, localVars
<1>2. PICK file \in Found[c] : chunks' = [chunks EXCEPT ![c] = file]
  BY DEF ChunkChanges
<1>3. file \in ChunkFile \cup {Missing} /\ MaxChanges \in Nat
  BY RestoreAssumption
<1>4. TypeOK'
  BY <1>1, <1>2, <1>3 DEF IInv, TypeOK
<1>5. TempsPrefix'
  BY <1>1 DEF IInv, TempsPrefix, TempOK
<1>6. Whole(target)' /\ Whole(disk)' /\ PlaceholderOver' /\ Claims' /\ Window'
  BY <1>1 DEF IInv, Whole, PlaceholderOver, Claims, Claimant, Window
<1> QED
  BY <1>4, <1>5, <1>6 DEF IInv

LEMMA WriteBackIInv == ASSUME IInv, WriteBack PROVE IInv'
<1>1. /\ disk' = target
      /\ UNCHANGED <<target, tmp, pc, checked, bytes, chunks, total, changes, powers, removals>>
  BY DEF WriteBack, localVars, worldVars
<1>2. TypeOK'
  BY <1>1 DEF IInv, TypeOK
<1>3. TempsPrefix'
  BY <1>1 DEF IInv, TempsPrefix, TempOK
<1>4. Whole(target)' /\ Whole(disk)' /\ PlaceholderOver' /\ Claims' /\ Window'
  BY <1>1 DEF IInv, Whole, PlaceholderOver, Claims, Claimant, Window
<1> QED
  BY <1>2, <1>3, <1>4 DEF IInv

(* Only synced files are ever under the target's name, so that a power     *)
(* loss chooses between whole files; and it leaves nobody who claims it.   *)
LEMMA PowerLossIInv == ASSUME IInv, PowerLoss PROVE IInv'
<1>1. /\ powers < MaxPowerLosses /\ powers' = powers + 1 /\ disk' = target'
      /\ target' \in Remains(target) \cup Remains(disk)
      /\ pc' = [p \in Proc |-> IF pc[p] \in Running /\ ~Fresh(p) THEN "dead" ELSE pc[p]]
      /\ tmp' = [p \in Proc |-> Missing]
      /\ checked' = [p \in Proc |-> 0]
      /\ bytes' = [p \in Proc |-> 0]
      /\ UNCHANGED <<chunks, total, changes, removals>>
  BY DEF PowerLoss
<1>2. target' \in {target, disk}
  BY <1>1 DEF IInv, Whole, Remains
<1>3. powers' \in Nat /\ powers' # 0 /\ powers' <= MaxPowerLosses
  BY <1>1, RestoreAssumption DEF IInv, TypeOK
<1>4. \A p \in Proc :
        \/ pc'[p] = "verify"
        \/ pc'[p] = "dead"
        \/ pc'[p] = pc[p] /\ pc[p] \notin Running
  BY <1>1 DEF Fresh
<1>5. TypeOK'
  <2>1. pc' \in [Proc -> PC]
    BY <1>1 DEF IInv, TypeOK, PC, Running
  <2>2. target' \in OutFile \cup {Missing}
    BY <1>2 DEF IInv, TypeOK
  <2>3. powers' \in 0 .. MaxPowerLosses
    BY <1>3, RestoreAssumption
  <2> QED
    BY <1>1, <2>1, <2>2, <2>3 DEF IInv, TypeOK
<1>6. TempsPrefix'
  BY <1>4 DEF TempsPrefix, TempOK, Running
<1>7. Whole(target)' /\ Whole(disk)'
  <2>1. \A p \in Proc : pc[p] \in {"rename", "failed", "dead", "done"} =>
            pc'[p] \in {"rename", "failed", "dead", "done"}
    BY <1>1 DEF Fresh
  <2>2. ASSUME NEW file, Whole(file), target' = file PROVE Whole(target)'
    BY <2>1, <2>2 DEF Whole
  <2>3. Whole(target)'
    BY <1>2, <2>2 DEF IInv
  <2> QED
    BY <1>1, <2>3 DEF Whole
<1>8. PlaceholderOver'
  BY <1>3 DEF PlaceholderOver
<1>9. Claims' /\ Window'
  <2>1. \A p \in Proc : ~Claimant(p)' /\ pc'[p] # "rename"
    BY <1>3, <1>4 DEF Claimant, Running
  <2> QED
    BY <2>1 DEF Claims, Window
<1> QED
  BY <1>5, <1>6, <1>7, <1>8, <1>9 DEF IInv

LEMMA NextIInv == ASSUME IInv, [Next]_vars PROVE IInv'
<1>1. ASSUME NEW p \in Proc, ProcStep(p) PROVE IInv'
  <2>1. CASE VerifyChunk(p)
    BY <2>1, VerifyChunkIInv
  <2>2. CASE CreateTemp(p)
    BY <2>2, CreateTempIInv
  <2>3. CASE WriteChunk(p)
    BY <2>3, WriteChunkIInv
  <2>4. CASE Sync(p)
    BY <2>4, SyncIInv
  <2>5. CASE Replace(p)
    BY <2>5, PublishIInv DEF Replace
  <2>6. CASE Claim(p)
    BY <2>6, ClaimIInv
  <2>7. CASE Rename(p)
    <3>1. p \notin Forced
      BY <2>7 DEF Rename, IInv, TempsPrefix, TempOK
    <3> QED
      BY <2>7, <3>1, PublishIInv DEF Rename
  <2>8. CASE Refused(p)
    <3>1. /\ pc[p] = "publish" /\ Stop(p, "refused")
          /\ UNCHANGED <<target, disk, worldVars>>
      BY <2>8 DEF Refused
    <3>2. pc[p] \in Running /\ pc[p] # "rename"
      BY <3>1 DEF Running
    <3> QED
      BY <3>1, <3>2, StopIInv
  <2>9. CASE Fail(p)
    BY <2>9, StopIInv DEF Fail
  <2> QED
    BY <1>1, <2>1, <2>2, <2>3, <2>4, <2>5, <2>6, <2>7, <2>8, <2>9 DEF ProcStep
<1>2. ASSUME NEW p \in Proc, Crash(p) PROVE IInv'
  BY <1>2, StopIInv DEF Crash
<1>3. ASSUME NEW c \in Cid, ChunkChanges(c) PROVE IInv'
  BY <1>3, ChunkChangesIInv
<1>4. CASE UNCHANGED vars
  <2>1. UNCHANGED <<target, disk, tmp, pc, checked, bytes, chunks, total, changes, powers, removals>>
    BY <1>4 DEF vars, fileVars, localVars, worldVars
  <2> QED
    BY <2>1 DEF IInv, TypeOK, TempsPrefix, TempOK, Whole, PlaceholderOver, Claims, Claimant, Window
<1> QED
  BY <1>1, <1>2, <1>3, <1>4, UserPutsIInv, UserRemovesIInv, WriteBackIInv, PowerLossIInv
     DEF Next, Environment

-----------------------------------------------------------------------------
(* The theorems *)

(* The invariant holds in every behaviour.                                 *)
THEOREM Invariance == Spec => []IInv
<1>1. Init => IInv
  BY InitIInv
<1>2. IInv /\ [Next]_vars => IInv'
  BY NextIInv
<1> QED
  BY <1>1, <1>2, PTL DEF Spec

(* Types.                                                                  *)
THEOREM TypeCorrect == Spec => []TypeOK
<1>1. IInv => TypeOK
  BY DEF IInv
<1> QED
  BY <1>1, Invariance, PTL

(* At the target path there is never a part of a backup, whatever fails,   *)
(* dies, decays or loses power (engine.rs:512-536).                        *)
THEOREM TargetAlwaysWhole == Spec => []TargetWhole
<1>1. IInv => TargetWhole
  <2> SUFFICES ASSUME IInv, target # Missing, target.by \notin {User, Intruder}, target.content # Cids[target.by]
               PROVE  /\ target = Empty(target.by)
                      /\ target.by \notin Forced
                      /\ pc[target.by] \in {"rename", "failed", "dead"} \/ powers > 0
    BY DEF TargetWhole
  <2>1. /\ target = Empty(target.by) /\ target.by \notin Forced /\ target.by \in Proc
        /\ pc[target.by] \in {"rename", "failed", "dead", "done"}
    BY DEF IInv, Whole
  <2>2. powers = 0 => pc[target.by] # "done"
    BY <2>1 DEF IInv, PlaceholderOver
  <2>3. powers \in Nat
    BY RestoreAssumption DEF IInv, TypeOK
  <2> QED
    BY <2>1, <2>2, <2>3
<1> QED
  BY <1>1, Invariance, PTL

(* Only one restore without --force into one path succeeds (engine.rs:515). *)
THEOREM AtMostOneWinner == Spec => []OneWinner
<1>1. IInv => OneWinner
  BY DEF IInv, Claims, Claimant, OneWinner
<1> QED
  BY <1>1, Invariance, PTL

(* The window between the placeholder and the rename (engine.rs:515-522)   *)
(* costs nobody a file that was there before, nor the result of another    *)
(* restore without --force.                                                *)
THEOREM LosesOnlyLate == Spec => OnlyLateLost
<1>1. ASSUME IInv, NEW p \in Proc \ Forced, Rename(p), "claimed" \notin removals
      PROVE  target # Missing /\ target.by \in Forced \cup {p, Intruder}
  BY <1>1 DEF Rename, IInv, Window
<1>2. IInv /\ [Next]_vars =>
        [\A p \in Proc \ Forced :
            Rename(p) /\ "claimed" \notin removals =>
                target # Missing /\ target.by \in Forced \cup {p, Intruder}]_vars
  BY <1>1
<1> QED
  BY <1>2, Invariance, PTL DEF Spec, OnlyLateLost

(* Neither verify nor restore takes a file for a chunk whose header and    *)
(* size disagree.                                                          *)
THEOREM ReadsOnlyExact == Spec => ReadsExact
<1>1. ASSUME IInv, NEW p \in Proc, NEW c \in Cid, Reads(p, c)
      PROVE  chunks[c].frame.declared = PayloadLen(chunks[c].frame)
  <2>1. chunks[c] # Missing /\ Decodes(chunks[c].frame)
    BY <1>1 DEF Reads, VerifyChunk, WriteChunk, HashesTo
  <2>2. chunks[c].frame \in Frame
    BY <1>1, <2>1 DEF IInv, TypeOK, ChunkFile
  <2> QED
    BY <2>1, <2>2, DecodeExact
<1>2. IInv /\ [Next]_vars =>
        [\A p \in Proc, c \in Cid :
            Reads(p, c) => chunks[c].frame.declared = PayloadLen(chunks[c].frame)]_vars
  BY <1>1
<1> QED
  BY <1>2, Invariance, PTL DEF Spec, ReadsExact

-----------------------------------------------------------------------------
(* Lengths: sums over the chunks of a backup, which a recursive function   *)
(* adds up, and the counter `bytes` chunk by chunk.                        *)

LEMMA LeastElement ==
    ASSUME NEW T \in SUBSET Nat, T # {}
    PROVE  \E n \in T : \A m \in T : n <= m
<1> DEFINE R == OpToRel(<, Nat)
<1>1. IsWellFoundedOn(R, Nat)
  BY NatLessThanWellFounded
<1>2. \A x, y \in Nat : x < y => <<x, y>> \in R
  BY DEF OpToRel
<1> HIDE DEF R
<1>3. PICK n \in T : \A m \in T : ~(<<m, n>> \in R)
  BY <1>1, WFMin
<1>4. ASSUME NEW m \in T PROVE n <= m
  <2>1. m \in Nat /\ n \in Nat /\ ~(m < n)
    BY <1>2, <1>3
  <2> QED
    BY <2>1
<1> QED
  BY <1>4

LEMMA SetInduction ==
    ASSUME NEW T \in SUBSET Nat, 0 \in T, \A n \in T : n + 1 \in T
    PROVE  T = Nat
<1> SUFFICES ASSUME Nat \ T # {} PROVE FALSE
  OBVIOUS
<1>1. PICK n \in Nat \ T : \A m \in Nat \ T : n <= m
  BY LeastElement
<1>2. n # 0 /\ n - 1 \in Nat
  BY <1>1
<1>3. n - 1 \in T
  BY <1>1, <1>2
<1> QED
  BY <1>1, <1>2, <1>3

(* What the recursive definition of Sums says of a function f up to m.     *)
AddsUp(s, f, m) == f = [n \in 0 .. m |-> IF n = 0 THEN 0 ELSE f[n - 1] + RawLen[s[n]]]

(* There is such a function, by induction on m: the one for m + 1 goes on  *)
(* where the one for m stops.                                              *)
LEMMA AddsUpExists ==
    ASSUME NEW s, NEW m \in Nat
    PROVE  \E f : AddsUp(s, f, m)
<1> DEFINE T == {k \in Nat : \E f : AddsUp(s, f, k)}
<1>1. 0 \in T
  <2>1. AddsUp(s, [n \in 0 .. 0 |-> 0], 0)
    BY DEF AddsUp
  <2> QED
    BY <2>1
<1>2. ASSUME NEW k \in T PROVE k + 1 \in T
  <2>1. k \in Nat /\ \E f : AddsUp(s, f, k)
    OBVIOUS
  <2>2. PICK f : AddsUp(s, f, k)
    BY <2>1
  <2> DEFINE g == [n \in 0 .. k + 1 |-> IF n <= k THEN f[n] ELSE f[k] + RawLen[s[k + 1]]]
  <2>3. \A n \in 0 .. k + 1 : g[n] = IF n = 0 THEN 0 ELSE g[n - 1] + RawLen[s[n]]
    <3> SUFFICES ASSUME NEW n \in 0 .. k + 1
                 PROVE  g[n] = IF n = 0 THEN 0 ELSE g[n - 1] + RawLen[s[n]]
      OBVIOUS
    <3>1. CASE n = 0
      BY <2>1, <2>2, <3>1 DEF AddsUp
    <3>2. CASE n \in 1 .. k
      <4>1. n - 1 \in 0 .. k /\ n \in 0 .. k /\ n - 1 \in 0 .. k + 1 /\ n # 0
        BY <2>1, <3>2
      <4>2. f[n] = f[n - 1] + RawLen[s[n]]
        BY <2>2, <4>1 DEF AddsUp
      <4>3. g[n] = f[n] /\ g[n - 1] = f[n - 1]
        BY <2>1, <4>1
      <4> QED
        BY <4>1, <4>2, <4>3
    <3>3. CASE n = k + 1
      BY <2>1, <3>3
    <3> QED
      BY <2>1, <3>1, <3>2, <3>3
  <2>4. AddsUp(s, g, k + 1)
    BY <2>3 DEF AddsUp
  <2> QED
    BY <2>1, <2>4
<1> HIDE DEF T
<1>3. T \in SUBSET Nat
  BY DEF T
<1>4. T = Nat
  BY <1>1, <1>2, <1>3, SetInduction
<1> QED
  BY <1>4 DEF T

(* So Sums(s) is one: it starts at 0 and every chunk adds its length.      *)
LEMMA SumsAddUp ==
    ASSUME NEW s \in Seq(Cid)
    PROVE  /\ Sums(s)[0] = 0
           /\ \A n \in 0 .. Len(s) - 1 : Sums(s)[n + 1] = Sums(s)[n] + RawLen[s[n + 1]]
<1> DEFINE sum == Sums(s)
<1>1. Len(s) \in Nat
  OBVIOUS
<1>2. \E f : f = [n \in 0 .. Len(s) |-> IF n = 0 THEN 0 ELSE f[n - 1] + RawLen[s[n]]]
  BY <1>1, AddsUpExists DEF AddsUp
<1>3. sum = [n \in 0 .. Len(s) |-> IF n = 0 THEN 0 ELSE sum[n - 1] + RawLen[s[n]]]
  BY <1>2 DEF Sums
<1> HIDE DEF sum
<1>4. sum[0] = 0
  BY <1>1, <1>3
<1>5. ASSUME NEW n \in 0 .. Len(s) - 1
      PROVE  sum[n + 1] = sum[n] + RawLen[s[n + 1]]
  <2>1. n + 1 \in 0 .. Len(s) /\ n + 1 # 0 /\ (n + 1) - 1 = n
    BY <1>1
  <2>2. sum[n + 1] = sum[(n + 1) - 1] + RawLen[s[n + 1]]
    BY <1>3, <2>1
  <2> QED
    BY <2>1, <2>2
<1> QED
  BY <1>4, <1>5 DEF sum

(* While p writes, `bytes` is the length of what it has written; what it   *)
(* publishes is as long as the manifest says.                              *)
LengthOK(p) ==
    /\ pc[p] = "write" => bytes[p] = Sums(Cids[p])[Len(tmp[p].content)]
    /\ pc[p] \in {"publish", "rename"} => SizeOf(Cids[p]) = total[p]

Lengths == \A p \in Proc : LengthOK(p)

(* A step of p does not disturb the others.                                *)
LEMMA LengthsStep ==
    ASSUME Lengths, NEW p \in Proc, total' = total,
           \A q \in Proc \ {p} : tmp'[q] = tmp[q] /\ pc'[q] = pc[q] /\ bytes'[q] = bytes[q],
           LengthOK(p)'
    PROVE  Lengths'
<1>1. ASSUME NEW q \in Proc \ {p} PROVE LengthOK(q)'
  BY <1>1 DEF Lengths, LengthOK
<1> QED
  BY <1>1 DEF Lengths

LEMMA WriteChunkLengths ==
    ASSUME IInv, Lengths, NEW p \in Proc, WriteChunk(p)
    PROVE  Lengths'
<1> DEFINE s == tmp[p].content
           c == Cids[p][Len(s) + 1]
<1>1. TypeOK /\ TempOK(p) /\ LengthOK(p)
  BY DEF IInv, TempsPrefix, Lengths
<1>2. /\ pc[p] = "write" /\ Len(s) < Len(Cids[p])
      /\ tmp' = [tmp EXCEPT ![p].content = Append(s, c)]
      /\ bytes' = [bytes EXCEPT ![p] = @ + RawLen[c]]
      /\ UNCHANGED <<pc, total>>
  BY DEF WriteChunk, worldVars, HashesTo
<1>3. Cids[p] \in Seq(Cid)
  BY RestoreAssumption
<1>4. tmp[p] \in OutFile /\ s \in Seq(Cid)
  <2>1. tmp[p] \in OutFile
    BY <1>1, <1>2 DEF TypeOK, TempOK
  <2> QED
    BY <2>1 DEF OutFile
<1>5. c \in Cid
  BY <1>2, <1>3, <1>4
<1>6. /\ bytes'[p] = Sums(Cids[p])[Len(s)] + RawLen[c]
      /\ Len(tmp'[p].content) = Len(s) + 1
  <2>1. bytes'[p] = bytes[p] + RawLen[c] /\ bytes[p] = Sums(Cids[p])[Len(s)]
    BY <1>1, <1>2 DEF TypeOK, LengthOK
  <2>2. tmp'[p].content = Append(s, c)
    BY <1>1, <1>2, <1>4 DEF TypeOK, OutFile
  <2>3. Len(Append(s, c)) = Len(s) + 1
    BY <1>4, <1>5
  <2> QED
    BY <2>1, <2>2, <2>3
<1>7. Sums(Cids[p])[Len(s) + 1] = Sums(Cids[p])[Len(s)] + RawLen[c]
  <2>1. Len(s) \in 0 .. Len(Cids[p]) - 1
    BY <1>2, <1>3, <1>4
  <2> QED
    BY <2>1, <1>3, SumsAddUp
<1>8. LengthOK(p)'
  BY <1>2, <1>6, <1>7 DEF LengthOK
<1> QED
  BY <1>1, <1>2, <1>8, LengthsStep DEF TypeOK

LEMMA LengthsNext == ASSUME IInv, Lengths, [Next]_vars PROVE Lengths'
<1>1. TypeOK
  BY DEF IInv
<1>2. ASSUME NEW p \in Proc, NEW how,
             how \in {"done", "refused", "failed", "dead"}, Stop(p, how), total' = total
      PROVE  Lengths'
  BY <1>1, <1>2, LengthsStep DEF TypeOK, LengthOK
<1>3. ASSUME NEW p \in Proc, ProcStep(p) PROVE Lengths'
  <2>1. CASE VerifyChunk(p)
    BY <1>1, <2>1, LengthsStep DEF VerifyChunk, fileVars, worldVars, TypeOK, LengthOK, Lengths
  <2>2. CASE CreateTemp(p)
    <3>1. /\ tmp' = [tmp EXCEPT ![p] = [by |-> p, content |-> <<>>, synced |-> FALSE]]
          /\ pc' = [pc EXCEPT ![p] = "write"]
          /\ bytes' = [bytes EXCEPT ![p] = 0]
          /\ total' = total
      BY <2>2 DEF CreateTemp, worldVars
    <3>2. Len(tmp'[p].content) = 0 /\ pc'[p] = "write" /\ bytes'[p] = 0
      BY <1>1, <3>1 DEF TypeOK
    <3>3. Sums(Cids[p])[0] = 0
      BY SumsAddUp, RestoreAssumption
    <3>4. LengthOK(p)'
      BY <3>1, <3>2, <3>3 DEF LengthOK
    <3> QED
      BY <1>1, <3>1, <3>4, LengthsStep DEF TypeOK
  <2>3. CASE WriteChunk(p)
    BY <2>3, WriteChunkLengths
  <2>4. CASE Sync(p)
    <3>1. /\ pc[p] = "write" /\ Len(tmp[p].content) = Len(Cids[p]) /\ bytes[p] = total[p]
          /\ tmp' = [tmp EXCEPT ![p].synced = TRUE]
          /\ pc' = [pc EXCEPT ![p] = "publish"]
          /\ UNCHANGED <<bytes, total>>
      BY <2>4 DEF Sync, worldVars
    <3>2. SizeOf(Cids[p]) = total[p]
      BY <3>1 DEF Lengths, LengthOK, SizeOf
    <3>3. LengthOK(p)'
      BY <1>1, <3>1, <3>2 DEF LengthOK, TypeOK
    <3> QED
      BY <1>1, <3>1, <3>3, LengthsStep DEF TypeOK
  <2>5. CASE Replace(p) \/ Rename(p)
    BY <2>5, <1>2 DEF Replace, Rename, Publish, worldVars
  <2>6. CASE Claim(p)
    <3>1. /\ pc[p] = "publish" /\ pc' = [pc EXCEPT ![p] = "rename"]
          /\ UNCHANGED <<tmp, bytes, total>>
      BY <2>6 DEF Claim, worldVars
    <3>2. LengthOK(p)'
      BY <1>1, <3>1 DEF Lengths, LengthOK, TypeOK
    <3> QED
      BY <1>1, <3>1, <3>2, LengthsStep DEF TypeOK
  <2>7. CASE Refused(p)
    BY <2>7, <1>2 DEF Refused, worldVars
  <2>8. CASE Fail(p)
    BY <2>8, <1>2 DEF Fail, worldVars
  <2> QED
    BY <1>3, <2>1, <2>2, <2>3, <2>4, <2>5, <2>6, <2>7, <2>8 DEF ProcStep
<1>4. ASSUME NEW p \in Proc, Crash(p) PROVE Lengths'
  BY <1>2, <1>4 DEF Crash, worldVars
<1>5. CASE PowerLoss
  <2>1. \A p \in Proc : pc'[p] \notin {"write", "publish", "rename"}
    BY <1>5 DEF PowerLoss, Fresh, Running
  <2> QED
    BY <2>1 DEF Lengths, LengthOK
<1>6. ASSUME UNCHANGED <<tmp, pc, bytes, total>> PROVE Lengths'
  BY <1>6 DEF Lengths, LengthOK
<1>7. CASE UserPuts \/ UserRemoves \/ WriteBack \/ \E c \in Cid : ChunkChanges(c)
  BY <1>6, <1>7 DEF UserPuts, UserRemoves, WriteBack, ChunkChanges, fileVars, localVars, worldVars
<1>8. CASE UNCHANGED vars
  BY <1>6, <1>8 DEF vars, fileVars, localVars, worldVars
<1> QED
  BY <1>3, <1>4, <1>5, <1>7, <1>8 DEF Next, Environment

(* A call succeeds only in the rename that publishes its whole backup,     *)
(* synced.                                                                 *)
LEMMA Succeeds ==
    ASSUME IInv, Next, NEW p \in Proc, pc[p] # "done", pc'[p] = "done"
    PROVE  /\ pc[p] \in {"publish", "rename"}
           /\ target' = [by |-> p, content |-> Cids[p], synced |-> TRUE]
           /\ total' = total
<1>1. pc \in [Proc -> PC]
  BY DEF IInv, TypeOK
<1>2. ASSUME NEW q \in Proc, ProcStep(q)
      PROVE  Replace(p) \/ Rename(p)
  <2>1. Replace(q) \/ Rename(q)
    BY <1>1, <1>2 DEF ProcStep, VerifyChunk, CreateTemp, WriteChunk, Sync, Claim, Refused,
       Fail, PC, Running
  <2>2. q = p
    BY <1>1, <2>1 DEF Replace, Rename, Publish
  <2> QED
    BY <2>1, <2>2
<1>3. ~Environment
  BY <1>1 DEF Environment, Crash, ChunkChanges, UserPuts, UserRemoves, WriteBack, PowerLoss,
     localVars
<1>4. Replace(p) \/ Rename(p)
  BY <1>2, <1>3 DEF Next
<1>5. pc[p] \in {"publish", "rename"} /\ target' = tmp[p] /\ total' = total
  BY <1>4 DEF Replace, Rename, Publish, worldVars
<1> QED
  BY <1>5 DEF IInv, TempsPrefix, TempOK

(* A restore succeeds only by publishing its whole backup, synced, of      *)
(* exactly total_logical_bytes, whatever chunk files it found at its two   *)
(* readings (engine.rs:468-522).                                           *)
THEOREM RestoresExact == Spec => SuccessExact
<1>1. Init => Lengths
  BY DEF Init, Lengths, LengthOK
<1>2. IInv /\ Lengths /\ [Next]_vars => Lengths'
  BY LengthsNext
<1>3. ASSUME IInv, Lengths, Next, NEW p \in Proc, pc[p] # "done", pc'[p] = "done"
      PROVE  target'.by = p /\ target'.content = Cids[p] /\ SizeOf(target'.content) = total[p]
  <2>1. /\ pc[p] \in {"publish", "rename"}
        /\ target' = [by |-> p, content |-> Cids[p], synced |-> TRUE]
    BY <1>3, Succeeds
  <2>2. target'.by = p /\ target'.content = Cids[p]
    BY <2>1
  <2> QED
    BY <1>3, <2>1, <2>2 DEF Lengths, LengthOK
<1>4. IInv /\ Lengths /\ [Next]_vars =>
        [\A p \in Proc : pc[p] # "done" /\ pc'[p] = "done" =>
            /\ target'.by = p
            /\ target'.content = Cids[p]
            /\ SizeOf(target'.content) = total[p]]_vars
  BY <1>3
<1> QED
  BY <1>1, <1>2, <1>4, Invariance, PTL DEF Spec, SuccessExact

(* And it is on the disk before it has its name: the rename never shows a  *)
(* file that a power loss could shorten (engine.rs:509).                   *)
PublishesSynced ==
    [][\A p \in Proc : pc[p] # "done" /\ pc'[p] = "done" => target'.synced]_vars

THEOREM RestoresSynced == Spec => PublishesSynced
<1>1. ASSUME IInv, Next, NEW p \in Proc, pc[p] # "done", pc'[p] = "done"
      PROVE  target'.synced
  BY <1>1, Succeeds
<1>2. IInv /\ [Next]_vars =>
        [\A p \in Proc : pc[p] # "done" /\ pc'[p] = "done" => target'.synced]_vars
  BY <1>1
<1> QED
  BY <1>2, Invariance, PTL DEF Spec, PublishesSynced

-----------------------------------------------------------------------------
(* A bound on the steps of a restore *)

(* verify does not go beyond the end of the manifest.                      *)
VerifyWithin == \A p \in Proc : pc[p] = "verify" => checked[p] <= Len(Cids[p])

LEMMA VerifyWithinNext == ASSUME IInv, VerifyWithin, [Next]_vars PROVE VerifyWithin'
<1>1. TypeOK /\ \A p \in Proc : Len(Cids[p]) \in Nat
  BY RestoreAssumption DEF IInv
<1>2. ASSUME NEW p \in Proc, pc'[p] # "verify",
             \A q \in Proc \ {p} : pc'[q] = pc[q] /\ checked'[q] = checked[q]
      PROVE  VerifyWithin'
  BY <1>2 DEF VerifyWithin
<1>3. ASSUME NEW p \in Proc, VerifyChunk(p) PROVE VerifyWithin'
  BY <1>1, <1>3 DEF VerifyChunk, VerifyWithin, TypeOK
<1>4. ASSUME NEW p \in Proc,
             \/ CreateTemp(p) \/ WriteChunk(p) \/ Sync(p) \/ Replace(p) \/ Claim(p)
             \/ Rename(p) \/ Refused(p) \/ Fail(p) \/ Crash(p)
      PROVE  VerifyWithin'
  <2>1. pc'[p] # "verify" /\ \A q \in Proc \ {p} : pc'[q] = pc[q] /\ checked'[q] = checked[q]
    BY <1>1, <1>4 DEF CreateTemp, WriteChunk, Sync, Replace, Claim, Rename, Publish, Refused, Fail,
       Crash, TypeOK
  <2> QED
    BY <1>2, <2>1
<1>5. CASE PowerLoss
  BY <1>1, <1>5 DEF PowerLoss, VerifyWithin
<1>6. ASSUME UNCHANGED <<pc, checked>> PROVE VerifyWithin'
  BY <1>6 DEF VerifyWithin
<1>7. CASE UserPuts \/ UserRemoves \/ WriteBack \/ (\E c \in Cid : ChunkChanges(c)) \/ UNCHANGED vars
  BY <1>6, <1>7 DEF UserPuts, UserRemoves, WriteBack, ChunkChanges, localVars, vars
<1> QED
  BY <1>3, <1>4, <1>5, <1>7 DEF Next, ProcStep, Environment

LEMMA RemainingNat ==
    ASSUME IInv, VerifyWithin, NEW p \in Proc
    PROVE  /\ Remaining(p) \in 0 .. 2 * Len(Cids[p]) + 4
           /\ pc[p] \in Running => Remaining(p) >= 1
           /\ pc[p] = "verify" => Remaining(p) >= Len(Cids[p]) + 4
           /\ Len(Cids[p]) \in Nat
<1>1. TypeOK /\ TempOK(p) /\ Len(Cids[p]) \in Nat
  BY RestoreAssumption DEF IInv, TempsPrefix
<1>2. pc[p] = "write" => Len(tmp[p].content) \in Nat /\ Len(tmp[p].content) <= Len(Cids[p])
  <2> SUFFICES ASSUME pc[p] = "write"
               PROVE  Len(tmp[p].content) \in Nat /\ Len(tmp[p].content) <= Len(Cids[p])
    OBVIOUS
  <2>1. tmp[p] \in OutFile
    BY <1>1 DEF TypeOK, TempOK
  <2>2. tmp[p].content \in Seq(Cid)
    BY <2>1 DEF OutFile
  <2> QED
    BY <1>1, <2>2 DEF TempOK
<1>3. pc[p] = "verify" => checked[p] \in Nat /\ checked[p] <= Len(Cids[p])
  BY <1>1 DEF TypeOK, VerifyWithin
<1>4. CASE pc[p] = "verify"
  <2>1. Remaining(p) = 2 * Len(Cids[p]) - checked[p] + 4
    BY <1>4 DEF Remaining
  <2> QED
    BY <1>1, <1>3, <1>4, <2>1
<1>5. CASE pc[p] = "write"
  <2> DEFINE k == Len(tmp[p].content)
  <2>1. Remaining(p) = Len(Cids[p]) - k + 3
    BY <1>5 DEF Remaining
  <2>2. k \in Nat /\ k <= Len(Cids[p])
    BY <1>2, <1>5
  <2> HIDE DEF k
  <2> QED
    BY <1>1, <1>5, <2>1, <2>2
<1>6. CASE pc[p] \in {"publish", "rename"}
  <2>1. Remaining(p) \in {1, 2}
    BY <1>6 DEF Remaining
  <2> QED
    BY <1>1, <1>6, <2>1
<1>7. CASE pc[p] \notin Running
  <2>1. Remaining(p) = 0 /\ pc[p] # "verify"
    BY <1>7 DEF Remaining, Running
  <2> QED
    BY <1>1, <1>7, <2>1
<1> QED
  BY <1>4, <1>5, <1>6, <1>7 DEF Running

(* A step of p uses one of them up, at least.                              *)
LEMMA OwnStep ==
    ASSUME IInv, VerifyWithin, NEW p \in Proc, ProcStep(p)
    PROVE  Remaining(p)' < Remaining(p)
<1>1. TypeOK /\ TempOK(p) /\ Cids[p] \in Seq(Cid) /\ Len(Cids[p]) \in Nat
  BY RestoreAssumption DEF IInv, TempsPrefix
<1>2. ASSUME NEW how \in {"done", "failed", "refused"}, pc[p] \in Running, Stop(p, how)
      PROVE  Remaining(p)' < Remaining(p)
  <2>1. Remaining(p)' = 0
    BY <1>1, <1>2 DEF Remaining, TypeOK
  <2> QED
    BY <1>2, <2>1, RemainingNat
<1>3. CASE VerifyChunk(p)
  <2>1. pc[p] = "verify" /\ pc' = pc /\ checked'[p] = checked[p] + 1 /\ checked[p] \in Nat
    BY <1>1, <1>3 DEF VerifyChunk, TypeOK
  <2> QED
    BY <1>1, <2>1 DEF Remaining
<1>4. CASE CreateTemp(p)
  <2>1. pc[p] = "verify" /\ pc'[p] = "write" /\ tmp'[p].content = <<>>
    BY <1>1, <1>4 DEF CreateTemp, TypeOK
  <2>2. Remaining(p)' = Len(Cids[p]) + 3
    BY <1>1, <2>1 DEF Remaining
  <2> QED
    BY <1>1, <2>1, <2>2, RemainingNat
<1>5. CASE WriteChunk(p)
  <2> DEFINE s == tmp[p].content
             c == Cids[p][Len(s) + 1]
  <2>1. /\ pc[p] = "write" /\ pc' = pc /\ Len(s) < Len(Cids[p])
        /\ tmp' = [tmp EXCEPT ![p].content = Append(s, c)]
    BY <1>5 DEF WriteChunk, HashesTo
  <2>2. tmp[p] \in OutFile
    BY <1>1, <2>1 DEF TypeOK, TempOK
  <2>3. s \in Seq(Cid)
    BY <2>2 DEF OutFile
  <2>4. c \in Cid
    BY <1>1, <2>1, <2>3
  <2>5. tmp'[p].content = Append(s, c)
    BY <1>1, <2>1, <2>2 DEF TypeOK, OutFile
  <2>6. Len(Append(s, c)) = Len(s) + 1 /\ Len(s) \in Nat
    BY <2>3, <2>4
  <2>7. /\ Remaining(p) = Len(Cids[p]) - Len(s) + 3
        /\ Remaining(p)' = Len(Cids[p]) - (Len(s) + 1) + 3
    <3> HIDE DEF c
    <3> QED
      BY <2>1, <2>5, <2>6 DEF Remaining
  <2> HIDE DEF s
  <2> QED
    BY <1>1, <2>6, <2>7
<1>6. CASE Sync(p)
  <2>1. pc[p] = "write" /\ pc'[p] = "publish" /\ Len(tmp[p].content) = Len(Cids[p])
    BY <1>1, <1>6 DEF Sync, TypeOK
  <2> QED
    BY <1>1, <2>1 DEF Remaining
<1>7. CASE Claim(p)
  <2>1. pc[p] = "publish" /\ pc'[p] = "rename"
    BY <1>1, <1>7 DEF Claim, TypeOK
  <2> QED
    BY <2>1 DEF Remaining
<1>8. CASE Replace(p) \/ Rename(p) \/ Refused(p) \/ Fail(p)
  BY <1>2, <1>8 DEF Replace, Rename, Publish, Refused, Fail, Running
<1> QED
  BY <1>3, <1>4, <1>5, <1>6, <1>7, <1>8 DEF ProcStep

(* Nobody else gives it more to do.                                        *)
LEMMA OthersStep ==
    ASSUME IInv, VerifyWithin, NEW p \in Proc, [Next]_vars, ~ProcStep(p)
    PROVE  Remaining(p)' <= Remaining(p)
<1>1. TypeOK /\ Remaining(p) \in Nat
  BY RemainingNat DEF IInv
<1>2. ASSUME pc'[p] = pc[p], checked'[p] = checked[p], tmp'[p] = tmp[p]
      PROVE  Remaining(p)' <= Remaining(p)
  BY <1>1, <1>2 DEF Remaining
<1>3. ASSUME NEW q \in Proc \ {p}, ProcStep(q) \/ Crash(q) PROVE Remaining(p)' <= Remaining(p)
  <2>1. pc'[p] = pc[p] /\ checked'[p] = checked[p] /\ tmp'[p] = tmp[p]
    BY <1>1, <1>3 DEF ProcStep, VerifyChunk, CreateTemp, WriteChunk, Sync, Replace, Claim,
       Rename, Publish, Refused, Fail, Crash, fileVars, TypeOK
  <2> QED
    BY <1>2, <2>1
<1>4. CASE Crash(p)
  <2>1. Remaining(p)' = 0
    BY <1>1, <1>4 DEF Crash, Remaining, TypeOK
  <2> QED
    BY <1>1, <2>1
<1>5. CASE PowerLoss
  <2>1. pc'[p] = IF pc[p] \in Running /\ ~Fresh(p) THEN "dead" ELSE pc[p]
    BY <1>1, <1>5 DEF PowerLoss
  <2>2. CASE pc[p] = "verify" /\ checked[p] = 0
    <3>1. pc'[p] = pc[p] /\ checked'[p] = checked[p]
      BY <1>5, <2>1, <2>2 DEF PowerLoss, Fresh
    <3> QED
      BY <1>1, <2>2, <3>1 DEF Remaining
  <2>3. CASE ~(pc[p] = "verify" /\ checked[p] = 0)
    <3>1. Remaining(p)' = 0
      BY <2>1, <2>3 DEF Remaining, Fresh, Running
    <3> QED
      BY <1>1, <3>1
  <2> QED
    BY <2>2, <2>3
<1>6. CASE UserPuts \/ UserRemoves \/ WriteBack \/ (\E c \in Cid : ChunkChanges(c)) \/ UNCHANGED vars
  BY <1>2, <1>6 DEF UserPuts, UserRemoves, WriteBack, ChunkChanges, fileVars, localVars, vars
<1> QED
  BY <1>3, <1>4, <1>5, <1>6 DEF Next, Environment

(* The bound on the steps of a restore, and that nothing takes it back     *)
(* (engine.rs:431-534).                                                    *)
CallsBounded == \A p \in Proc : Remaining(p) \in 0 .. 2 * Len(Cids[p]) + 4

THEOREM RestoresMoveOn == Spec => CallsMoveOn /\ []CallsBounded
<1>1. Init => VerifyWithin
  BY RestoreAssumption DEF Init, VerifyWithin
<1>2. IInv /\ VerifyWithin /\ [Next]_vars => VerifyWithin'
  BY VerifyWithinNext
<1>3. IInv /\ VerifyWithin => CallsBounded
  BY RemainingNat DEF CallsBounded
<1>4. IInv /\ VerifyWithin /\ [Next]_vars =>
        [\A p \in Proc :
            IF ProcStep(p) THEN Remaining(p)' < Remaining(p)
            ELSE Remaining(p)' <= Remaining(p)]_vars
  BY OwnStep, OthersStep
<1> QED
  BY <1>1, <1>2, <1>3, <1>4, Invariance, PTL DEF Spec, CallsMoveOn
=============================================================================
