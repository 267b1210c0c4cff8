-------------------------------- MODULE Restore --------------------------------
(***************************************************************************)
(* engine::restore, and engine::verify that it begins with.                *)
(*                                                                         *)
(* Several calls restore backups to the same target path, some of them     *)
(* with --force, from one repository or several; the chunk files change    *)
(* under them (decay, or a backup that replaces a file), other programs    *)
(* put files at the target path and remove what is there, calls fail and   *)
(* processes die, and the machine loses power.  A restore writes a         *)
(* temporary file of its own, syncs it and renames it over the target;     *)
(* without --force it first creates the target itself, as an empty         *)
(* placeholder, to be sure that there was none.                            *)
(*                                                                         *)
(* A chunk's bytes are its content ID, a file is the sequence of chunks    *)
(* written to it.  The names of temporary files are random and do not      *)
(* collide.                                                                *)
(***************************************************************************)
EXTENDS StoredChunk, SequencesExt

CONSTANTS
    Proc,           \* the calls of restore
    Forced,         \* those with --force
    Cid,            \* content IDs
    RawLen,         \* RawLen[c]: length of the content, original_length
    Recorded,       \* Recorded[c]: tag and stored length in the descriptors
    Cids,           \* Cids[p]: the descriptors of p's backup, in order
    Totals,         \* Totals[p]: what its total_logical_bytes may be
    Bad,            \* a payload that does not decompress, or to other bytes
    Found,          \* Found[c]: what the file of c may become
    Missing,        \* no file
    User,           \* another program
    Intruder,       \* the same, between a restore's placeholder and its rename
    MaxChanges,     \* bound on the changes of chunk files
    MaxPowerLosses  \* bound on power losses

(* A chunk file: its frame, and what the payload decompresses to.          *)
ChunkFile == [frame : Frame, body : Cid \cup {Bad}]

Stored(c) == [frame |-> Encode(Recorded[c].tag, Recorded[c].length), body |-> c]

(* A file in the target's directory: who wrote it, the content, and        *)
(* whether that is on the disk.                                            *)
OutFile == [by : Proc \cup {User, Intruder}, content : Seq(Cid), synced : BOOLEAN]

ASSUME RestoreAssumption ==
    /\ IsFiniteSet(Proc) /\ Forced \subseteq Proc
    /\ User \notin Proc /\ Intruder \notin Proc /\ User # Intruder
    /\ Bad \notin Cid
    /\ RawLen \in [Cid -> Nat]
    /\ Recorded \in [Cid -> [tag : KnownTag, length : Nat]]
    /\ \A c \in Cid : HeaderLen + Recorded[c].length < Word
    /\ Cids \in [Proc -> Seq(Cid)]
    /\ Totals \in [Proc -> SUBSET Nat]
    /\ Missing \notin ChunkFile /\ Missing \notin OutFile
    /\ Found \in [Cid -> SUBSET (ChunkFile \cup {Missing})]
    /\ MaxChanges \in Nat /\ MaxPowerLosses \in Nat

VARIABLES
    chunks,         \* the chunk files
    total,          \* total[p]: total_logical_bytes of p's manifest
    target,         \* the file at the target path, as processes see it
    disk,           \* the same directory entry, as it is on the disk
    tmp,            \* tmp[p]: the temporary file of p
    pc,             \* where each call is
    checked,        \* checked[p]: how many chunks it has verified
    bytes,          \* bytes[p]: the length of these, and later of those written
    changes, powers,\* counted for their bounds
    removals        \* when other programs have removed the target

fileVars == <<target, disk, tmp>>
localVars == <<pc, checked, bytes>>
worldVars == <<chunks, total, changes, powers, removals>>
vars == <<fileVars, localVars, worldVars>>

Running == {"verify", "write", "publish", "rename"}
PC == Running \cup {"done", "failed", "refused", "dead"}

TypeOK ==
    /\ chunks \in [Cid -> ChunkFile \cup {Missing}]
    /\ total \in [Proc -> Nat]
    /\ target \in OutFile \cup {Missing}
    /\ disk \in OutFile \cup {Missing}
    /\ tmp \in [Proc -> OutFile \cup {Missing}]
    /\ pc \in [Proc -> PC]
    /\ checked \in [Proc -> Nat]
    /\ bytes \in [Proc -> Nat]
    /\ changes \in 0 .. MaxChanges
    /\ powers \in 0 .. MaxPowerLosses
    /\ removals \subseteq {"idle", "claimed"}

Empty(p) == [by |-> p, content |-> <<>>, synced |-> TRUE]

(* Each repository holds its backups as they were written; the total in a  *)
(* manifest is the size of the source when the backup began, which differs *)
(* from the sum of the chunks if the source changed unnoticed (SourceCheck). *)
(* At the target path there is nothing, or another program's file.         *)
Init ==
    /\ chunks = [c \in Cid |-> Stored(c)]
    /\ total \in [Proc -> UNION Range(Totals)] /\ \A p \in Proc : total[p] \in Totals[p]
    /\ target \in {Missing, Empty(User)}
    /\ disk = target
    /\ tmp = [p \in Proc |-> Missing]
    /\ pc = [p \in Proc |-> "verify"]
    /\ checked = [p \in Proc |-> 0]
    /\ bytes = [p \in Proc |-> 0]
    /\ changes = 0
    /\ powers = 0
    /\ removals = {}

Goto(p, where) == pc' = [pc EXCEPT ![p] = where]

(* The call ends, and its locals with it.  Its temporary file is renamed,  *)
(* or removed, or left behind by a crash or a failing remove_file: no call *)
(* ever looks at it again.                                                 *)
Stop(p, how) ==
    /\ Goto(p, how)
    /\ tmp' = [tmp EXCEPT ![p] = Missing]
    /\ checked' = [checked EXCEPT ![p] = 0]
    /\ bytes' = [bytes EXCEPT ![p] = 0]

-----------------------------------------------------------------------------
(* verify *)

(* Mutant of HashesTo: what was decompressed is not hashed.                *)
HashesToAnything(file, c) == Decodes(file.frame)

(* read_chunk, decompress and the comparison of the hash succeed.  A       *)
(* payload that does not decompress to original_length bytes is Bad.       *)
HashesTo(file, c) == Decodes(file.frame) /\ file.body = c

(* Codec and length of the file are those of the descriptor.               *)
AsRecorded(file, c) ==
    /\ PayloadLen(file.frame) = Recorded[c].length
    /\ file.frame.tag = Recorded[c].tag

VerifyChunk(p) ==
    /\ pc[p] = "verify"
    /\ checked[p] < Len(Cids[p])
    /\ LET c == Cids[p][checked[p] + 1]
       IN  /\ chunks[c] # Missing
           /\ HashesTo(chunks[c], c)
           /\ AsRecorded(chunks[c], c)
           /\ bytes' = [bytes EXCEPT ![p] = @ + RawLen[c]]
    /\ checked' = [checked EXCEPT ![p] = @ + 1]
    /\ UNCHANGED <<fileVars, pc, worldVars>>

-----------------------------------------------------------------------------
(* restore *)

(* verify is done and says yes; the manifest is loaded again, and the      *)
(* temporary file created.                                                 *)
CreateTemp(p) ==
    /\ pc[p] = "verify"
    /\ checked[p] = Len(Cids[p])
    /\ bytes[p] = total[p]
    /\ tmp' = [tmp EXCEPT ![p] = [by |-> p, content |-> <<>>, synced |-> FALSE]]
    /\ checked' = [checked EXCEPT ![p] = 0]
    /\ bytes' = [bytes EXCEPT ![p] = 0]
    /\ Goto(p, "write")
    /\ UNCHANGED <<target, disk, worldVars>>

(* Mutant of WriteChunk: it trusts what verify has seen.                   *)
WriteChunkTrusting(p) ==
    /\ pc[p] = "write"
    /\ Len(tmp[p].content) < Len(Cids[p])
    /\ LET c == Cids[p][Len(tmp[p].content) + 1]
       IN  /\ chunks[c] # Missing
           /\ Decodes(chunks[c].frame)
           /\ tmp' = [tmp EXCEPT ![p].content = Append(@, chunks[c].body)]
           /\ bytes' = [bytes EXCEPT ![p] = @ + RawLen[c]]
    /\ UNCHANGED <<target, disk, pc, checked, worldVars>>

(* Each chunk is read again, decompressed, hashed and written.  That the   *)
(* file still has the recorded codec and length is not checked again.      *)
WriteChunk(p) ==
    /\ pc[p] = "write"
    /\ Len(tmp[p].content) < Len(Cids[p])
    /\ LET c == Cids[p][Len(tmp[p].content) + 1]
       IN  /\ chunks[c] # Missing
           /\ HashesTo(chunks[c], c)
           /\ tmp' = [tmp EXCEPT ![p].content = Append(@, chunks[c].body)]
           /\ bytes' = [bytes EXCEPT ![p] = @ + RawLen[c]]
    /\ UNCHANGED <<target, disk, pc, checked, worldVars>>

(* Mutant of Sync: flushed, but not synced.                                *)
SyncFlushOnly(p) ==
    /\ pc[p] = "write"
    /\ Len(tmp[p].content) = Len(Cids[p])
    /\ bytes[p] = total[p]
    /\ Goto(p, "publish")
    /\ UNCHANGED <<fileVars, checked, bytes, worldVars>>

(* All is written, and as many bytes as the manifest says; sync_all.       *)
Sync(p) ==
    /\ pc[p] = "write"
    /\ Len(tmp[p].content) = Len(Cids[p])
    /\ bytes[p] = total[p]
    /\ tmp' = [tmp EXCEPT ![p].synced = TRUE]
    /\ Goto(p, "publish")
    /\ UNCHANGED <<target, disk, checked, bytes, worldVars>>

(* The rename: visible at once, durable when the directory is written      *)
(* back, which nothing waits for.                                          *)
Publish(p) ==
    /\ target' = tmp[p]
    /\ Stop(p, "done")
    /\ UNCHANGED <<disk, worldVars>>

Replace(p) == pc[p] = "publish" /\ p \in Forced /\ Publish(p)

(* Mutant of Claim: create instead of create_new.                          *)
ClaimAnyway(p) ==
    /\ pc[p] = "publish" /\ p \notin Forced
    /\ target' = Empty(p)
    /\ Goto(p, "rename")
    /\ UNCHANGED <<disk, tmp, checked, bytes, worldVars>>

(* create_new: only one creator succeeds.                                  *)
Claim(p) ==
    /\ pc[p] = "publish" /\ p \notin Forced
    /\ target = Missing
    /\ target' = Empty(p)
    /\ Goto(p, "rename")
    /\ UNCHANGED <<disk, tmp, checked, bytes, worldVars>>

Rename(p) == pc[p] = "rename" /\ Publish(p)

(* Mutant of Refused: it starts again, until the target is gone.           *)
RefusedRetries(p) ==
    /\ pc[p] = "publish" /\ p \notin Forced
    /\ target # Missing
    /\ Stop(p, "verify")
    /\ UNCHANGED <<target, disk, worldVars>>

(* AlreadyExists: Error::RestoreTargetExists.                              *)
Refused(p) ==
    /\ pc[p] = "publish" /\ p \notin Forced
    /\ target # Missing
    /\ Stop(p, "refused")
    /\ UNCHANGED <<target, disk, worldVars>>

(* A check fails, or any I/O, the rename included.  The placeholder stays. *)
Fail(p) ==
    /\ pc[p] \in Running
    /\ Stop(p, "failed")
    /\ UNCHANGED <<target, disk, worldVars>>

ProcStep(p) ==
    \/ VerifyChunk(p) \/ CreateTemp(p) \/ WriteChunk(p) \/ Sync(p)
    \/ Replace(p) \/ Claim(p) \/ Rename(p) \/ Refused(p) \/ Fail(p)

-----------------------------------------------------------------------------
(* The machine, and other programs *)

(* A process dies.                                                         *)
Crash(p) ==
    /\ pc[p] \in Running
    /\ Stop(p, "dead")
    /\ UNCHANGED <<target, disk, worldVars>>

(* A restore is between its placeholder and its rename.                    *)
Claimed == \E p \in Proc : pc[p] = "rename"

(* Another program creates a file at the target path, or renames one over  *)
(* whatever is there, or writes into it.                                   *)
UserPuts ==
    /\ target' = Empty(IF Claimed THEN Intruder ELSE User)
    /\ UNCHANGED <<disk, tmp, localVars, worldVars>>

(* Another program removes what is there, a placeholder too.               *)
UserRemoves ==
    /\ target # Missing
    /\ target' = Missing
    /\ removals' = removals \cup {IF Claimed THEN "claimed" ELSE "idle"}
    /\ UNCHANGED <<disk, tmp, localVars, chunks, total, changes, powers>>

(* A chunk file decays, or a backup writes it anew in its own codec.       *)
ChunkChanges(c) ==
    /\ changes < MaxChanges
    /\ \E file \in Found[c] \ {chunks[c]} : chunks' = [chunks EXCEPT ![c] = file]
    /\ changes' = changes + 1
    /\ UNCHANGED <<fileVars, localVars, total, powers, removals>>

WriteBack ==
    /\ disk # target
    /\ disk' = target
    /\ UNCHANGED <<target, tmp, localVars, worldVars>>

(* What the power loss leaves of a file: all if it was synced, else any    *)
(* part of it.                                                             *)
Remains(file) ==
    IF file = Missing THEN {Missing}
    ELSE IF file.synced THEN {file}
    ELSE {[file EXCEPT !.content = SubSeq(@, 1, n)] : n \in 0 .. Len(file.content)}

(* Every running call dies; one that has not read anything yet may as well *)
(* be started afterwards.                                                  *)
Fresh(p) == pc[p] = "verify" /\ checked[p] = 0

PowerLoss ==
    /\ powers < MaxPowerLosses
    /\ target' \in Remains(target) \cup Remains(disk)
    /\ disk' = target'
    /\ pc' = [p \in Proc |-> IF pc[p] \in Running /\ ~Fresh(p) THEN "dead" ELSE pc[p]]
    /\ tmp' = [p \in Proc |-> Missing]
    /\ checked' = [p \in Proc |-> 0]
    /\ bytes' = [p \in Proc |-> 0]
    /\ powers' = powers + 1
    /\ UNCHANGED <<chunks, total, changes, removals>>

Environment ==
    \/ \E p \in Proc : Crash(p)
    \/ \E c \in Cid : ChunkChanges(c)
    \/ UserPuts \/ UserRemoves \/ WriteBack \/ PowerLoss

Next == (\E p \in Proc : ProcStep(p)) \/ Environment

Spec == Init /\ [][Next]_vars

-----------------------------------------------------------------------------
(* Whatever fails, dies or loses power, and whatever happens to the chunk  *)
(* files meanwhile: at the target path there is nothing, or what another   *)
(* program put there, or exactly a backup, or the empty placeholder of a   *)
(* restore without --force that has not come to its end; never a part of a *)
(* backup (README.md, "Restore to a temporary file, then atomic rename").  *)
TargetWhole ==
    \/ target = Missing
    \/ target.by \in {User, Intruder}
    \/ target.content = Cids[target.by]
    \/ /\ target = Empty(target.by)
       /\ target.by \notin Forced
       /\ pc[target.by] \in {"rename", "failed", "dead"} \/ powers > 0

(* Of all restores without --force into one path at most one succeeds,     *)
(* unless somebody removes what the first has put there.                   *)
OneWinner ==
    powers = 0 /\ removals = {} =>
        \A p, q \in Proc \ Forced : pc[p] = "done" /\ pc[q] = "done" => p = q

(* What a restore without --force renames over came after its placeholder: *)
(* the placeholder itself, the result of a forced restore, or what another *)
(* program put there meanwhile.  It is never an older file, nor the result *)
(* of another restore without --force, unless somebody has removed the     *)
(* placeholder of a restore that was about to rename.                      *)
OnlyLateLost ==
    [][\A p \in Proc \ Forced :
        Rename(p) /\ "claimed" \notin removals =>
            target # Missing /\ target.by \in Forced \cup {p, Intruder}]_vars

(* README.md, "Restore refuses to overwrite an existing target unless      *)
(* `--force` is set": nothing but its own placeholder is replaced.         *)
NotOverwritten ==
    [][\A p \in Proc \ Forced : Rename(p) => target \in {Missing, Empty(p)}]_vars

(* The length of the first n chunks in s, and of all.                      *)
Sums(s) ==
    LET sum[n \in 0 .. Len(s)] == IF n = 0 THEN 0 ELSE sum[n - 1] + RawLen[s[n]]
    IN  sum
SizeOf(s) == Sums(s)[Len(s)]

(* When a restore succeeds, the target is at that moment its backup, all   *)
(* of total_logical_bytes, whatever happened to the chunk files between    *)
(* verify and the second read.                                             *)
SuccessExact ==
    [][\A p \in Proc : pc[p] # "done" /\ pc'[p] = "done" =>
        /\ target'.by = p
        /\ target'.content = Cids[p]
        /\ SizeOf(target'.content) = total[p]]_vars

(* A chunk file whose header and size disagree is never read as a chunk,   *)
(* not even where their sum wraps around: neither by verify nor after it.  *)
Reads(p, c) ==
    \/ VerifyChunk(p) /\ c = Cids[p][checked[p] + 1]
    \/ WriteChunk(p) /\ c = Cids[p][Len(tmp[p].content) + 1]

ReadsExact ==
    [][\A p \in Proc, c \in Cid :
        Reads(p, c) => chunks[c].frame.declared = PayloadLen(chunks[c].frame)]_vars

(* How many steps p still takes, at most.  None if it has ended.           *)
Remaining(p) ==
    IF pc[p] = "verify" THEN 2 * Len(Cids[p]) - checked[p] + 4
    ELSE IF pc[p] = "write" THEN Len(Cids[p]) - Len(tmp[p].content) + 3
    ELSE IF pc[p] = "publish" THEN 2
    ELSE IF pc[p] = "rename" THEN 1
    ELSE 0

(* Every step of a restore brings it nearer to its end, which is at most   *)
(* two passes over its chunks and four steps away; and no other restore,   *)
(* no damage, no other program and no power loss takes it back.  None      *)
(* waits for another's placeholder, or tries again (engine.rs:515).        *)
CallsMoveOn ==
    [][\A p \in Proc :
        IF ProcStep(p) THEN Remaining(p)' < Remaining(p)
        ELSE Remaining(p)' <= Remaining(p)]_vars
=============================================================================
