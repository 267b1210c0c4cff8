------------------------------- MODULE SourceCheck -------------------------------
(***************************************************************************)
(* A source file that other programs write while a backup reads it: what   *)
(* FileSource's fingerprint, size and modification time, sees of that.     *)
(*                                                                         *)
(* The backup takes the fingerprint from the descriptor it reads, and      *)
(* compares it at the end with that of the path, which may by then name    *)
(* another file.  Time runs in ticks of the file system's timestamps; a    *)
(* write and its timestamp are one step (no write is in progress while the *)
(* backup takes a fingerprint, and nothing is written through mmap).       *)
(***************************************************************************)
EXTENDS Integers, Sequences

CONSTANTS
    Inode,          \* the files
    Block,          \* what a read returns
    Content,        \* the contents a file may have
    NoFile,         \* no file
    MaxTime,        \* bound on the clock
    MaxWrites       \* bound on what other programs do

ASSUME SourceCheckAssumption ==
    /\ Content \subseteq Seq(Block)
    /\ NoFile \notin Inode
    /\ MaxTime \in Nat /\ MaxWrites \in Nat

VARIABLES
    content, mtime, \* of each file
    path,           \* the file the source path names
    now,            \* the clock
    writes,         \* counted for its bound
    fd,             \* the file the backup has open
    start,          \* FileSource.start
    read,           \* the blocks it has read
    pc,             \* where it is
    snapshot,       \* history: the content, and the time, when start was taken
    touched,        \* history: another program did something since the open
    deceived        \* history: it set a timestamp, or the file compared at
                    \* the end was not the one read

fileVars == <<content, mtime, path>>
historyVars == <<touched, deceived>>
vars == <<fileVars, now, writes, fd, start, read, pc, snapshot, historyVars>>

Fingerprint == [len : Nat, modified : Nat]

TypeOK ==
    /\ content \in [Inode -> Content]
    /\ mtime \in [Inode -> Nat]
    /\ path \in Inode \cup {NoFile}
    /\ now \in Nat
    /\ writes \in 0 .. MaxWrites
    /\ fd \in Inode \cup {NoFile}
    /\ pc \in {"open", "stat", "read", "verify", "committed", "changed", "failed"}
    /\ pc \notin {"open", "failed"} => fd \in Inode
    /\ start \in Fingerprint
    /\ read \in Seq(Block)
    /\ snapshot \in [content : Seq(Block), time : Nat]
    /\ touched \in BOOLEAN
    /\ deceived \in BOOLEAN

Init ==
    /\ now \in 0 .. MaxTime
    /\ content \in [Inode -> Content]
    /\ mtime \in [Inode -> 0 .. now]
    /\ path \in Inode
    /\ writes = 0
    /\ fd = NoFile
    /\ start = [len |-> 0, modified |-> 0]
    /\ read = <<>>
    /\ pc = "open"
    /\ snapshot = [content |-> <<>>, time |-> 0]
    /\ touched = FALSE
    /\ deceived = FALSE

-----------------------------------------------------------------------------
(* The backup *)

Open ==
    /\ pc = "open"
    /\ path # NoFile
    /\ fd' = path
    /\ pc' = "stat"
    /\ UNCHANGED <<fileVars, now, writes, start, read, snapshot, historyVars>>

(* Nothing at the path, to open or to compare with.                        *)
PathGone ==
    /\ pc \in {"open", "verify"}
    /\ path = NoFile
    /\ pc' = "failed"
    /\ UNCHANGED <<fileVars, now, writes, fd, start, read, snapshot, historyVars>>

FingerprintOf(i) == [len |-> Len(content[i]), modified |-> mtime[i]]

(* Mutants of Stat: no timestamp to be had; the clock's instead.           *)
StatNoTime ==
    /\ pc = "stat"
    /\ start' = [len |-> Len(content[fd]), modified |-> -1]
    /\ snapshot' = [content |-> content[fd], time |-> now]
    /\ pc' = "read"
    /\ UNCHANGED <<fileVars, now, writes, fd, read, historyVars>>

StatClock ==
    /\ pc = "stat"
    /\ start' = [len |-> Len(content[fd]), modified |-> now]
    /\ snapshot' = [content |-> content[fd], time |-> now]
    /\ pc' = "read"
    /\ UNCHANGED <<fileVars, now, writes, fd, read, historyVars>>

(* The fingerprint of the open file; total_bytes is its length.            *)
Stat ==
    /\ pc = "stat"
    /\ start' = FingerprintOf(fd)
    /\ snapshot' = [content |-> content[fd], time |-> now]
    /\ pc' = "read"
    /\ UNCHANGED <<fileVars, now, writes, fd, read, historyVars>>

(* The next bytes at the descriptor's position, as they are by now.        *)
ReadBlock ==
    /\ pc = "read"
    /\ Len(read) < Len(content[fd])
    /\ read' = Append(read, content[fd][Len(read) + 1])
    /\ UNCHANGED <<fileVars, now, writes, fd, start, pc, snapshot, historyVars>>

(* Mutant of ReadEof: it waits for the bytes the fingerprint promised.     *)
ReadEofExpected ==
    /\ pc = "read"
    /\ Len(read) >= Len(content[fd])
    /\ Len(read) >= start.len
    /\ pc' = "verify"
    /\ UNCHANGED <<fileVars, now, writes, fd, start, read, snapshot, historyVars>>

(* The end of the file, wherever it is by now: not where start.len was.    *)
ReadEof ==
    /\ pc = "read"
    /\ Len(read) >= Len(content[fd])
    /\ pc' = "verify"
    /\ UNCHANGED <<fileVars, now, writes, fd, start, read, snapshot, historyVars>>

(* Mutant of Matches: the size only.                                       *)
MatchesLength(f) == start.len = f.len

Matches(f) == start.len = f.len /\ start.modified = f.modified

(* verify_unchanged succeeds, whichever file the path names, and the       *)
(* manifest is committed; the bytes read are not counted again.            *)
VerifyUnchanged ==
    /\ pc = "verify"
    /\ path # NoFile /\ Matches(FingerprintOf(path))
    /\ pc' = "committed"
    /\ deceived' = (deceived \/ path # fd)
    /\ UNCHANGED <<fileVars, now, writes, fd, start, read, snapshot, touched>>

SourceChanged ==
    /\ pc = "verify"
    /\ path # NoFile /\ ~Matches(FingerprintOf(path))
    /\ pc' = "changed"
    /\ UNCHANGED <<fileVars, now, writes, fd, start, read, snapshot, historyVars>>

(* A system call fails, or the file opened is not a regular one.           *)
IoError ==
    /\ pc \in {"open", "stat", "read", "verify"}
    /\ pc' = "failed"
    /\ UNCHANGED <<fileVars, now, writes, fd, start, read, snapshot, historyVars>>

Backup ==
    \/ Open \/ PathGone \/ Stat \/ ReadBlock \/ ReadEof
    \/ VerifyUnchanged \/ SourceChanged

-----------------------------------------------------------------------------
(* Other programs *)

Acts ==
    /\ writes < MaxWrites
    /\ writes' = writes + 1
    /\ touched' = (pc # "open")
    /\ UNCHANGED <<now, fd, start, read, pc, snapshot>>

(* A write, an append or a truncation: any new content, and the timestamp. *)
Write(i) ==
    /\ Acts
    /\ \E s \in Content : content' = [content EXCEPT ![i] = s]
    /\ mtime' = [mtime EXCEPT ![i] = now]
    /\ UNCHANGED <<path, deceived>>

(* utimes.                                                                 *)
SetModified(i) ==
    /\ Acts
    /\ \E t \in 0 .. now : mtime' = [mtime EXCEPT ![i] = t]
    /\ deceived' = TRUE
    /\ UNCHANGED <<content, path>>

(* Another file is renamed over the path, or the path is unlinked.         *)
MovePath(i) ==
    /\ Acts
    /\ path' = i
    /\ UNCHANGED <<content, mtime, deceived>>

Tick ==
    /\ now < MaxTime
    /\ now' = now + 1
    /\ UNCHANGED <<fileVars, writes, fd, start, read, pc, snapshot, historyVars>>

Others ==
    \/ \E i \in Inode : Write(i) \/ SetModified(i)
    \/ \E i \in Inode \cup {NoFile} : MovePath(i)
    \/ Tick

Next == Backup \/ IoError \/ Others

SafeSpec == Init /\ [][Next]_vars

(* The reader is scheduled; nothing need fail, and other programs need not *)
(* do anything.                                                            *)
Spec == SafeSpec /\ WF_vars(Backup)

-----------------------------------------------------------------------------
(* When the fingerprint was taken, the file had not been written in the    *)
(* same tick.                                                              *)
Settled == start.modified < snapshot.time

(* README.md, "ZeroStun fails the job if size or mtime changes": what is   *)
(* committed is the content the file had at one moment, all of it, and of  *)
(* the length in the manifest, if the file had settled before and nobody   *)
(* sets timestamps.  The path may be moved, and back; only a path that     *)
(* names another file of the same size and time at the end is not noticed. *)
Consistent ==
    pc = "committed" /\ Settled /\ ~deceived =>
        read = snapshot.content /\ Len(read) = start.len

(* A source that nobody touches is not reported as changed.                *)
NoFalseAlarm == pc = "changed" => touched

(* The reading ends when the other programs stop, also if the source has   *)
(* become shorter than it was.                                             *)
ReadingEnds == <>(pc \in {"committed", "changed", "failed"})
=============================================================================
