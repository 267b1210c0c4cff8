----------------------------- MODULE RepositoryInit -----------------------------
(***************************************************************************)
(* Repository::init and Repository::open, called by several processes on   *)
(* one path.  All inits write the version through the same temporary file, *)
(* tmp/VERSION.init, so that files are modelled as a process with an open  *)
(* descriptor sees them: a name refers to an inode, and writing goes to    *)
(* the inode wherever its name has moved.  redb's database file is         *)
(* external: creating it is atomic, one process at a time has it open.     *)
(***************************************************************************)
CONSTANTS
    Initer,         \* the calls of init
    Opener,         \* the calls of open
    None            \* no file, no process

Proc == Initer \cup Opener

ASSUME RepositoryInitAssumption ==
    /\ Initer \cap Opener = {}
    /\ None \notin Proc

(* An inode is named after the init that creates it.                       *)
Inode == Initer
Content == {"", "1"}

VARIABLES
    version,        \* the inode VERSION refers to
    temp,           \* the inode tmp/VERSION.init refers to
    content,        \* content[i]: the bytes of the inode
    db,             \* index.redb: absent, without tables, or with them
    dbLock,         \* the process that has index.redb open
    fd,             \* fd[p]: the inode p has open for writing
    pc,             \* where each call is
    overlapped,     \* two calls have run at the same time
    faults          \* the kinds of fault that have happened

fileVars == <<version, temp, content>>
dbVars == <<db, dbLock>>
vars == <<fileVars, dbVars, fd, pc, overlapped, faults>>

Running == {"read", "open", "write", "rename", "db", "tables", "opened"}

TypeOK ==
    /\ version \in Inode \cup {None}
    /\ temp \in Inode \cup {None}
    /\ content \in [Inode -> Content]
    /\ db \in {"none", "bare", "tables"}
    /\ dbLock \in Proc \cup {None}
    /\ fd \in [Initer -> Inode \cup {None}]
    /\ pc \in [Proc -> Running \cup {"start", "ok", "refused", "ioerror", "dead"}]
    /\ overlapped \in BOOLEAN
    /\ faults \subseteq {"crash", "io"}

(* A path without a repository.                                            *)
Init ==
    /\ version = None /\ temp = None
    /\ content = [i \in Inode |-> ""]
    /\ db = "none" /\ dbLock = None
    /\ fd = [p \in Initer |-> None]
    /\ pc = [p \in Proc |-> "start"]
    /\ overlapped = FALSE
    /\ faults = {}

At(p, here, there) == pc[p] = here /\ pc' = [pc EXCEPT ![p] = there]

(* The call returns, and closes what it has open.                          *)
Return(p, how) ==
    /\ pc' = [pc EXCEPT ![p] = how]
    /\ dbLock' = IF dbLock = p THEN None ELSE dbLock
    /\ fd' = IF p \in Initer THEN [fd EXCEPT ![p] = None] ELSE fd

-----------------------------------------------------------------------------
(* VERSION *)

Begins(p) ==
    overlapped' = (overlapped \/ \E q \in Proc \ {p} : pc[q] \in Running)

(* exists() and nothing else: reading is another step.                     *)
CheckPresent(p) ==
    /\ version # None
    /\ At(p, "start", "read")
    /\ Begins(p)
    /\ UNCHANGED <<fileVars, dbVars, fd, faults>>

CheckAbsent(p) ==
    /\ p \in Initer
    /\ version = None
    /\ At(p, "start", "open")
    /\ Begins(p)
    /\ UNCHANGED <<fileVars, dbVars, fd, faults>>

(* open: NotARepository.                                                   *)
NotARepository(p) ==
    /\ p \in Opener
    /\ version = None
    /\ At(p, "start", "refused")
    /\ Begins(p)
    /\ UNCHANGED <<fileVars, dbVars, fd, faults>>

ReadVersion(p) ==
    /\ At(p, "read", "db")
    /\ content[version] = "1"
    /\ UNCHANGED <<fileVars, dbVars, fd, overlapped, faults>>

(* An empty file does not parse: UnsupportedRepositoryVersion.             *)
BadVersion(p) ==
    /\ pc[p] = "read"
    /\ content[version] # "1"
    /\ Return(p, "refused")
    /\ UNCHANGED <<fileVars, db, overlapped, faults>>

(* Mutant of OpenTemp: create_new, so that the files do not mix.           *)
OpenTempNew(p) ==
    /\ pc[p] = "open"
    /\ \/ /\ temp = None
          /\ temp' = p
          /\ content' = [content EXCEPT ![p] = ""]
          /\ fd' = [fd EXCEPT ![p] = p]
          /\ pc' = [pc EXCEPT ![p] = "write"]
          /\ UNCHANGED dbLock
       \/ /\ temp # None
          /\ Return(p, "refused")
          /\ UNCHANGED <<temp, content>>
    /\ UNCHANGED <<version, db, overlapped, faults>>

(* fs::write opens, creating the file or truncating the one that is there. *)
OpenTemp(p) ==
    /\ At(p, "open", "write")
    /\ temp' = IF temp = None THEN p ELSE temp
    /\ content' = [content EXCEPT ![temp'] = ""]
    /\ fd' = [fd EXCEPT ![p] = temp']
    /\ UNCHANGED <<version, dbVars, overlapped, faults>>

(* Mutants of WriteTemp: in append mode; only if the file is still there.  *)
WriteTempAppending(p) ==
    /\ At(p, "write", "rename")
    /\ content' = [content EXCEPT ![fd[p]] = IF @ = "" THEN "1" ELSE "11"]
    /\ UNCHANGED <<version, temp, dbVars, fd, overlapped, faults>>

WriteTempChecked(p) ==
    /\ At(p, "write", "rename")
    /\ content' = IF temp = fd[p] THEN [content EXCEPT ![fd[p]] = "1"] ELSE content
    /\ UNCHANGED <<version, temp, dbVars, fd, overlapped, faults>>

WriteTemp(p) ==
    /\ At(p, "write", "rename")
    /\ content' = [content EXCEPT ![fd[p]] = "1"]
    /\ UNCHANGED <<version, temp, dbVars, fd, overlapped, faults>>

(* Mutant of Rename: the published file is read back.                      *)
RenameVerified(p) ==
    /\ temp # None
    /\ At(p, "rename", "read")
    /\ version' = temp
    /\ temp' = None
    /\ fd' = [fd EXCEPT ![p] = None]
    /\ UNCHANGED <<content, dbVars, overlapped, faults>>

(* Whatever file has the temporary name now becomes VERSION.               *)
Rename(p) ==
    /\ temp # None
    /\ At(p, "rename", "db")
    /\ version' = temp
    /\ temp' = None
    /\ fd' = [fd EXCEPT ![p] = None]
    /\ UNCHANGED <<content, dbVars, overlapped, faults>>

(* Another init has renamed it already: ENOENT.                            *)
RenameGone(p) ==
    /\ pc[p] = "rename"
    /\ temp = None
    /\ Return(p, "refused")
    /\ UNCHANGED <<fileVars, db, overlapped, faults>>

-----------------------------------------------------------------------------
(* index.redb *)

(* Mutant of CreateDb: without redb's lock.                                *)
CreateDbShared(p) ==
    /\ p \in Initer
    /\ At(p, "db", "tables")
    /\ db' = IF db = "none" THEN "bare" ELSE db
    /\ UNCHANGED <<fileVars, dbLock, fd, overlapped, faults>>

(* Database::create: opens the file, or makes one without tables.          *)
CreateDb(p) ==
    /\ p \in Initer
    /\ dbLock = None
    /\ At(p, "db", "tables")
    /\ db' = IF db = "none" THEN "bare" ELSE db
    /\ dbLock' = p
    /\ UNCHANGED <<fileVars, fd, overlapped, faults>>

(* Both tables in one transaction.                                         *)
CommitTables(p) ==
    /\ pc[p] = "tables"
    /\ db' = "tables"
    /\ Return(p, "ok")
    /\ UNCHANGED <<fileVars, overlapped, faults>>

(* The results of open_table are dropped: an init whose tables could not   *)
(* be made still commits, and returns.                                     *)
TablesDropped(p) ==
    /\ pc[p] = "tables"
    /\ Return(p, "ok")
    /\ faults' = faults \cup {"io"}
    /\ UNCHANGED <<fileVars, db, overlapped>>

(* Database::open: the file must be there.                                 *)
OpenDb(p) ==
    /\ p \in Opener
    /\ dbLock = None /\ db # "none"
    /\ At(p, "db", "opened")
    /\ dbLock' = p
    /\ UNCHANGED <<fileVars, db, fd, overlapped, faults>>

(* DatabaseAlreadyOpen, or no such file.                                   *)
DbRefused(p) ==
    /\ pc[p] = "db"
    /\ dbLock # None \/ (p \in Opener /\ db = "none")
    /\ Return(p, "refused")
    /\ UNCHANGED <<fileVars, db, overlapped, faults>>

(* The opened repository is dropped at the end of the command.             *)
Close(p) ==
    /\ pc[p] = "opened"
    /\ Return(p, "ok")
    /\ UNCHANGED <<fileVars, db, overlapped, faults>>

-----------------------------------------------------------------------------
(* Faults *)

(* A system call fails with an error of the disk; an init's first ones     *)
(* make the directories.                                                   *)
IoError(p) ==
    /\ pc[p] \in Running \/ (p \in Initer /\ pc[p] = "start")
    /\ Return(p, "ioerror")
    /\ faults' = faults \cup {"io"}
    /\ UNCHANGED <<fileVars, db, overlapped>>

Crash(p) ==
    /\ pc[p] \in Running
    /\ Return(p, "dead")
    /\ faults' = faults \cup {"crash"}
    /\ UNCHANGED <<fileVars, db, overlapped>>

ProcStep(p) ==
    \/ CheckPresent(p) \/ CheckAbsent(p) \/ NotARepository(p)
    \/ ReadVersion(p) \/ BadVersion(p)
    \/ OpenTemp(p) \/ WriteTemp(p) \/ Rename(p) \/ RenameGone(p)
    \/ CreateDb(p) \/ CommitTables(p) \/ TablesDropped(p) \/ OpenDb(p) \/ DbRefused(p) \/ Close(p)
    \/ IoError(p) \/ Crash(p)

Next == \E p \in Proc : ProcStep(p)

Spec == Init /\ [][Next]_vars

-----------------------------------------------------------------------------
InitsOver == \A p \in Initer : pc[p] \notin Running \cup {"start"}

(* docs/repository-format.md, "Existing v1 repositories are opened         *)
(* idempotently by `init`": calls that do not overlap are never refused,   *)
(* wherever earlier ones have died or failed.                              *)
LoneInitSucceeds == ~overlapped => \A p \in Initer : pc[p] # "refused"

(* However inits and opens overlap, without faults they leave a usable     *)
(* repository behind, although some of them may be refused.                *)
Usable ==
    faults = {} /\ InitsOver /\ Initer # {} =>
        /\ version # None
        /\ content[version] = "1"
        /\ db = "tables"

(* ... and one of the inits reports success.                               *)
WinnerExists ==
    faults = {} /\ InitsOver /\ Initer # {} => \E p \in Initer : pc[p] = "ok"

(* Nobody opens a repository without its tables, unless an init has failed *)
(* or was killed between creating the database and the tables, or has      *)
(* dropped an error of open_table, which counts as a fault here.           *)
OpenComplete == faults = {} => \A p \in Opener : pc[p] \in {"opened", "ok"} => db = "tables"
=============================================================================
