-------------------------- MODULE RepositoryInitProofs --------------------------
(***************************************************************************)
(* The promises of init and open, for any number of concurrent calls.      *)
(***************************************************************************)
EXTENDS RepositoryInit, Integers, TLAPS

(* What a call knows where it is, and who has the database open.           *)
Places ==
    \A p \in Proc :
        /\ pc[p] \in {"open", "write", "rename", "tables"} => p \in Initer
        /\ pc[p] = "opened" => p \in Opener
        /\ pc[p] \in {"write", "rename"} => fd[p] \in Inode
        /\ pc[p] \in {"read", "db", "tables", "opened"} => version # None
        /\ dbLock = p <=> pc[p] \in {"tables", "opened"}

(* An init that has not created its inode has it nowhere; an inode has one *)
(* name.                                                                   *)
Fresh ==
    /\ \A p \in Initer : pc[p] \in {"start", "open"} => version # p /\ temp # p
    /\ temp # None => temp # version

(* As long as no calls overlap, VERSION is never open for writing, and the *)
(* temporary file is the call's own.                                       *)
Alone ==
    ~overlapped =>
        /\ \A p, q \in Proc : pc[p] \in Running /\ pc[q] \in Running => p = q
        /\ version # None => content[version] = "1"
        /\ \A p \in Initer :
            /\ pc[p] \in {"write", "rename"} => fd[p] = temp
            /\ pc[p] = "rename" => content[temp] = "1"
            /\ pc[p] # "refused"

(* Somebody is about to write the file i.                                  *)
BeingWritten(i) == \E p \in Initer : pc[p] = "write" /\ fd[p] = i

(* Without faults, an empty file has somebody who will write it,           *)
Written ==
    /\ version # None => content[version] = "1" \/ BeingWritten(version)
    /\ temp # None => content[temp] = "1" \/ BeingWritten(temp)

(* an init that has got far enough has seen a file,                        *)
Seen ==
    \A p \in Initer :
        /\ pc[p] \notin {"dead", "ioerror"}
        /\ pc[p] \in {"write", "rename"} => temp # None \/ version # None
        /\ pc[p] \in {"ok", "refused"} => version # None

(* and a repository without tables has somebody who will create them.      *)
Served ==
    /\ version # None => db = "tables" \/ \E p \in Initer : pc[p] \in {"db", "tables"}
    /\ db = "tables" => \E p \in Initer : pc[p] = "ok"
    /\ db = "bare" => dbLock # None
    /\ \A p \in Opener : pc[p] \in {"opened", "ok"} => db = "tables"

Faultless == faults = {} => Written /\ Seen /\ Served

IInv == TypeOK /\ Places /\ Fresh /\ Alone /\ Faultless

LEMMA InitIInv == Init => IInv
<1> SUFFICES ASSUME Init PROVE IInv
  OBVIOUS
<1>1. TypeOK
  BY DEF Init, TypeOK, Content, Inode, Proc
<1> QED
  BY <1>1, RepositoryInitAssumption DEF Init, IInv, Places, Fresh, Alone, Faultless, Written, Seen, Served,
     Running, Proc

-----------------------------------------------------------------------------
(* The calls *)

LEMMA CheckPresentIInv == ASSUME IInv, NEW p \in Proc, CheckPresent(p) PROVE IInv'
<1> USE RepositoryInitAssumption
    DEF IInv, CheckPresent, At, Begins, fileVars, dbVars, Running, Proc, Inode
<1>1. TypeOK'
  BY DEF TypeOK, Content, Places
<1>2. Places'
  BY DEF TypeOK, Places
<1>3. Fresh'
  BY DEF TypeOK, Places, Fresh
<1>4. Alone'
  BY DEF TypeOK, Content, Places, Fresh, Alone
<1>5. faults' = {} => Written'
  BY DEF TypeOK, Content, Places, Fresh, Faultless, Written, BeingWritten
<1>6. faults' = {} => Seen'
  BY DEF TypeOK, Places, Faultless, Seen
<1>7. faults' = {} => Served'
  BY DEF TypeOK, Places, Faultless, Seen, Served
<1> QED
  BY <1>1, <1>2, <1>3, <1>4, <1>5, <1>6, <1>7 DEF Faultless

LEMMA CheckAbsentIInv == ASSUME IInv, NEW p \in Proc, CheckAbsent(p) PROVE IInv'
<1> USE RepositoryInitAssumption
    DEF IInv, CheckAbsent, At, Begins, fileVars, dbVars, Running, Proc, Inode
<1>1. TypeOK'
  BY DEF TypeOK, Content, Places
<1>2. Places'
  BY DEF TypeOK, Places
<1>3. Fresh'
  BY DEF TypeOK, Places, Fresh
<1>4. Alone'
  BY DEF TypeOK, Content, Places, Fresh, Alone
<1>5. faults' = {} => Written'
  BY DEF TypeOK, Content, Places, Fresh, Faultless, Written, BeingWritten
<1>6. faults' = {} => Seen'
  BY DEF TypeOK, Places, Faultless, Seen
<1>7. faults' = {} => Served'
  BY DEF TypeOK, Places, Faultless, Seen, Served
<1> QED
  BY <1>1, <1>2, <1>3, <1>4, <1>5, <1>6, <1>7 DEF Faultless

LEMMA NotARepositoryIInv == ASSUME IInv, NEW p \in Proc, NotARepository(p) PROVE IInv'
<1> USE RepositoryInitAssumption
    DEF IInv, NotARepository, At, Begins, fileVars, dbVars, Running, Proc, Inode
<1>1. TypeOK'
  BY DEF TypeOK, Content, Places
<1>2. Places'
  BY DEF TypeOK, Places
<1>3. Fresh'
  BY DEF TypeOK, Places, Fresh
<1>4. Alone'
  BY DEF TypeOK, Content, Places, Fresh, Alone
<1>5. faults' = {} => Written'
  BY DEF TypeOK, Content, Places, Fresh, Faultless, Written, BeingWritten
<1>6. faults' = {} => Seen'
  BY DEF TypeOK, Places, Faultless, Seen
<1>7. faults' = {} => Served'
  BY DEF TypeOK, Places, Faultless, Seen, Served
<1> QED
  BY <1>1, <1>2, <1>3, <1>4, <1>5, <1>6, <1>7 DEF Faultless

LEMMA ReadVersionIInv == ASSUME IInv, NEW p \in Proc, ReadVersion(p) PROVE IInv'
<1> USE RepositoryInitAssumption
    DEF IInv, ReadVersion, At, fileVars, dbVars, Running, Proc, Inode
<1>1. TypeOK'
  BY DEF TypeOK, Content, Places
<1>2. Places'
  BY DEF TypeOK, Places
<1>3. Fresh'
  BY DEF TypeOK, Places, Fresh
<1>4. Alone'
  BY DEF TypeOK, Content, Places, Fresh, Alone
<1>5. faults' = {} => Written'
  BY DEF TypeOK, Content, Places, Fresh, Faultless, Written, BeingWritten
<1>6. faults' = {} => Seen'
  BY DEF TypeOK, Places, Faultless, Seen
<1>7. faults' = {} => Served'
  BY DEF TypeOK, Places, Faultless, Seen, Served
<1> QED
  BY <1>1, <1>2, <1>3, <1>4, <1>5, <1>6, <1>7 DEF Faultless

LEMMA BadVersionIInv == ASSUME IInv, NEW p \in Proc, BadVersion(p) PROVE IInv'
<1> USE RepositoryInitAssumption
    DEF IInv, BadVersion, Return, fileVars, Running, Proc, Inode
<1>1. TypeOK'
  BY DEF TypeOK, Content, Places
<1>2. Places'
  BY DEF TypeOK, Places
<1>3. Fresh'
  BY DEF TypeOK, Places, Fresh
<1>4. Alone'
  BY DEF TypeOK, Content, Places, Fresh, Alone
<1>5. faults' = {} => Written'
  BY ZenonT(30) DEF TypeOK, Content, Places, Fresh, Faultless, Written, BeingWritten
<1>6. faults' = {} => Seen'
  BY DEF TypeOK, Places, Faultless, Seen
<1>7. faults' = {} => Served'
  BY DEF TypeOK, Places, Faultless, Seen, Served
<1> QED
  BY <1>1, <1>2, <1>3, <1>4, <1>5, <1>6, <1>7 DEF Faultless

LEMMA OpenTempIInv == ASSUME IInv, NEW p \in Proc, OpenTemp(p) PROVE IInv'
<1> USE RepositoryInitAssumption
    DEF IInv, OpenTemp, At, dbVars, Running, Proc, Inode
<1>1. TypeOK'
  BY DEF TypeOK, Content, Places
<1>2. Places'
  BY DEF TypeOK, Places
<1>3. Fresh'
  BY DEF TypeOK, Places, Fresh
<1>4. Alone'
  BY DEF TypeOK, Content, Places, Fresh, Alone
<1>5. faults' = {} => Written'
  BY DEF TypeOK, Content, Places, Fresh, Faultless, Written, BeingWritten
<1>6. faults' = {} => Seen'
  BY DEF TypeOK, Places, Faultless, Seen
<1>7. faults' = {} => Served'
  BY DEF TypeOK, Places, Faultless, Seen, Served
<1> QED
  BY <1>1, <1>2, <1>3, <1>4, <1>5, <1>6, <1>7 DEF Faultless

LEMMA WriteTempIInv == ASSUME IInv, NEW p \in Proc, WriteTemp(p) PROVE IInv'
<1> USE RepositoryInitAssumption
    DEF IInv, WriteTemp, At, dbVars, Running, Proc, Inode
<1>1. TypeOK'
  BY DEF TypeOK, Content, Places
<1>2. Places'
  BY DEF TypeOK, Places
<1>3. Fresh'
  BY DEF TypeOK, Places, Fresh
<1>4. Alone'
  <2> SUFFICES ASSUME ~overlapped
               PROVE  /\ \A q, r \in Proc : pc'[q] \in Running /\ pc'[r] \in Running => q = r
                      /\ version # None => content'[version] = "1"
                      /\ \A q \in Initer :
                          /\ pc'[q] \in {"write", "rename"} => fd[q] = temp
                          /\ pc'[q] = "rename" => content'[temp] = "1"
                          /\ pc'[q] # "refused"
    BY DEF Alone
  <2>1. fd[p] = temp /\ temp \in Inode /\ content'[temp] = "1"
    BY DEF TypeOK, Places, Alone
  <2>2. version # None => content'[version] = "1"
    BY DEF TypeOK, Alone
  <2>3. /\ pc' = [pc EXCEPT ![p] = "rename"] /\ pc[p] = "write"
        /\ \A q \in Initer : pc'[q] # "refused"
    BY DEF TypeOK, Alone
  <2>4. \A q, r \in Proc : pc'[q] \in Running /\ pc'[r] \in Running => q = r
    BY <2>3 DEF TypeOK, Alone
  <2>5. \A q \in Initer : pc'[q] \in {"write", "rename"} => fd[q] = temp
    BY <2>1, <2>3 DEF TypeOK, Alone
  <2> QED
    BY <2>1, <2>2, <2>3, <2>4, <2>5
<1>5. faults' = {} => Written'
  BY DEF TypeOK, Content, Places, Fresh, Faultless, Written, BeingWritten
<1>6. faults' = {} => Seen'
  BY DEF TypeOK, Places, Faultless, Seen
<1>7. faults' = {} => Served'
  BY DEF TypeOK, Places, Faultless, Seen, Served
<1> QED
  BY <1>1, <1>2, <1>3, <1>4, <1>5, <1>6, <1>7 DEF Faultless

LEMMA RenameIInv == ASSUME IInv, NEW p \in Proc, Rename(p) PROVE IInv'
<1> USE RepositoryInitAssumption
    DEF IInv, Rename, At, dbVars, Running, Proc, Inode
<1>1. TypeOK'
  BY DEF TypeOK, Content, Places
<1>2. Places'
  BY DEF TypeOK, Places
<1>3. Fresh'
  BY DEF TypeOK, Places, Fresh
<1>4. Alone'
  BY DEF TypeOK, Content, Places, Fresh, Alone
<1>5. faults' = {} => Written'
  BY DEF TypeOK, Content, Places, Fresh, Faultless, Written, BeingWritten
<1>6. faults' = {} => Seen'
  BY DEF TypeOK, Places, Faultless, Seen
<1>7. faults' = {} => Served'
  BY DEF TypeOK, Places, Faultless, Seen, Served
<1> QED
  BY <1>1, <1>2, <1>3, <1>4, <1>5, <1>6, <1>7 DEF Faultless

LEMMA RenameGoneIInv == ASSUME IInv, NEW p \in Proc, RenameGone(p) PROVE IInv'
<1> USE RepositoryInitAssumption
    DEF IInv, RenameGone, Return, fileVars, Running, Proc, Inode
<1>1. TypeOK'
  BY DEF TypeOK, Content, Places
<1>2. Places'
  BY DEF TypeOK, Places
<1>3. Fresh'
  BY DEF TypeOK, Places, Fresh
<1>4. Alone'
  BY DEF TypeOK, Content, Places, Fresh, Alone
<1>5. faults' = {} => Written'
  BY DEF TypeOK, Content, Places, Fresh, Faultless, Written, BeingWritten
<1>6. faults' = {} => Seen'
  BY DEF TypeOK, Places, Faultless, Seen
<1>7. faults' = {} => Served'
  BY DEF TypeOK, Places, Faultless, Seen, Served
<1> QED
  BY <1>1, <1>2, <1>3, <1>4, <1>5, <1>6, <1>7 DEF Faultless

LEMMA CreateDbIInv == ASSUME IInv, NEW p \in Proc, CreateDb(p) PROVE IInv'
<1> USE RepositoryInitAssumption
    DEF IInv, CreateDb, At, fileVars, Running, Proc, Inode
<1>1. TypeOK'
  BY DEF TypeOK, Content, Places
<1>2. Places'
  BY DEF TypeOK, Places
<1>3. Fresh'
  BY DEF TypeOK, Places, Fresh
<1>4. Alone'
  BY DEF TypeOK, Content, Places, Fresh, Alone
<1>5. faults' = {} => Written'
  BY DEF TypeOK, Content, Places, Fresh, Faultless, Written, BeingWritten
<1>6. faults' = {} => Seen'
  BY DEF TypeOK, Places, Faultless, Seen
<1>7. faults' = {} => Served'
  BY DEF TypeOK, Places, Faultless, Seen, Served
<1> QED
  BY <1>1, <1>2, <1>3, <1>4, <1>5, <1>6, <1>7 DEF Faultless

LEMMA CommitTablesIInv == ASSUME IInv, NEW p \in Proc, CommitTables(p) PROVE IInv'
<1> USE RepositoryInitAssumption
    DEF IInv, CommitTables, Return, fileVars, Running, Proc, Inode
<1>1. TypeOK'
  BY DEF TypeOK, Content, Places
<1>2. Places'
  BY DEF TypeOK, Places
<1>3. Fresh'
  BY DEF TypeOK, Places, Fresh
<1>4. Alone'
  BY DEF TypeOK, Content, Places, Fresh, Alone
<1>5. faults' = {} => Written'
  <2>1. \A q \in Initer : pc[q] = "write" => pc'[q] = "write" /\ fd'[q] = fd[q]
    BY DEF TypeOK
  <2>2. \A i \in Inode : BeingWritten(i) => BeingWritten(i)'
    BY <2>1 DEF BeingWritten
  <2> QED
    BY <2>2 DEF TypeOK, Faultless, Written
<1>6. faults' = {} => Seen'
  BY DEF TypeOK, Places, Faultless, Seen
<1>7. faults' = {} => Served'
  BY DEF TypeOK, Places, Faultless, Seen, Served
<1> QED
  BY <1>1, <1>2, <1>3, <1>4, <1>5, <1>6, <1>7 DEF Faultless

LEMMA TablesDroppedIInv == ASSUME IInv, NEW p \in Proc, TablesDropped(p) PROVE IInv'
<1> USE RepositoryInitAssumption
    DEF IInv, TablesDropped, Return, fileVars, Running, Proc, Inode
<1>1. TypeOK'
  BY DEF TypeOK, Content, Places
<1>2. Places'
  BY DEF TypeOK, Places
<1>3. Fresh'
  BY DEF TypeOK, Places, Fresh
<1>4. Alone'
  BY DEF TypeOK, Content, Places, Fresh, Alone
<1>5. faults' = {} => Written'
  BY DEF TypeOK, Content, Places, Fresh, Faultless, Written, BeingWritten
<1>6. faults' = {} => Seen'
  BY DEF TypeOK, Places, Faultless, Seen
<1>7. faults' = {} => Served'
  BY DEF TypeOK, Places, Faultless, Seen, Served
<1> QED
  BY <1>1, <1>2, <1>3, <1>4, <1>5, <1>6, <1>7 DEF Faultless

LEMMA OpenDbIInv == ASSUME IInv, NEW p \in Proc, OpenDb(p) PROVE IInv'
<1> USE RepositoryInitAssumption
    DEF IInv, OpenDb, At, fileVars, Running, Proc, Inode
<1>1. TypeOK'
  BY DEF TypeOK, Content, Places
<1>2. Places'
  BY DEF TypeOK, Places
<1>3. Fresh'
  BY DEF TypeOK, Places, Fresh
<1>4. Alone'
  BY DEF TypeOK, Content, Places, Fresh, Alone
<1>5. faults' = {} => Written'
  BY DEF TypeOK, Content, Places, Fresh, Faultless, Written, BeingWritten
<1>6. faults' = {} => Seen'
  BY DEF TypeOK, Places, Faultless, Seen
<1>7. faults' = {} => Served'
  BY DEF TypeOK, Places, Faultless, Seen, Served
<1> QED
  BY <1>1, <1>2, <1>3, <1>4, <1>5, <1>6, <1>7 DEF Faultless

LEMMA DbRefusedIInv == ASSUME IInv, NEW p \in Proc, DbRefused(p) PROVE IInv'
<1> USE RepositoryInitAssumption
    DEF IInv, DbRefused, Return, fileVars, Running, Proc, Inode
<1>1. TypeOK'
  BY DEF TypeOK, Content, Places
<1>2. Places'
  BY DEF TypeOK, Places
<1>3. Fresh'
  BY DEF TypeOK, Places, Fresh
<1>4. Alone'
  BY ZenonT(30) DEF TypeOK, Content, Places, Fresh, Alone
<1>5. faults' = {} => Written'
  BY DEF TypeOK, Content, Places, Fresh, Faultless, Written, BeingWritten
<1>6. faults' = {} => Seen'
  BY DEF TypeOK, Places, Faultless, Seen
<1>7. faults' = {} => Served'
  BY DEF TypeOK, Places, Faultless, Seen, Served
<1> QED
  BY <1>1, <1>2, <1>3, <1>4, <1>5, <1>6, <1>7 DEF Faultless

LEMMA CloseIInv == ASSUME IInv, NEW p \in Proc, Close(p) PROVE IInv'
<1> USE RepositoryInitAssumption
    DEF IInv, Close, Return, fileVars, Running, Proc, Inode
<1>1. TypeOK'
  BY DEF TypeOK, Content, Places
<1>2. Places'
  BY DEF TypeOK, Places
<1>3. Fresh'
  BY DEF TypeOK, Places, Fresh
<1>4. Alone'
  BY DEF TypeOK, Content, Places, Fresh, Alone
<1>5. faults' = {} => Written'
  BY DEF TypeOK, Content, Places, Fresh, Faultless, Written, BeingWritten
<1>6. faults' = {} => Seen'
  BY DEF TypeOK, Places, Faultless, Seen
<1>7. faults' = {} => Served'
  BY DEF TypeOK, Places, Faultless, Seen, Served
<1> QED
  BY <1>1, <1>2, <1>3, <1>4, <1>5, <1>6, <1>7 DEF Faultless

LEMMA IoErrorIInv == ASSUME IInv, NEW p \in Proc, IoError(p) PROVE IInv'
<1> USE RepositoryInitAssumption
    DEF IInv, IoError, Return, fileVars, Running, Proc, Inode
<1>1. TypeOK'
  BY DEF TypeOK, Content, Places
<1>2. Places'
  BY DEF TypeOK, Places
<1>3. Fresh'
  BY DEF TypeOK, Places, Fresh
<1>4. Alone'
  BY DEF TypeOK, Content, Places, Fresh, Alone
<1>5. faults' = {} => Written'
  BY DEF TypeOK, Content, Places, Fresh, Faultless, Written, BeingWritten
<1>6. faults' = {} => Seen'
  BY DEF TypeOK, Places, Faultless, Seen
<1>7. faults' = {} => Served'
  BY DEF TypeOK, Places, Faultless, Seen, Served
<1> QED
  BY <1>1, <1>2, <1>3, <1>4, <1>5, <1>6, <1>7 DEF Faultless

LEMMA CrashIInv == ASSUME IInv, NEW p \in Proc, Crash(p) PROVE IInv'
<1> USE RepositoryInitAssumption
    DEF IInv, Crash, Return, fileVars, Running, Proc, Inode
<1>1. TypeOK'
  BY DEF TypeOK, Content, Places
<1>2. Places'
  BY DEF TypeOK, Places
<1>3. Fresh'
  BY DEF TypeOK, Places, Fresh
<1>4. Alone'
  BY DEF TypeOK, Content, Places, Fresh, Alone
<1>5. faults' = {} => Written'
  BY DEF TypeOK, Content, Places, Fresh, Faultless, Written, BeingWritten
<1>6. faults' = {} => Seen'
  BY DEF TypeOK, Places, Faultless, Seen
<1>7. faults' = {} => Served'
  BY DEF TypeOK, Places, Faultless, Seen, Served
<1> QED
  BY <1>1, <1>2, <1>3, <1>4, <1>5, <1>6, <1>7 DEF Faultless

LEMMA NextIInv == ASSUME IInv, [Next]_vars PROVE IInv'
<1>1. ASSUME NEW p \in Proc, ProcStep(p) PROVE IInv'
  BY <1>1, CheckPresentIInv, CheckAbsentIInv, NotARepositoryIInv, ReadVersionIInv, BadVersionIInv,
     OpenTempIInv, WriteTempIInv, RenameIInv, RenameGoneIInv, CreateDbIInv, CommitTablesIInv,
     TablesDroppedIInv, OpenDbIInv, DbRefusedIInv, CloseIInv, IoErrorIInv, CrashIInv DEF ProcStep
<1>2. CASE UNCHANGED vars
  BY <1>2 DEF vars, fileVars, dbVars, IInv, TypeOK, Places, Fresh, Alone, Faultless, Written, Seen,
     Served, BeingWritten
<1> QED
  BY <1>1, <1>2 DEF Next

-----------------------------------------------------------------------------
(* The theorems *)

(* The invariant holds in every behaviour.                                 *)
THEOREM Invariance == Spec => []IInv
<1>1. Init => IInv
  BY InitIInv
<1>2. IInv /\ [Next]_vars => IInv'
  BY NextIInv
<1> QED
  BY <1>1, <1>2, PTL DEF Spec

(* Types.                                                                  *)
THEOREM TypeCorrect == Spec => []TypeOK
<1>1. IInv => TypeOK
  BY DEF IInv
<1> QED
  BY <1>1, Invariance, PTL

(* init after any number of failed, killed or successful ones              *)
(* (repository.rs:54-97).                                                  *)
THEOREM InitIdempotent == Spec => []LoneInitSucceeds
<1>1. IInv => LoneInitSucceeds
  BY DEF IInv, Alone, LoneInitSucceeds
<1> QED
  BY <1>1, Invariance, PTL

(* All inits of a path together make a repository.                         *)
THEOREM LeavesUsable == Spec => []Usable
<1>1. ASSUME IInv PROVE Usable
  <2> SUFFICES ASSUME faults = {}, InitsOver, Initer # {}
               PROVE  version # None /\ content[version] = "1" /\ db = "tables"
    BY DEF Usable
  <2>1. Written /\ Seen /\ Served /\ \A p \in Initer : pc[p] \in {"ok", "refused"}
    BY <1>1 DEF IInv, Faultless, TypeOK, InitsOver, Proc, Seen
  <2>2. version # None
    BY <2>1 DEF Seen
  <2> QED
    BY <2>1, <2>2 DEF Written, BeingWritten, Served
<1> QED
  BY <1>1, Invariance, PTL

(* ... and are not all refused.                                            *)
THEOREM OneInitWins == Spec => []WinnerExists
<1>1. ASSUME IInv PROVE WinnerExists
  <2> SUFFICES ASSUME faults = {}, InitsOver, Initer # {} PROVE \E p \in Initer : pc[p] = "ok"
    BY DEF WinnerExists
  <2>1. Seen /\ Served /\ \A p \in Initer : pc[p] \in {"ok", "refused"}
    BY <1>1 DEF IInv, Faultless, TypeOK, InitsOver, Proc, Seen
  <2> QED
    BY <2>1 DEF Seen, Served
<1> QED
  BY <1>1, Invariance, PTL

(* What opens has its tables (repository.rs:99-128).                       *)
THEOREM OpensComplete == Spec => []OpenComplete
<1>1. IInv => OpenComplete
  BY DEF IInv, Faultless, Served, OpenComplete
<1> QED
  BY <1>1, Invariance, PTL

-----------------------------------------------------------------------------
(* A bound on the steps of a call *)

(* How many steps p still takes, at most.                                  *)
Remaining(p) ==
    [start |-> 6, open |-> 5, write |-> 4, rename |-> 3, read |-> 3, db |-> 2,
     tables |-> 1, opened |-> 1, ok |-> 0, refused |-> 0, ioerror |-> 0, dead |-> 0][pc[p]]

(* Every step of an init or an open brings it nearer to its end, and the   *)
(* steps of the others take nothing back: no call goes round, or takes     *)
(* more than six steps (repository.rs:54-128).                             *)
CallsMoveOn ==
    [][\E p \in Proc :
        /\ Remaining(p)' < Remaining(p) /\ Remaining(p) \in 0 .. 6
        /\ \A q \in Proc \ {p} : Remaining(q)' = Remaining(q)]_vars

THEOREM CallsEnd == Spec => CallsMoveOn
<1>1. ASSUME TypeOK, NEW p \in Proc, ProcStep(p)
      PROVE  /\ Remaining(p)' < Remaining(p) /\ Remaining(p) \in 0 .. 6
             /\ \A q \in Proc \ {p} : Remaining(q)' = Remaining(q)
  <2>1. /\ pc \in [Proc -> Running \cup {"start", "ok", "refused", "ioerror", "dead"}]
    BY <1>1 DEF TypeOK
  <2>2. \E there \in {"ok", "refused", "ioerror", "dead"} \cup Running :
            /\ pc' = [pc EXCEPT ![p] = there]
            /\ \/ pc[p] = "start" /\ there \in {"read", "open", "refused", "ioerror"}
               \/ pc[p] = "read" /\ there = "db"
               \/ pc[p] = "open" /\ there = "write"
               \/ pc[p] = "write" /\ there = "rename"
               \/ pc[p] = "rename" /\ there = "db"
               \/ pc[p] = "db" /\ there \in {"tables", "opened"}
               \/ pc[p] \in Running /\ there \in {"ok", "refused", "ioerror", "dead"}
    <3>1. CASE CheckPresent(p) \/ CheckAbsent(p) \/ NotARepository(p)
      BY <3>1 DEF CheckPresent, CheckAbsent, NotARepository, At, Running
    <3>2. CASE ReadVersion(p) \/ OpenTemp(p) \/ WriteTemp(p) \/ Rename(p) \/ CreateDb(p) \/ OpenDb(p)
      BY <3>2 DEF ReadVersion, OpenTemp, WriteTemp, Rename, CreateDb, OpenDb, At, Running
    <3>3. CASE BadVersion(p) \/ RenameGone(p) \/ CommitTables(p) \/ TablesDropped(p)
               \/ DbRefused(p) \/ Close(p) \/ IoError(p) \/ Crash(p)
      BY <3>3 DEF BadVersion, RenameGone, CommitTables, TablesDropped, DbRefused, Close, IoError,
         Crash, Return, Running
    <3> QED
      BY <1>1, <3>1, <3>2, <3>3 DEF ProcStep
  <2> QED
    BY <2>1, <2>2 DEF Remaining, Running
<1>2. TypeOK /\ [Next]_vars =>
        [\E p \in Proc :
            /\ Remaining(p)' < Remaining(p) /\ Remaining(p) \in 0 .. 6
            /\ \A q \in Proc \ {p} : Remaining(q)' = Remaining(q)]_vars
  BY <1>1 DEF Next
<1> QED
  BY <1>2, TypeCorrect, PTL DEF Spec, CallsMoveOn
=============================================================================
