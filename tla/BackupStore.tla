------------------------------ MODULE BackupStore ------------------------------
(***************************************************************************)
(* What a repository promises those who list it: one backup at a time,     *)
(* each stored at one instant and whole, and never changed or taken away   *)
(* after that, whatever becomes of the process and the machine.  A backup  *)
(* that succeeded is stored; one that failed may be.  Next to the stored   *)
(* backups lie copies, which come later and may be lost.                   *)
(***************************************************************************)
CONSTANTS
    Backup,         \* the backups
    Content,        \* Content[j]: what j is to store
    Absent          \* nothing stored; no backup's content

VARIABLES
    stored,         \* stored[j]: what listing the repository finds of j
    result,         \* result[j]: what j's caller knows
    copies          \* the backups with a copy

vars == <<stored, result, copies>>

Busy == {j \in Backup : result[j] = "running"}

Init ==
    /\ stored = [j \in Backup |-> Absent]
    /\ result = [j \in Backup |-> "none"]
    /\ copies = {}

Becomes(j, r) == result' = [result EXCEPT ![j] = r]

Start(j) ==
    /\ result[j] = "none"
    /\ Busy = {}
    /\ Becomes(j, "running")
    /\ UNCHANGED <<stored, copies>>

(* Turned away: another one is running, or something else is wrong.        *)
TurnAway(j) ==
    /\ result[j] = "none"
    /\ Becomes(j, "failed") \/ (Busy # {} /\ Becomes(j, "locked"))
    /\ UNCHANGED <<stored, copies>>

StoreWhole(j) ==
    /\ result[j] = "running"
    /\ stored[j] = Absent
    /\ stored' = [stored EXCEPT ![j] = Content[j]]
    /\ UNCHANGED <<result, copies>>

Succeed(j) ==
    /\ result[j] = "running"
    /\ stored[j] # Absent
    /\ copies' = copies \cup {j}
    /\ Becomes(j, "done")
    /\ UNCHANGED stored

Fail(j) ==
    /\ result[j] = "running"
    /\ Becomes(j, "failed")
    /\ UNCHANGED <<stored, copies>>

(* The process or the machine dies: the one that is running fails, and     *)
(* copies may be lost.                                                     *)
Die ==
    /\ result' = [j \in Backup |-> IF j \in Busy THEN "failed" ELSE result[j]]
    /\ copies' \in SUBSET copies
    /\ UNCHANGED stored

Next ==
    \/ \E j \in Backup : Start(j) \/ TurnAway(j) \/ StoreWhole(j) \/ Succeed(j) \/ Fail(j)
    \/ Die

Spec == Init /\ [][Next]_vars
================================================================================
