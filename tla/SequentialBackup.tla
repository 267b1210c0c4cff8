--------------------------- MODULE SequentialBackup ---------------------------
(***************************************************************************)
(* What engine::backup promises its caller, with no threads and no queues: *)
(* the chunks of the source are recorded one by one, in source order, and  *)
(* the backup is published only when every one of them has been recorded.  *)
(* It may fail at any moment before that, and it always ends.              *)
(***************************************************************************)
EXTENDS Naturals, Sequences

CONSTANT NumChunks      \* chunks the source is cut into

VARIABLES
    recorded,           \* indices of the chunks recorded so far, in order
    outcome             \* "running", "committed" or "failed"

vars == <<recorded, outcome>>

Init ==
    /\ recorded = <<>>
    /\ outcome = "running"

Record ==
    /\ outcome = "running"
    /\ Len(recorded) < NumChunks
    /\ recorded' = Append(recorded, Len(recorded))
    /\ UNCHANGED outcome

Commit ==
    /\ outcome = "running"
    /\ Len(recorded) = NumChunks
    /\ outcome' = "committed"
    /\ UNCHANGED recorded

Fail ==
    /\ outcome = "running"
    /\ outcome' = "failed"
    /\ UNCHANGED recorded

Next == Record \/ Commit \/ Fail

(* The safety part, and the promise as a whole: a backup that has begun    *)
(* ends, one way or the other.                                             *)
SafeSpec == Init /\ [][Next]_vars
Spec == SafeSpec /\ WF_vars(Next)
=============================================================================
