-------------------------- MODULE SubtaskSequence --------------------------
(***************************************************************************)
(* What the host and the container shell promise together: the subtasks of *)
(* a run are worked on in order, one attempt at a time, and the host       *)
(* judges an attempt once, and only after a report about that attempt.     *)
(***************************************************************************)
EXTENDS Naturals

CONSTANT N  \* the number of subtasks

VARIABLES
    at,     \* the subtask the run has come to
    tries,  \* its attempt
    work    \* the attempt: not begun, under way, or reported

avars == <<at, tries, work>>

Init == at = 1 /\ tries = 1 /\ work = "none"

Begin  == work = "none" /\ work' = "busy" /\ UNCHANGED <<at, tries>>
Report == work # "reported" /\ work' = "reported" /\ UNCHANGED <<at, tries>>

\* The container is gone, or the run is paused or stopped.
Drop == work # "none" /\ work' = "none" /\ UNCHANGED <<at, tries>>

Pass == work = "reported" /\ at < N /\ at' = at + 1 /\ tries' = 1 /\ work' = "none"
Fail == work = "reported" /\ tries' = tries + 1 /\ work' = "none" /\ UNCHANGED at

Next == Begin \/ Report \/ Drop \/ Pass \/ Fail

Spec == Init /\ [][Next]_avars
=============================================================================
