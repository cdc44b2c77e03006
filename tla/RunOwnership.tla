---------------------------- MODULE RunOwnership ----------------------------
(***************************************************************************)
(* What the status of a stored run promises: it is the lock of the run.    *)
(* While the status says "live" nobody takes the run; only the process     *)
(* that took it gives it back.  A process may also lose it - it dies or    *)
(* gives up without writing - and then the status stays live.              *)
(***************************************************************************)
CONSTANTS Procs

VARIABLES
    live,    \* the stored status is starting, running, pausing, ...
    owners   \* the processes that drive the run

vars == <<live, owners>>

TypeOK == live \in BOOLEAN /\ owners \subseteq Procs

Init == live = FALSE /\ owners = {}

Take(p) == ~live /\ owners = {} /\ live' = TRUE /\ owners' = {p}

GiveBack(p) == owners = {p} /\ live' = FALSE /\ owners' = {}

Lose(p) == owners = {p} /\ live' = live /\ owners' = {}

Next == \E p \in Procs : Take(p) \/ GiveBack(p) \/ Lose(p)

Spec == Init /\ [][Next]_vars

=============================================================================
