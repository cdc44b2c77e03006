------------------------------ MODULE Delivery ------------------------------
(***************************************************************************)
(* The end of a run: a session with its engines (EngineResources), and,    *)
(* when that is over, what happens to the commits in the host's repository *)
(* (HostDelivery).  Only tests that passed in a session nobody interrupted *)
(* deliver the run by themselves; `run apply` and `run merge` take the     *)
(* commits of any run.                                                     *)
(***************************************************************************)
EXTENDS HostDelivery

CONSTANTS TestRetries, Composed

ASSUME RetriesAssumption == TestRetries \in Nat \ {0}

VARIABLES
    stage,  \* "session", then what came of it: "passed" or "unproven"
    docker, pc, infra, engines, verdict, sig, todo, held, unreturned, missed

session == <<docker, pc, infra, engines, verdict, sig, todo, held, unreturned, missed>>

Session == INSTANCE EngineResources

DeliveryInit == stage = "session" /\ Session!Init /\ Init

\* What the session leaves in Docker plays no part from here on.
EndSession ==
    /\ stage = "session" /\ Session!Gone
    /\ stage' = IF sig = "none" /\ pc[0] = "closed" /\ verdict = "passed" THEN "passed" ELSE "unproven"
    /\ docker' = {} /\ infra' = [e \in Session!Engines |-> Session!None]
    /\ unreturned' = {} /\ missed' = {} /\ engines' = <<>> /\ verdict' = "none" /\ sig' = "none"
    /\ pc' = [e \in Session!Engines |-> "idle"] /\ todo' = <<>> /\ held' = Session!None
    /\ UNCHANGED vars

DeliveryNext ==
    \/ stage = "session" /\ Session!Next /\ UNCHANGED <<vars, stage>>
    \/ EndSession
    \/ stage = "passed" /\ DeliverNext /\ UNCHANGED <<session, stage>>
    \/ stage # "session" /\ UNCHANGED <<session, stage>>
          /\ (UserNext \/ BranchNext \/ MergeNext \/ Kill)

DeliverySpec == DeliveryInit /\ [][DeliveryNext]_<<vars, session, stage>>

\* When the process is gone nothing is left in Docker but for the reasons
\* Session!NothingLeaks names.
NothingLeaks == Session!NothingLeaks
=============================================================================
