-------------------------- MODULE EngineResources --------------------------
(***************************************************************************)
(* What a session of a run makes in Docker and takes away again: the       *)
(* coding engine (engine 0), the staging engine of each test attempt       *)
(* (engines 1, 2, ...), and the cleanup registry that works beside them    *)
(* when Ctrl+C comes (DockerEngine, runEngineAttempt,                      *)
(* runStagingTestVerification, CleanupRegistry).                           *)
(*                                                                         *)
(* Docker removes what it is told to remove, except a network with         *)
(* containers.                                                             *)
(***************************************************************************)
EXTENDS Naturals, Sequences, FiniteSets, SequencesExt

CONSTANTS
    TestRetries,  \* test attempts per verification
    Composed      \* the engines with a compose file

VARIABLES
    docker,    \* what there is: pairs of an engine and a thing
    pc,        \* where each engine's life is
    infra,     \* codingInfraRef, stagingInfraRef: the things an engine knows of
    engines,   \* the cleanup registry
    verdict,   \* of the tests
    sig,       \* where the cleanup after Ctrl+C is
    todo,      \* the engines it still has to tear down
    held,      \* the infra of the one it tears down
    unreturned,\* ghost: made by a step that has not returned, or has thrown
    missed     \* ghost: made, or its step returned, after the cleanup had come by

vars == <<docker, pc, infra, engines, verdict, sig, todo, held, unreturned, missed>>

Attempts == 1 .. TestRetries
Engines == 0 .. TestRetries

None == {"none"}

Containers == {"coder", "app", "tests"}

Things(e, what) == {e} \X what

Of(e) == {x \in docker : x[1] = e}

Attached(e) == Of(e) \intersect Things(e, Containers \union {"compose"})

Init ==
    /\ docker = {} /\ pc = [e \in Engines |-> "idle"] /\ infra = [e \in Engines |-> None]
    /\ engines = <<>> /\ verdict = "none" /\ sig = "none" /\ todo = <<>> /\ held = None
    /\ unreturned = {} /\ missed = {}

-----------------------------------------------------------------------------

Alive == sig # "exited"

Go(e, from, to) ==
    /\ Alive /\ pc[e] = from
    /\ pc' = [pc EXCEPT ![e] = to]

Kept == UNCHANGED <<verdict, sig, todo, held>>

\* The cleanup after Ctrl+C has read what there is to tear down of an engine.
CleanedUp(e) == /\ sig \notin {"none", "hook"}
                /\ e \in Range(todo) => sig = "network" /\ Head(todo) = e

TooLate(e, what) == IF CleanedUp(e) THEN missed \union Things(e, what) ELSE missed

\* The step in progress makes a thing.
Makes(e, what) ==
    /\ docker' = docker \union Things(e, what)
    /\ unreturned' = unreturned \union Things(e, what)
    /\ missed' = TooLate(e, what)

MakesNothing == UNCHANGED <<docker, unreturned, missed>>

\* A step returns the infra with what it has made.
Returns(e, what) ==
    /\ infra' = [infra EXCEPT ![e] = what]
    /\ unreturned' = unreturned \ Of(e)
    /\ missed' = TooLate(e, what)
    /\ UNCHANGED docker

(* The setup, of either kind of engine. *)

\* The engine is known to the registry before it has anything.
Register(e) ==
    /\ engines' = Append(engines, e)
    /\ MakesNothing /\ Kept /\ UNCHANGED infra

StartCoding == Go(0, "idle", "net") /\ Register(0)

\* The driver verifies while the agent's container waits for it; another
\* attempt follows one that failed.
StartTests(e) ==
    /\ IF e = 1 THEN pc[0] = "running" ELSE pc[e - 1] = "closed" /\ verdict = "failed"
    /\ Go(e, "idle", "net") /\ Register(e)

CreateNetwork(e) ==
    /\ Go(e, "net", IF e \in Composed THEN "compose" ELSE "setup")
    /\ Makes(e, {"net"}) /\ Kept /\ UNCHANGED <<infra, engines>>

ComposeUp(e) ==
    /\ Go(e, "compose", "setup")
    /\ Makes(e, {"compose"}) /\ Kept /\ UNCHANGED <<infra, engines>>

\* The coding engine's container is on the list before it runs.
SetupReturns(e) ==
    /\ Go(e, "setup", "ready")
    /\ Returns(e, {"net"} \union (IF e \in Composed THEN {"compose"} ELSE {})
                          \union (IF e = 0 THEN {"coder"} ELSE {}))
    /\ Kept /\ UNCHANGED engines

\* The staging engine is set up outside of the try that tears it down.
SetupThrows(e) ==
    /\ pc[e] \in {"net", "compose", "setup"}
    /\ Go(e, pc[e], IF e = 0 THEN "finally" ELSE "thrown")
    /\ MakesNothing /\ Kept /\ UNCHANGED <<infra, engines>>

(* The agent's container. *)

\* By the name it is listed under, `docker run` or Leash makes it, and it is
\* removed: only one there is, whichever of them made it.
Coder == Things(0, {"coder"})

RunAgent ==
    /\ Go(0, "ready", "running")
    /\ docker' = docker \union Coder
    /\ missed' = TooLate(0, {"coder"})
    /\ Kept /\ UNCHANGED <<infra, engines, unreturned>>

\* The agent ends, is aborted, or never runs.
AgentEnds ==
    /\ pc[0] \in {"ready", "running"}
    /\ Go(0, pc[0], "finally")
    /\ MakesNothing /\ Kept /\ UNCHANGED <<infra, engines>>

(* startStaging and runTests. *)

BuildImage(e) ==
    /\ e # 0 /\ Go(e, "ready", "image")
    /\ Makes(e, {"image"}) /\ Kept /\ UNCHANGED <<infra, engines>>

CreateApp(e) ==
    /\ Go(e, "image", "app")
    /\ Makes(e, {"app"}) /\ Kept /\ UNCHANGED <<infra, engines>>

\* Mutant: the list of images is not returned.
StagingReturnsNoImage(e) ==
    /\ Go(e, "app", "staged")
    /\ Returns(e, infra[e] \union {"app"}) /\ Kept /\ UNCHANGED engines

\* Ready or not after 180 seconds.
StagingReturns(e) ==
    /\ Go(e, "app", "staged")
    /\ Returns(e, infra[e] \union {"image", "app"}) /\ Kept /\ UNCHANGED engines

CreateTests(e) ==
    /\ Go(e, "staged", "tests")
    /\ Makes(e, {"tests"}) /\ Kept /\ UNCHANGED <<infra, engines>>

\* The test container is removed again before the step returns.
TestsEnd(e, result) ==
    /\ Go(e, "tests", "finally")
    /\ docker' = docker \ Things(e, {"tests"})
    /\ unreturned' = unreturned \ Things(e, {"tests"})
    /\ verdict' = result
    /\ UNCHANGED <<infra, engines, sig, todo, held, missed>>

\* The build fails, the application does not start (its container goes) or
\* the test container fails. The infra is that of the last step that returned.
StagingThrows(e) ==
    /\ e # 0 /\ pc[e] \in {"ready", "image", "app", "tests"}
    /\ Go(e, pc[e], "finally")
    /\ docker' = docker \ (IF pc[e] = "app" THEN Things(e, {"app"}) ELSE {})
    /\ verdict' = "error"
    /\ UNCHANGED <<infra, engines, sig, todo, held, unreturned, missed>>

(* The end of an engine. *)

Deregister(e) ==
    /\ Go(e, "finally", "detached")
    /\ IF e \in Range(engines)
       THEN \E i \in DOMAIN engines : engines[i] = e /\ engines' = RemoveAt(engines, i)
       ELSE UNCHANGED engines
    /\ MakesNothing /\ Kept /\ UNCHANGED infra

\* The first half of a teardown, then the network.
Without(e, what) == docker \ Things(e, what \ {"net"})

\* A network in use stays: it is missed if what uses it was missed.
RemoveNetwork(e) ==
    /\ docker' = IF Attached(e) = {} THEN docker \ Things(e, {"net"}) ELSE docker
    /\ missed' = IF Attached(e) \intersect (unreturned \union missed) = {} THEN missed
                 ELSE missed \union Things(e, {"net"})

\* Without a list of what there is nothing is removed.
TeardownContainers(e) ==
    /\ Go(e, "detached", IF infra[e] = None THEN "closed" ELSE "removing")
    /\ docker' = Without(e, infra[e])
    /\ Kept /\ UNCHANGED <<infra, engines, unreturned, missed>>

TeardownNetwork(e) ==
    /\ Go(e, "removing", "closed")
    /\ RemoveNetwork(e)
    /\ Kept /\ UNCHANGED <<infra, engines, unreturned>>

\* A pause keeps the network and the frozen services for `run resume`.
PauseInfra ==
    /\ infra[0] # None /\ Go(0, "detached", "paused")
    /\ docker' = docker \ Coder
    /\ Kept /\ UNCHANGED <<infra, engines, unreturned, missed>>

(* Ctrl+C: the cleanup runs beside the session until it exits the process. *)

SessionOver == pc[0] \in {"closed", "paused"}
                  /\ \A e \in Attempts : pc[e] \in {"idle", "closed", "thrown"}

Signal ==
    /\ sig = "none" /\ ~SessionOver
    /\ sig' = "hook"
    /\ UNCHANGED <<docker, pc, infra, engines, verdict, todo, held, unreturned, missed>>

\* Once the run is saved, the registry is emptied.
TakeEngines ==
    /\ sig = "hook"
    /\ sig' = "next"
    /\ todo' = engines /\ engines' = <<>>
    /\ UNCHANGED <<docker, pc, infra, verdict, held, unreturned, missed>>

CleanupContainers ==
    /\ sig = "next" /\ todo # <<>>
    /\ held' = infra[Head(todo)]
    /\ docker' = Without(Head(todo), held')
    /\ sig' = "network"
    /\ UNCHANGED <<pc, infra, engines, verdict, todo, unreturned, missed>>

CleanupNetwork ==
    /\ sig = "network"
    /\ IF held = None THEN UNCHANGED <<docker, missed>> ELSE RemoveNetwork(Head(todo))
    /\ todo' = Tail(todo) /\ sig' = "next"
    /\ UNCHANGED <<pc, infra, engines, verdict, held, unreturned>>

Exit ==
    /\ sig = "next" /\ todo = <<>>
    /\ sig' = "exited"
    /\ UNCHANGED <<docker, pc, infra, engines, verdict, todo, held, unreturned, missed>>

Next ==
    \/ StartCoding \/ RunAgent \/ AgentEnds \/ PauseInfra
    \/ \E e \in Attempts : StartTests(e)
    \/ \E e \in Engines :
          \/ CreateNetwork(e) \/ ComposeUp(e) \/ SetupReturns(e) \/ SetupThrows(e)
          \/ BuildImage(e) \/ CreateApp(e) \/ StagingReturns(e) \/ CreateTests(e)
          \/ StagingThrows(e) \/ Deregister(e)
          \/ TeardownContainers(e) \/ TeardownNetwork(e)
          \/ \E result \in {"passed", "failed"} : TestsEnd(e, result)
    \/ Signal \/ TakeEngines \/ CleanupContainers \/ CleanupNetwork \/ Exit

Spec == Init /\ [][Next]_vars

-----------------------------------------------------------------------------
(* Properties *)

Gone == sig = "exited" \/ (sig = "none" /\ SessionOver)

\* When the process is gone, what is left in Docker is the network and the
\* services of a pause, or is left for one of four reasons: the step that made
\* it never returned; the cleanup after Ctrl+C came by before it was made or
\* its step returned; its engine had left the registry and was being torn down
\* as the process exited; or it is the network such a thing was still using.
NothingLeaks ==
    Gone => \A x \in docker :
        LET e == x[1]
        IN  \/ e = 0 /\ pc[0] = "paused" /\ x[2] \in {"net", "compose"}
            \/ x \in unreturned \union missed
            \/ sig = "exited" /\ pc[e] \in {"detached", "removing"}
=============================================================================
