------------------------- MODULE RunLifecycle_proofs -------------------------
(***************************************************************************)
(* Proofs about RunLifecycle, for any number of processes.                 *)
(***************************************************************************)
EXTENDS RunLifecycle, TLAPS

-----------------------------------------------------------------------------
(* Type correctness. *)

\* Memberships the leaves need, so that they need not expand the sets of names.
LEMMA Located ==
    /\ {"idle", "reap"} \subseteq Locations
    /\ {"reserved", "begun", "worktree", "prepared", "aborting", "thaw", "booted"}
          \subseteq Locations
    /\ {"provision", "save", "saving", "coding", "decide", "drained", "presync",
         "closing"} \subseteq Locations
    /\ {"resume", "restart", "dropping", "dropped", "forced", "inspectBoot",
         "inspectReady", "inspecting", "inspectTear", "inspectSave"} \subseteq Locations
  BY DEF Locations, Owning, Handshake, InLoop, Session, Commands

LEMMA Named ==
    /\ {"absent", "starting", "running", "pausing", "paused", "stopping",
        "resuming", "inspecting", "failed", "completed"} \subseteq Statuses
    /\ {"none", "pause", "stop"} \subseteq Signals
    /\ Signals \subseteq AbortReasons
    /\ {"none", "pause", "stop", "timeout", "exited"} \subseteq AbortReasons
    /\ {"none", "success", "failed", "stopped", "paused"} \subseteq Outcomes
  BY DEF Statuses, Signals, AbortReasons, Outcomes

LEMMA MkTyped ==
    ASSUME NEW s \in Statuses, NEW g \in Signals, NEW b \in BOOLEAN, NEW i \in BOOLEAN
    PROVE  Mk(s, g, b, i) \in Artifact
  BY DEF Mk, Artifact

LEMMA IdleTyped == Idle \in Process /\ Absent \in Artifact
  <1>1. Absent \in Artifact
    BY MkTyped, Named DEF Absent
  <1> QED BY <1>1, Located, Named DEF Idle, Process

\* A write into the memory of one process keeps the memories well typed.
LEMMA BecomeTyped ==
    ASSUME proc \in [Procs -> Process], NEW p \in Procs, NEW s \in Process, Become(p, s)
    PROVE  proc' \in [Procs -> Process]
  BY DEF Become

LEMMA GotoTyped ==
    ASSUME proc \in [Procs -> Process], NEW p \in Procs, NEW l \in Locations, Goto(p, l)
    PROVE  proc' \in [Procs -> Process]
  BY DEF Goto, Become, Process

LEMMA ExitTyped ==
    ASSUME proc \in [Procs -> Process], NEW p \in Procs, Exit(p)
    PROVE  proc' \in [Procs -> Process]
  BY IdleTyped DEF Exit, Become

\* Every step changes the set of fresh copies in one of these ways.
LEMMA FreshTyped ==
    ASSUME fresh \subseteq Copies, NEW p \in Procs
    PROVE  /\ Forget(p) \subseteq Copies
           /\ fresh \union {<<p, "own">>} \subseteq Copies
           /\ fresh \union {<<p, "loop">>} \subseteq Copies
           /\ fresh \union {<<p, "watch">>} \subseteq Copies
           /\ {<<p, "own">>} \subseteq Copies
           /\ {<<p, "loop">>} \subseteq Copies
           /\ {<<p, "hook">>} \subseteq Copies
  BY DEF Forget, Copies

LEMMA RequestTyped == ASSUME TypeOK, Request PROVE TypeOK'
  <1> USE Named DEF TypeOK, World, Write, Artifact
  <1>1. CASE RequestPause
    BY <1>1 DEF RequestPause
  <1>2. CASE RequestStop
    BY <1>2 DEF RequestStop
  <1>3. CASE EditRules
    BY <1>3 DEF EditRules
  <1> QED BY <1>1, <1>2, <1>3 DEF Request

LEMMA StartTyped == ASSUME TypeOK, NEW p \in Procs, Start(p) PROVE TypeOK'
  <1> USE Located, Named, MkTyped, IdleTyped, BecomeTyped, GotoTyped, ExitTyped, FreshTyped
  <1> USE DEF TypeOK, World, Store, Write
  <1>a. proc[p] \in Process /\ proc[p].seen \in Artifact /\ proc[p].held \in BOOLEAN
    BY DEF Process
  <1>1. CASE SetStatusStartingNewRun(p)
    BY <1>1 DEF SetStatusStartingNewRun
  <1>2. CASE BeginRunStartFromArtifact(p)
    <2>1. [Idle EXCEPT !.pc = "begun"] \in Process
      BY DEF Process
    <2>2. art' \in Artifact
      BY <1>2 DEF BeginRunStartFromArtifact, Artifact
    <2> QED BY <1>2, <2>1, <2>2 DEF BeginRunStartFromArtifact
  <1>3. CASE RestartRefused(p)
    BY <1>3 DEF RestartRefused
  <1>4. CASE AbortRunStartIfStopRequested(p)
    <2>1. [proc[p] EXCEPT !.pc = "aborting", !.seen = art] \in Process
      BY <1>a DEF Process
    <2> QED BY <1>4, <2>1 DEF AbortRunStartIfStopRequested
  <1>5. CASE AbortRunStartSave(p)
    <2>1. [proc[p].seen EXCEPT !.status = "failed", !.signal = "none"] \in Artifact
      BY <1>a DEF Artifact
    <2> QED BY <1>5, <2>1 DEF AbortRunStartSave
  <1>6. CASE StartThrows(p)
    BY <1>6 DEF StartThrows
  <1>7. CASE CreateSandbox(p)
    BY <1>7 DEF CreateSandbox
  <1>8. CASE SetStatusRunning(p)
    BY <1>8, <1>a DEF SetStatusRunning
  <1>9. CASE ResumeRead(p)
    <2>1. [Idle EXCEPT !.pc = "resume", !.seen = art] \in Process
      BY DEF Process
    <2> QED BY <1>9, <2>1 DEF ResumeRead
  <1>10. CASE ResumeSave(p)
    <2>1. /\ [Idle EXCEPT !.pc = "thaw", !.held = TRUE] \in Process
          /\ [Idle EXCEPT !.pc = "restart"] \in Process
      BY DEF Process
    <2>2. /\ [proc[p].seen EXCEPT !.status = "resuming", !.signal = "none"] \in Artifact
          /\ [proc[p].seen EXCEPT !.path = FALSE, !.signal = "none"] \in Artifact
      BY <1>a DEF Artifact
    <2> QED BY <1>10, <2>1, <2>2 DEF ResumeSave
  <1>11. CASE ResumeInfra(p)
    BY <1>11 DEF ResumeInfra
  <1> QED BY <1>1, <1>2, <1>3, <1>4, <1>5, <1>6, <1>7, <1>8, <1>9, <1>10, <1>11 DEF Start

LEMMA LoopTyped == ASSUME TypeOK, NEW p \in Procs, Loop(p) PROVE TypeOK'
  <1> USE Located, Named, MkTyped, IdleTyped, BecomeTyped, GotoTyped, ExitTyped, FreshTyped
  <1> USE DEF TypeOK, World, Store, Write
  <1>a. proc[p] \in Process /\ proc[p].seen \in Artifact /\ proc[p].held \in BOOLEAN
        /\ proc[p].abort \in AbortReasons /\ art.signal \in Signals
    BY DEF Process, Artifact
  <1>b. \A new \in AbortReasons : FirstAbort(proc[p].abort, new) \in AbortReasons
    BY <1>a DEF FirstAbort
  <1>1. CASE PreRoundSync(p)
    <2>1. /\ [proc[p] EXCEPT !.pc = "closing", !.out = "stopped"] \in Process
          /\ [proc[p] EXCEPT !.pc = "closing", !.out = "paused", !.held = FALSE] \in Process
          /\ [proc[p] EXCEPT !.pc = "provision", !.watching = TRUE, !.eng = "on"] \in Process
      BY <1>a DEF Process
    <2> QED BY <1>1, <2>1 DEF PreRoundSync
  <1>2. CASE Provision(p)
    <2>1. [proc[p] EXCEPT !.pc = "save", !.save = "infra", !.held = FALSE] \in Process
      BY <1>a DEF Process
    <2> QED BY <1>2, <2>1 DEF Provision
  <1>3. CASE ProvisionThrows(p)
    <2>1. [proc[p] EXCEPT !.pc = "closing", !.out = "failed",
                          !.watching = FALSE, !.eng = "off", !.held = FALSE] \in Process
      BY <1>a DEF Process
    <2> QED BY <1>3, <2>1 DEF ProvisionThrows
  <1>4. CASE SaveRunningRead(p)
    <2>1. [proc[p] EXCEPT !.pc = "saving", !.seen = art] \in Process
      BY <1>a DEF Process
    <2> QED BY <1>4, <2>1 DEF SaveRunningRead
  <1>5. CASE SaveRunningWrite(p)
    <2>1. AfterSave(p) \in Process
      BY <1>a DEF Process, AfterSave
    <2>2. proc[p].seen.status \in Statuses /\ proc[p].seen.signal \in Signals
          /\ proc[p].seen.infra \in BOOLEAN
      BY <1>a DEF Artifact
    <2>3. KeptStatus(proc[p].seen.status) \in Statuses /\ RecordedInfra(p) \in BOOLEAN
      BY <2>2 DEF KeptStatus, RecordedInfra
    <2> QED BY <1>5, <2>1, <2>2, <2>3 DEF SaveRunningWrite
  <1>6. CASE SubtaskDone(p)
    <2>1. /\ [proc[p] EXCEPT !.pc = "drained", !.abort = FirstAbort(@, art.signal)] \in Process
          /\ \A first \in {"stageUp", "progress"} :
                [proc[p] EXCEPT !.pc = "save", !.save = first] \in Process
      BY <1>a, <1>b DEF Process
    <2> QED BY <1>6, <2>1 DEF SubtaskDone
  <1>7. CASE Decide(p)
    <2>1. /\ [proc[p] EXCEPT !.pc = "drained", !.term = "success"] \in Process
          /\ [proc[p] EXCEPT !.pc = "drained", !.term = "failed",
                             !.abort = FirstAbort(@, "stop")] \in Process
      BY <1>a, <1>b DEF Process
    <2> QED BY <1>7, <2>1 DEF Decide
  <1>8. CASE DriverAborted(p)
    BY <1>8 DEF DriverAborted
  <1>9. CASE Timeout(p)
    <2>1. [proc[p] EXCEPT !.abort = "timeout"] \in Process
      BY <1>a DEF Process
    <2> QED BY <1>9, <2>1 DEF Timeout
  <1>10. CASE EngineEnds(p)
    <2>1. \A e \in {"freezing", "tearing"} : [proc[p] EXCEPT !.eng = e] \in Process
      BY <1>a DEF Process
    <2> QED BY <1>10, <2>1 DEF EngineEnds
  <1>11. CASE EngineGone(p)
    <2>1. [proc[p] EXCEPT !.eng = "off", !.abort = FirstAbort(@, "exited")] \in Process
      BY <1>a, <1>b DEF Process
    <2> QED BY <1>11, <2>1 DEF EngineGone
  <1>12. CASE SessionEnds(p)
    <2>1. \A out \in Outcomes :
            [proc[p] EXCEPT !.pc = "closing", !.watching = FALSE,
                            !.out = out, !.held = (out = "paused")] \in Process
      BY <1>a DEF Process
    <2>2. proc[p].term # "none" => proc[p].term \in Outcomes
      BY <1>a DEF Process
    <2> QED BY <1>12, <2>1, <2>2 DEF SessionEnds
  <1>13. CASE FinalSave(p)
    <2>1. FinalArtifact(p) \in Artifact
      BY <1>a DEF FinalArtifact
    <2> QED BY <1>13, <2>1 DEF FinalSave
  <1>14. CASE DestroySandbox(p)
    BY <1>14 DEF DestroySandbox
  <1>15. CASE TickRead(p)
    <2>1. [proc[p] EXCEPT !.tick = art.signal] \in Process
      BY <1>a DEF Process
    <2> QED BY <1>15, <2>1 DEF TickRead
  <1>16. CASE TickApply(p)
    <2>1. proc[p].tick \in Signals
      BY <1>16, <1>a DEF TickApply, Process
    <2>2. \A told \in BOOLEAN :
            [proc[p] EXCEPT !.tick = "off", !.notified = @ \/ told,
                            !.abort = IF told THEN FirstAbort(@, proc[p].tick) ELSE @]
              \in Process
      BY <2>1, <1>a, <1>b DEF Process
    <2>3. proc' \in [Procs -> Process]
      BY <1>16, <2>2 DEF TickApply
    <2> QED BY <1>16, <2>3 DEF TickApply
  <1> QED BY <1>1, <1>2, <1>3, <1>4, <1>5, <1>6, <1>7, <1>8, <1>9, <1>10, <1>11, <1>12,
             <1>13, <1>14, <1>15, <1>16 DEF Loop

LEMMA CommandTyped == ASSUME TypeOK, NEW p \in Procs, Command(p) PROVE TypeOK'
  <1> USE Located, Named, MkTyped, IdleTyped, BecomeTyped, GotoTyped, ExitTyped, FreshTyped
  <1> USE DEF TypeOK, World, Store, Write
  <1>a. proc[p] \in Process /\ proc[p].seen \in Artifact /\ proc[p].seen.status \in Statuses
        /\ art.status \in Statuses
    BY DEF Process, Artifact
  <1>b. \A l \in Locations : /\ [Idle EXCEPT !.pc = l] \in Process
                            /\ [Idle EXCEPT !.pc = l, !.seen = art] \in Process
    BY DEF Process
  <1>c. \A s \in Statuses : [art EXCEPT !.status = s] \in Artifact
    BY DEF Artifact
  <1>1. CASE StopPausedRead(p)
    BY <1>1, <1>b DEF StopPausedRead
  <1>2. CASE StopPausedTeardown(p)
    BY <1>2 DEF StopPausedTeardown
  <1>3. CASE StopPausedSave(p)
    BY <1>3 DEF StopPausedSave
  <1>4. CASE ForceStop(p)
    BY <1>4, <1>b DEF ForceStop
  <1>5. CASE PersistForceStopped(p)
    BY <1>5, <1>a DEF PersistForceStopped
  <1>6. CASE InspectRead(p)
    BY <1>6, <1>b DEF InspectRead
  <1>7. CASE InspectBoot(p)
    BY <1>7 DEF InspectBoot
  <1>8. CASE SetStatusInspecting(p)
    BY <1>8, <1>c DEF SetStatusInspecting
  <1>9. CASE InspectLeave(p)
    BY <1>9, <1>a, <1>c DEF InspectLeave
  <1>10. CASE InspectTeardown(p)
    BY <1>10 DEF InspectTeardown
  <1>11. CASE InspectSave(p)
    BY <1>11, <1>a DEF InspectSave
  <1> QED BY <1>1, <1>2, <1>3, <1>4, <1>5, <1>6, <1>7, <1>8, <1>9, <1>10, <1>11 DEF Command

LEMMA InterruptTyped == ASSUME TypeOK, NEW p \in Procs, Interrupt(p) PROVE TypeOK'
  <1> USE Located, Named, MkTyped, IdleTyped, BecomeTyped, GotoTyped, ExitTyped, FreshTyped
  <1> USE DEF TypeOK, World, Store, Write
  <1>a. proc[p] \in Process /\ art.path \in BOOLEAN /\ art.infra \in BOOLEAN
    BY DEF Artifact
  <1>b. \A g \in {"save", "down"} : [proc[p] EXCEPT !.sig = g] \in Process
    BY <1>a DEF Process
  <1>1. CASE Sigint(p)
    BY <1>1, <1>b DEF Sigint
  <1>2. CASE SaveRunOnError(p)
    BY <1>2, <1>a, <1>b DEF SaveRunOnError
  <1>3. CASE SigintExit(p)
    BY <1>3 DEF SigintExit
  <1>4. CASE Crash(p)
    BY <1>4 DEF Crash
  <1> QED BY <1>1, <1>2, <1>3, <1>4 DEF Interrupt

\* The artifact, the copies, the processes' memories and the world always have
\* the shapes that the declarations of run types give them.
THEOREM TypeCorrect == Spec => []TypeOK
  <1>1. Init => TypeOK
    BY IdleTyped DEF Init, TypeOK
  <1>2. TypeOK /\ [Next]_vars => TypeOK'
    <2> SUFFICES ASSUME TypeOK, [Next]_vars PROVE TypeOK'
      OBVIOUS
    <2>1. CASE UNCHANGED vars
      BY <2>1 DEF vars, TypeOK
    <2>2. CASE Request
      BY <2>2, RequestTyped
    <2>3. CASE \E p \in Procs : Start(p) \/ Loop(p) \/ Command(p) \/ Interrupt(p)
      BY <2>3, StartTyped, LoopTyped, CommandTyped, InterruptTyped
    <2> QED BY <2>1, <2>2, <2>3 DEF Next
  <1> QED BY <1>1, <1>2, PTL DEF Spec

-----------------------------------------------------------------------------
(* Requests are not lost: RequestInv is inductive.                           *)

\* The part of RequestInv about one process.
MemoryInv(p) ==
    /\ At(p, "idle") => proc[p] = Idle
    /\ Consistent(proc[p].seen)
    /\ proc[p].pc \in Inspecting => proc[p].seen.status \in Terminal \union {"paused"}
    /\ proc[p].pc \in {"resume", "dropping", "dropped"} => proc[p].seen.status = "paused"
    /\ <<p, "watch">> \in fresh => proc[p].tick = art.signal
    /\ proc[p].notified => proc[p].abort # "none"
    /\ At(p, "saving") /\ <<p, "loop">> \in fresh /\ art.signal # "none"
          => proc[p].seen.signal = art.signal \/ proc[p].abort # "none"

\* A step of one process leaves the memories of the others as they are, and
\* their copies fresh only if the artifact stays as it is.
Bystanders(p) == \A q \in Procs : q # p =>
    /\ proc'[q] = proc[q]
    /\ \A k \in {"loop", "watch", "own", "hook"} : <<q, k>> \in fresh' =>
          <<q, k>> \in fresh /\ art' = art

LEMMA BystandersKeepInv ==
    ASSUME RequestInv, NEW p \in Procs, Bystanders(p), MemoryInv(p)', SignalMatchesStatus'
    PROVE  RequestInv'
  BY ZenonT(40) DEF RequestInv, Bystanders, MemoryInv, SignalMatchesStatus, At

LEMMA StartBystanders ==
    ASSUME TypeOK, NEW p \in Procs, Start(p)
    PROVE  Bystanders(p)
  <1> USE DEF TypeOK, Bystanders, World, Store, Write, Goto, Exit, Become, Forget
  <1>1. CASE SetStatusStartingNewRun(p)
    BY <1>1 DEF SetStatusStartingNewRun
  <1>2. CASE BeginRunStartFromArtifact(p)
    BY <1>2 DEF BeginRunStartFromArtifact
  <1>3. CASE RestartRefused(p)
    BY <1>3 DEF RestartRefused
  <1>4. CASE AbortRunStartIfStopRequested(p)
    BY <1>4 DEF AbortRunStartIfStopRequested
  <1>5. CASE AbortRunStartSave(p)
    BY <1>5 DEF AbortRunStartSave
  <1>6. CASE StartThrows(p)
    BY <1>6 DEF StartThrows
  <1>7. CASE CreateSandbox(p)
    BY <1>7 DEF CreateSandbox
  <1>8. CASE SetStatusRunning(p)
    <2>1. \A q \in Procs : q # p => proc'[q] = proc[q]
      BY <1>8 DEF SetStatusRunning
    <2>2. fresh' \subseteq fresh \union {<<p, "loop">>} /\ (fresh' = {<<p, "loop">>} \/ art' = art)
      BY <1>8 DEF SetStatusRunning
    <2> QED BY <2>1, <2>2
  <1>9. CASE ResumeRead(p)
    BY <1>9 DEF ResumeRead
  <1>10. CASE ResumeSave(p)
    BY <1>10 DEF ResumeSave
  <1>11. CASE ResumeInfra(p)
    BY <1>11 DEF ResumeInfra
  <1> QED BY <1>1, <1>2, <1>3, <1>4, <1>5, <1>6, <1>7, <1>8, <1>9, <1>10, <1>11 DEF Start

LEMMA LoopBystanders ==
    ASSUME TypeOK, NEW p \in Procs, Loop(p)
    PROVE  Bystanders(p)
  <1> USE DEF TypeOK, Bystanders, World, Store, Write, Goto, Exit, Become, Forget
  <1>1. CASE PreRoundSync(p)
    BY <1>1 DEF PreRoundSync
  <1>2. CASE Provision(p)
    BY <1>2 DEF Provision
  <1>3. CASE ProvisionThrows(p)
    BY <1>3 DEF ProvisionThrows
  <1>4. CASE SaveRunningRead(p)
    BY <1>4 DEF SaveRunningRead
  <1>5. CASE SaveRunningWrite(p)
    <2>1. \A q \in Procs : q # p => proc'[q] = proc[q]
      BY <1>5 DEF SaveRunningWrite
    <2>2. fresh' \subseteq fresh \union {<<p, "loop">>} /\ (fresh' = {<<p, "loop">>} \/ art' = art)
      BY <1>5 DEF SaveRunningWrite
    <2> QED BY <2>1, <2>2
  <1>6. CASE SubtaskDone(p)
    BY <1>6 DEF SubtaskDone
  <1>7. CASE Decide(p)
    BY <1>7 DEF Decide
  <1>8. CASE DriverAborted(p)
    BY <1>8 DEF DriverAborted
  <1>9. CASE Timeout(p)
    BY <1>9 DEF Timeout
  <1>10. CASE EngineEnds(p)
    BY <1>10 DEF EngineEnds
  <1>11. CASE EngineGone(p)
    BY <1>11 DEF EngineGone
  <1>12. CASE SessionEnds(p)
    BY <1>12 DEF SessionEnds
  <1>13. CASE FinalSave(p)
    BY <1>13 DEF FinalSave
  <1>14. CASE DestroySandbox(p)
    BY <1>14 DEF DestroySandbox
  <1>15. CASE TickRead(p)
    BY <1>15 DEF TickRead
  <1>16. CASE TickApply(p)
    BY <1>16 DEF TickApply
  <1> QED BY <1>1, <1>2, <1>3, <1>4, <1>5, <1>6, <1>7, <1>8, <1>9, <1>10, <1>11, <1>12, <1>13,
             <1>14, <1>15, <1>16 DEF Loop

LEMMA CommandBystanders ==
    ASSUME TypeOK, NEW p \in Procs, Command(p)
    PROVE  Bystanders(p)
  <1> USE DEF TypeOK, Bystanders, World, Store, Write, Goto, Exit, Become, Forget
  <1>1. CASE StopPausedRead(p)
    BY <1>1 DEF StopPausedRead
  <1>2. CASE StopPausedTeardown(p)
    BY <1>2 DEF StopPausedTeardown
  <1>3. CASE StopPausedSave(p)
    BY <1>3 DEF StopPausedSave
  <1>4. CASE ForceStop(p)
    BY <1>4 DEF ForceStop
  <1>5. CASE PersistForceStopped(p)
    BY <1>5 DEF PersistForceStopped
  <1>6. CASE InspectRead(p)
    BY <1>6 DEF InspectRead
  <1>7. CASE InspectBoot(p)
    BY <1>7 DEF InspectBoot
  <1>8. CASE SetStatusInspecting(p)
    BY <1>8 DEF SetStatusInspecting
  <1>9. CASE InspectLeave(p)
    BY <1>9 DEF InspectLeave
  <1>10. CASE InspectTeardown(p)
    BY <1>10 DEF InspectTeardown
  <1>11. CASE InspectSave(p)
    BY <1>11 DEF InspectSave
  <1> QED BY <1>1, <1>2, <1>3, <1>4, <1>5, <1>6, <1>7, <1>8, <1>9, <1>10, <1>11 DEF Command

LEMMA InterruptBystanders ==
    ASSUME TypeOK, NEW p \in Procs, Interrupt(p)
    PROVE  Bystanders(p)
  <1> USE DEF TypeOK, Bystanders, World, Store, Write, Goto, Exit, Become, Forget
  <1>1. CASE Sigint(p)
    BY <1>1 DEF Sigint
  <1>2. CASE SaveRunOnError(p)
    BY <1>2 DEF SaveRunOnError
  <1>3. CASE SigintExit(p)
    BY <1>3 DEF SigintExit
  <1>4. CASE Crash(p)
    BY <1>4 DEF Crash
  <1> QED BY <1>1, <1>2, <1>3, <1>4 DEF Interrupt

LEMMA StartKeepsRequestInv ==
    ASSUME TypeOK, RequestInv, NEW p \in Procs, Start(p)
    PROVE  RequestInv'
  <1> USE DEF MemoryInv, SignalMatchesStatus, Consistent, Inspecting, Terminal, At
  <1> USE DEF World, Store, Write, Goto, Exit, Become, Idle, Absent, Mk
  <1>a. /\ MemoryInv(p) /\ SignalMatchesStatus
        /\ proc \in [Procs -> Process] /\ proc[p] \in Process /\ art \in Artifact
    BY DEF RequestInv, TypeOK
  <1>f. <<p, "watch">> \notin Forget(p) /\ <<p, "loop">> \notin Forget(p)
    BY DEF Forget
  <1>1. ASSUME SetStatusStartingNewRun(p) PROVE MemoryInv(p)' /\ SignalMatchesStatus'
    BY <1>1, <1>a, <1>f DEF SetStatusStartingNewRun
  <1>2. ASSUME BeginRunStartFromArtifact(p) PROVE MemoryInv(p)' /\ SignalMatchesStatus'
    BY <1>2, <1>a, <1>f DEF BeginRunStartFromArtifact
  <1>3. ASSUME RestartRefused(p) PROVE MemoryInv(p)' /\ SignalMatchesStatus'
    BY <1>3, <1>a, <1>f DEF RestartRefused
  <1>4. ASSUME AbortRunStartIfStopRequested(p) PROVE MemoryInv(p)' /\ SignalMatchesStatus'
    <2>1. CASE StopRequested
      <3>1. proc'[p] = [proc[p] EXCEPT !.pc = "aborting", !.seen = art]
        BY <1>4, <1>a, <2>1 DEF AbortRunStartIfStopRequested
      <3>2. art' = art /\ fresh' = fresh \union {<<p, "own">>}
        BY <1>4, <2>1 DEF AbortRunStartIfStopRequested
      <3> QED BY <3>1, <3>2, <1>a DEF Process
    <2>2. CASE ~StopRequested
      <3>1. \E l \in {"worktree", "prepared"} : proc'[p] = [proc[p] EXCEPT !.pc = l]
        BY <1>4, <1>a, <2>2 DEF AbortRunStartIfStopRequested
      <3>2. art' = art /\ fresh' = fresh
        BY <1>4, <2>2 DEF AbortRunStartIfStopRequested
      <3> QED BY <3>1, <3>2, <1>a DEF Process
    <2> QED BY <2>1, <2>2
  <1>5. ASSUME AbortRunStartSave(p) PROVE MemoryInv(p)' /\ SignalMatchesStatus'
    <2>1. proc'[p] = Idle
      BY <1>5, <1>a DEF AbortRunStartSave
    <2>2. CASE <<p, "own">> \in fresh
      BY <1>5, <1>a, <2>1, <2>2, ZenonT(40) DEF AbortRunStartSave, Process, Artifact
    <2>3. CASE <<p, "own">> \notin fresh
      BY <1>5, <1>a, <1>f, <2>1, <2>3 DEF AbortRunStartSave
    <2> QED BY <2>2, <2>3
  <1>6. ASSUME StartThrows(p) PROVE MemoryInv(p)' /\ SignalMatchesStatus'
    BY <1>6, <1>a, <1>f DEF StartThrows
  <1>7. ASSUME CreateSandbox(p) PROVE MemoryInv(p)' /\ SignalMatchesStatus'
    BY <1>7, <1>a, <1>f DEF CreateSandbox
  <1>8. ASSUME SetStatusRunning(p) PROVE MemoryInv(p)' /\ SignalMatchesStatus'
    <2>1. CASE art.status \in RefusesRunning
      <3>1. proc'[p] = Idle /\ art' = art /\ fresh' = Forget(p)
        BY <1>8, <1>a, <2>1 DEF SetStatusRunning
      <3> QED BY <3>1, <1>a, <1>f
    <2>2. CASE art.status \notin RefusesRunning
      <3>1. /\ proc'[p] = [proc[p] EXCEPT !.pc = "presync"]
            /\ art' = Mk("running", "none", FALSE, proc[p].held)
            /\ fresh' = {<<p, "loop">>}
        BY <1>8, <1>a, <2>2 DEF SetStatusRunning
      <3> QED BY <3>1, <1>a DEF Process
    <2> QED BY <2>1, <2>2
  <1>9. ASSUME ResumeRead(p) PROVE MemoryInv(p)' /\ SignalMatchesStatus'
    BY <1>9, <1>a, <1>f DEF ResumeRead
  <1>10. ASSUME ResumeSave(p) PROVE MemoryInv(p)' /\ SignalMatchesStatus'
    <2>1. CASE <<p, "own">> \notin fresh
      <3>1. proc'[p] = Idle /\ art' = art /\ fresh' = Forget(p)
        BY <1>10, <1>a, <2>1 DEF ResumeSave
      <3> QED BY <3>1, <1>a, <1>f
    <2>2. CASE <<p, "own">> \in fresh
      <3>1. \/ /\ art' = [proc[p].seen EXCEPT !.status = "resuming", !.signal = "none"]
               /\ proc'[p] = [Idle EXCEPT !.pc = "thaw", !.held = TRUE]
            \/ /\ art' = [proc[p].seen EXCEPT !.path = FALSE, !.signal = "none"]
               /\ proc'[p] = [Idle EXCEPT !.pc = "restart"]
        BY <1>10, <1>a, <2>2 DEF ResumeSave
      <3>2. fresh' = {}
        BY <1>10, <2>2 DEF ResumeSave
      <3>3. proc[p].seen.status = "paused" /\ proc[p].seen \in Artifact
        BY <1>10, <1>a DEF ResumeSave, Process
      <3>4. Consistent(art)'
        BY <3>1, <3>3 DEF Artifact
      <3>5. proc'[p].seen = Absent /\ ~proc'[p].notified /\ proc'[p].pc \in {"thaw", "restart"}
        BY <3>1
      <3>6. Consistent(Absent)
        OBVIOUS
      <3> QED BY <3>2, <3>4, <3>5, <3>6
    <2> QED BY <2>1, <2>2
  <1>11. ASSUME ResumeInfra(p) PROVE MemoryInv(p)' /\ SignalMatchesStatus'
    <2>1. art' = art
      BY <1>11 DEF ResumeInfra
    <2>2. proc'[p] = [proc[p] EXCEPT !.pc = "booted"] /\ fresh' = fresh
      BY <1>11, <1>a DEF ResumeInfra
    <2> QED BY <2>1, <2>2, <1>a, <1>f DEF Process
  <1>b. MemoryInv(p)' /\ SignalMatchesStatus'
    BY <1>1, <1>2, <1>3, <1>4, <1>5, <1>6, <1>7, <1>8, <1>9, <1>10, <1>11 DEF Start
  <1> QED BY <1>b, StartBystanders, BystandersKeepInv

LEMMA LoopKeepsRequestInv ==
    ASSUME TypeOK, RequestInv, NEW p \in Procs, Loop(p)
    PROVE  RequestInv'
  <1> USE DEF MemoryInv, SignalMatchesStatus, Consistent, Inspecting, Terminal, At
  <1> USE DEF World, Store, Write, Goto, Exit, Become, Idle, Absent, Mk
  <1>a. /\ MemoryInv(p) /\ SignalMatchesStatus
        /\ proc \in [Procs -> Process] /\ proc[p] \in Process /\ art \in Artifact
    BY DEF RequestInv, TypeOK
  <1>f. <<p, "watch">> \notin Forget(p) /\ <<p, "loop">> \notin Forget(p)
    BY DEF Forget
  <1>1. ASSUME PreRoundSync(p) PROVE MemoryInv(p)' /\ SignalMatchesStatus'
    BY <1>1, <1>a, <1>f DEF PreRoundSync
  <1>2. ASSUME Provision(p) PROVE MemoryInv(p)' /\ SignalMatchesStatus'
    BY <1>2, <1>a, <1>f DEF Provision
  <1>3. ASSUME ProvisionThrows(p) PROVE MemoryInv(p)' /\ SignalMatchesStatus'
    BY <1>3, <1>a, <1>f DEF ProvisionThrows
  <1>4. ASSUME SaveRunningRead(p) PROVE MemoryInv(p)' /\ SignalMatchesStatus'
    BY <1>4, <1>a, <1>f DEF SaveRunningRead
  <1>5. ASSUME SaveRunningWrite(p) PROVE MemoryInv(p)' /\ SignalMatchesStatus'
    <2>1. /\ proc'[p].seen = Absent /\ proc'[p].pc \in {"coding", "save", "decide"}
          /\ proc'[p].tick = proc[p].tick /\ proc'[p].notified = proc[p].notified
          /\ proc'[p].abort = proc[p].abort
      BY <1>5, <1>a DEF SaveRunningWrite, AfterSave, Process
    <2>2. CASE <<p, "loop">> \in fresh
      <3>1. /\ art'.status = KeptStatus(proc[p].seen.status)
            /\ art'.signal = proc[p].seen.signal
            /\ fresh' = {<<p, "loop">>}
        BY <1>5, <2>2 DEF SaveRunningWrite
      <3>2. Consistent(art)'
        BY <3>1, <1>a DEF KeptStatus
      <3> QED BY <2>1, <3>1, <3>2, <1>a
    <2>3. CASE <<p, "loop">> \notin fresh
      <3>1. art' = art /\ fresh' = fresh
        BY <1>5, <2>3 DEF SaveRunningWrite
      <3> QED BY <2>1, <3>1, <1>a
    <2> QED BY <2>2, <2>3
  <1>6. ASSUME SubtaskDone(p) PROVE MemoryInv(p)' /\ SignalMatchesStatus'
    <2>1. art' = art /\ fresh' = fresh \union {<<p, "loop">>}
      BY <1>6 DEF SubtaskDone
    <2>2. /\ proc'[p].seen = proc[p].seen /\ proc'[p].pc \in {"drained", "save"}
          /\ proc'[p].tick = proc[p].tick /\ proc'[p].notified = proc[p].notified
          /\ proc[p].abort # "none" => proc'[p].abort # "none"
      <3>1. \/ proc'[p] = [proc[p] EXCEPT !.pc = "drained",
                                          !.abort = FirstAbort(@, art.signal)]
            \/ \E first \in {"stageUp", "progress"} :
                  proc'[p] = [proc[p] EXCEPT !.pc = "save", !.save = first]
        BY <1>6, <1>a DEF SubtaskDone
      <3>2. CASE proc'[p] = [proc[p] EXCEPT !.pc = "drained",
                                           !.abort = FirstAbort(@, art.signal)]
        BY <3>2, <1>a DEF FirstAbort, Process
      <3>3. CASE \E first \in {"stageUp", "progress"} :
                  proc'[p] = [proc[p] EXCEPT !.pc = "save", !.save = first]
        BY <3>3, <1>a DEF Process
      <3> QED BY <3>1, <3>2, <3>3
    <2> QED BY <2>1, <2>2, <1>a
  <1>7. ASSUME Decide(p) PROVE MemoryInv(p)' /\ SignalMatchesStatus'
    <2>1. art' = art /\ fresh' = fresh
      BY <1>7 DEF Decide
    <2>2. /\ proc'[p].seen = proc[p].seen /\ proc'[p].pc \in {"drained", "coding"}
          /\ proc'[p].tick = proc[p].tick /\ proc'[p].notified = proc[p].notified
          /\ proc[p].abort # "none" => proc'[p].abort # "none"
      <3>1. \/ proc'[p] = [proc[p] EXCEPT !.pc = "coding"]
            \/ proc'[p] = [proc[p] EXCEPT !.pc = "drained", !.term = "success"]
            \/ proc'[p] = [proc[p] EXCEPT !.pc = "drained", !.term = "failed",
                                          !.abort = FirstAbort(@, "stop")]
        BY <1>7, <1>a DEF Decide
      <3>2. CASE proc'[p] = [proc[p] EXCEPT !.pc = "coding"]
        BY <3>2, <1>a DEF Process
      <3>3. CASE proc'[p] = [proc[p] EXCEPT !.pc = "drained", !.term = "success"]
        BY <3>3, <1>a DEF Process
      <3>4. CASE proc'[p] = [proc[p] EXCEPT !.pc = "drained", !.term = "failed",
                                           !.abort = FirstAbort(@, "stop")]
        BY <3>4, <1>a DEF FirstAbort, Process
      <3> QED BY <3>1, <3>2, <3>3, <3>4
    <2> QED BY <2>1, <2>2, <1>a
  <1>8. ASSUME DriverAborted(p) PROVE MemoryInv(p)' /\ SignalMatchesStatus'
    BY <1>8, <1>a, <1>f DEF DriverAborted
  <1>9. ASSUME Timeout(p) PROVE MemoryInv(p)' /\ SignalMatchesStatus'
    <2>1. art' = art /\ fresh' = fresh /\ proc[p].pc # "idle"
      BY <1>9, <1>a DEF Timeout, Session
    <2>2. /\ proc'[p].seen = proc[p].seen /\ proc'[p].pc = proc[p].pc
          /\ proc'[p].tick = proc[p].tick /\ proc'[p].notified = proc[p].notified
          /\ proc[p].abort # "none" => proc'[p].abort # "none"
      BY <1>9, <1>a DEF Timeout, FirstAbort, Process
    <2> QED BY <2>1, <2>2, <1>a
  <1>10. ASSUME EngineEnds(p) PROVE MemoryInv(p)' /\ SignalMatchesStatus'
    <2>1. art' = art /\ fresh' = fresh /\ proc[p].pc # "idle"
      BY <1>10, <1>a DEF EngineEnds, Session, AgentRuns
    <2>2. /\ proc'[p].seen = proc[p].seen /\ proc'[p].pc = proc[p].pc
          /\ proc'[p].tick = proc[p].tick /\ proc'[p].notified = proc[p].notified
          /\ proc[p].abort # "none" => proc'[p].abort # "none"
      BY <1>10, <1>a DEF EngineEnds, FirstAbort, Process
    <2> QED BY <2>1, <2>2, <1>a
  <1>11. ASSUME EngineGone(p) PROVE MemoryInv(p)' /\ SignalMatchesStatus'
    <2>1. art' = art /\ fresh' = fresh /\ proc[p].pc # "idle"
      BY <1>11, <1>a DEF EngineGone
    <2>2. /\ proc'[p].seen = proc[p].seen /\ proc'[p].pc = proc[p].pc
          /\ proc'[p].tick = proc[p].tick /\ proc'[p].notified = proc[p].notified
          /\ proc[p].abort # "none" => proc'[p].abort # "none"
      BY <1>11, <1>a DEF EngineGone, FirstAbort, Process
    <2> QED BY <2>1, <2>2, <1>a
  <1>12. ASSUME SessionEnds(p) PROVE MemoryInv(p)' /\ SignalMatchesStatus'
    BY <1>12, <1>a, <1>f DEF SessionEnds
  <1>13. ASSUME FinalSave(p) PROVE MemoryInv(p)' /\ SignalMatchesStatus'
    <2>1. \/ proc'[p] = Idle
          \/ proc'[p] = [proc[p] EXCEPT !.pc = "reap"]
      BY <1>13, <1>a DEF FinalSave
    <2>2. CASE <<p, "loop">> \in fresh
      <3>1. Consistent(art)' /\ art'.signal = "none" /\ fresh' \subseteq {<<p, "loop">>}
        BY <1>13, <2>2 DEF FinalSave, FinalArtifact
      <3> QED BY <2>1, <3>1, <1>a DEF Process
    <2>3. CASE <<p, "loop">> \notin fresh
      <3>1. /\ art' = art
            /\ \/ proc'[p] = Idle /\ fresh' = Forget(p)
               \/ proc'[p] = [proc[p] EXCEPT !.pc = "reap"] /\ fresh' = fresh
        BY <1>13, <1>a, <2>3 DEF FinalSave
      <3> QED BY <3>1, <1>a, <1>f DEF Process
    <2> QED BY <2>2, <2>3
  <1>14. ASSUME DestroySandbox(p) PROVE MemoryInv(p)' /\ SignalMatchesStatus'
    BY <1>14, <1>a, <1>f DEF DestroySandbox
  <1>15. ASSUME TickRead(p) PROVE MemoryInv(p)' /\ SignalMatchesStatus'
    BY <1>15, <1>a, <1>f DEF TickRead
  <1>16. ASSUME TickApply(p) PROVE MemoryInv(p)' /\ SignalMatchesStatus'
    <2>1. /\ art' = art /\ <<p, "watch">> \notin fresh' /\ proc[p].pc # "idle"
          /\ <<p, "loop">> \in fresh' => <<p, "watch">> \in fresh
      BY <1>16, <1>a DEF TickApply
    <2>2. /\ proc'[p].seen = proc[p].seen /\ proc'[p].pc = proc[p].pc
          /\ proc[p].abort # "none" => proc'[p].abort # "none"
          /\ proc'[p].notified \/ proc[p].tick # "none" => proc'[p].abort # "none"
      <3> DEFINE told == proc[p].tick # "none" /\ ~proc[p].notified
      <3>1. proc'[p] = [proc[p] EXCEPT !.tick = "off", !.notified = @ \/ told,
                            !.abort = IF told THEN FirstAbort(@, proc[p].tick) ELSE @]
        BY <1>16, <1>a DEF TickApply
      <3>2. /\ proc'[p].seen = proc[p].seen /\ proc'[p].pc = proc[p].pc
            /\ proc'[p].notified = (proc[p].notified \/ told)
            /\ proc'[p].abort = IF told THEN FirstAbort(proc[p].abort, proc[p].tick)
                               ELSE proc[p].abort
        BY <3>1, <1>a DEF Process
      <3> QED BY <3>2, <1>a DEF FirstAbort
    <2> QED BY <2>1, <2>2, <1>a
  <1>b. MemoryInv(p)' /\ SignalMatchesStatus'
    BY <1>1, <1>2, <1>3, <1>4, <1>5, <1>6, <1>7, <1>8, <1>9, <1>10, <1>11, <1>12, <1>13, <1>14,
       <1>15, <1>16 DEF Loop
  <1> QED BY <1>b, LoopBystanders, BystandersKeepInv

LEMMA CommandKeepsRequestInv ==
    ASSUME TypeOK, RequestInv, NEW p \in Procs, Command(p)
    PROVE  RequestInv'
  <1> USE DEF MemoryInv, SignalMatchesStatus, Consistent, Inspecting, Terminal, At
  <1> USE DEF World, Store, Write, Goto, Exit, Become, Idle, Absent, Mk
  <1>a. /\ MemoryInv(p) /\ SignalMatchesStatus
        /\ proc \in [Procs -> Process] /\ proc[p] \in Process /\ art \in Artifact
    BY DEF RequestInv, TypeOK
  <1>f. <<p, "watch">> \notin Forget(p) /\ <<p, "loop">> \notin Forget(p)
    BY DEF Forget
  <1>1. ASSUME StopPausedRead(p) PROVE MemoryInv(p)' /\ SignalMatchesStatus'
    BY <1>1, <1>a, <1>f DEF StopPausedRead
  <1>2. ASSUME StopPausedTeardown(p) PROVE MemoryInv(p)' /\ SignalMatchesStatus'
    BY <1>2, <1>a, <1>f DEF StopPausedTeardown
  <1>3. ASSUME StopPausedSave(p) PROVE MemoryInv(p)' /\ SignalMatchesStatus'
    BY <1>3, <1>a, <1>f DEF StopPausedSave
  <1>4. ASSUME ForceStop(p) PROVE MemoryInv(p)' /\ SignalMatchesStatus'
    BY <1>4, <1>a, <1>f DEF ForceStop
  <1>5. ASSUME PersistForceStopped(p) PROVE MemoryInv(p)' /\ SignalMatchesStatus'
    BY <1>5, <1>a, <1>f DEF PersistForceStopped
  <1>6. ASSUME InspectRead(p) PROVE MemoryInv(p)' /\ SignalMatchesStatus'
    BY <1>6, <1>a, <1>f DEF InspectRead
  <1>7. ASSUME InspectBoot(p) PROVE MemoryInv(p)' /\ SignalMatchesStatus'
    BY <1>7, <1>a, <1>f DEF InspectBoot
  <1>8. ASSUME SetStatusInspecting(p) PROVE MemoryInv(p)' /\ SignalMatchesStatus'
    <2>1. CASE art.status \in OrchestratorLive \union {"inspecting"}
      <3>1. proc'[p] = Idle /\ art' = art /\ fresh' = Forget(p)
        BY <1>8, <1>a, <2>1 DEF SetStatusInspecting
      <3> QED BY <3>1, <1>a, <1>f
    <2>2. CASE art.status \notin OrchestratorLive \union {"inspecting"}
      <3>1. /\ proc'[p] = [proc[p] EXCEPT !.pc = "inspecting"]
            /\ art' = [art EXCEPT !.status = "inspecting"]
            /\ fresh' = {<<p, "own">>} /\ proc[p].pc = "inspectReady"
        BY <1>8, <1>a, <2>2 DEF SetStatusInspecting
      <3> QED BY <3>1, <1>a, <2>2 DEF Process, Artifact, OrchestratorLive
    <2> QED BY <2>1, <2>2
  <1>9. ASSUME InspectLeave(p) PROVE MemoryInv(p)' /\ SignalMatchesStatus'
    <2>1. proc'[p] = [proc[p] EXCEPT !.pc = "inspectTear"] /\ proc[p].pc = "inspecting"
      BY <1>9, <1>a DEF InspectLeave
    <2>2. CASE art.status = "inspecting"
      <3>1. art' = [art EXCEPT !.status = proc[p].seen.status] /\ fresh' = {<<p, "own">>}
        BY <1>9, <2>2 DEF InspectLeave
      <3> QED BY <2>1, <2>2, <3>1, <1>a DEF Process, Artifact
    <2>3. CASE art.status # "inspecting"
      <3>1. art' = art /\ fresh' = fresh
        BY <1>9, <2>3 DEF InspectLeave
      <3> QED BY <2>1, <3>1, <1>a DEF Process
    <2> QED BY <2>2, <2>3
  <1>10. ASSUME InspectTeardown(p) PROVE MemoryInv(p)' /\ SignalMatchesStatus'
    BY <1>10, <1>a, <1>f DEF InspectTeardown
  <1>11. ASSUME InspectSave(p) PROVE MemoryInv(p)' /\ SignalMatchesStatus'
    BY <1>11, <1>a, <1>f DEF InspectSave
  <1>b. MemoryInv(p)' /\ SignalMatchesStatus'
    BY <1>1, <1>2, <1>3, <1>4, <1>5, <1>6, <1>7, <1>8, <1>9, <1>10, <1>11 DEF Command
  <1> QED BY <1>b, CommandBystanders, BystandersKeepInv

LEMMA InterruptKeepsRequestInv ==
    ASSUME TypeOK, RequestInv, NEW p \in Procs, Interrupt(p)
    PROVE  RequestInv'
  <1> USE DEF MemoryInv, SignalMatchesStatus, Consistent, Inspecting, Terminal, At
  <1> USE DEF World, Store, Write, Goto, Exit, Become, Idle, Absent, Mk
  <1>a. /\ MemoryInv(p) /\ SignalMatchesStatus
        /\ proc \in [Procs -> Process] /\ proc[p] \in Process /\ art \in Artifact
    BY DEF RequestInv, TypeOK
  <1>f. <<p, "watch">> \notin Forget(p) /\ <<p, "loop">> \notin Forget(p)
    BY DEF Forget
  <1>1. ASSUME Sigint(p) PROVE MemoryInv(p)' /\ SignalMatchesStatus'
    <2>1. /\ art' = art
          /\ <<p, "watch">> \in fresh' => <<p, "watch">> \in fresh
          /\ <<p, "loop">> \in fresh' => <<p, "loop">> \in fresh
      BY <1>1 DEF Sigint
    <2>2. /\ \E g \in {"save", "down"} : proc'[p] = [proc[p] EXCEPT !.sig = g]
          /\ proc[p].pc # "idle"
      BY <1>1, <1>a DEF Sigint, Owning, Handshake, InLoop, Session
    <2> QED BY <2>1, <2>2, <1>a DEF Process
  <1>2. ASSUME SaveRunOnError(p) PROVE MemoryInv(p)' /\ SignalMatchesStatus'
    BY <1>2, <1>a, <1>f DEF SaveRunOnError
  <1>3. ASSUME SigintExit(p) PROVE MemoryInv(p)' /\ SignalMatchesStatus'
    BY <1>3, <1>a, <1>f DEF SigintExit
  <1>4. ASSUME Crash(p) PROVE MemoryInv(p)' /\ SignalMatchesStatus'
    BY <1>4, <1>a, <1>f DEF Crash
  <1>b. MemoryInv(p)' /\ SignalMatchesStatus'
    BY <1>1, <1>2, <1>3, <1>4 DEF Interrupt
  <1> QED BY <1>b, InterruptBystanders, BystandersKeepInv

LEMMA RequestKeepsRequestInv == ASSUME TypeOK, RequestInv, Request PROVE RequestInv'
  <1> USE DEF Write, World, TypeOK
  <1>1. fresh' = {} /\ proc' = proc
    BY DEF Request, RequestPause, RequestStop, EditRules
  <1>2. SignalMatchesStatus'
    BY DEF Request, RequestPause, RequestStop, EditRules, RequestInv, SignalMatchesStatus,
           Consistent, Artifact
  <1> QED BY <1>1, <1>2 DEF RequestInv, At

LEMMA RequestInvInductive ==
    /\ Init => RequestInv
    /\ TypeOK /\ RequestInv /\ [Next]_vars => RequestInv'
  <1>1. Init => RequestInv
    BY DEF Init, RequestInv, SignalMatchesStatus, Consistent, Absent, Idle, Mk, Inspecting, At
  <1>2. ASSUME TypeOK, RequestInv, [Next]_vars PROVE RequestInv'
    <2>1. CASE UNCHANGED vars
      BY <1>2, <2>1 DEF vars, RequestInv, SignalMatchesStatus, At
    <2>2. CASE Request
      BY <1>2, <2>2, RequestKeepsRequestInv
    <2>3. ASSUME NEW p \in Procs, Start(p) \/ Loop(p) \/ Command(p) \/ Interrupt(p)
          PROVE  RequestInv'
      BY <1>2, <2>3, StartKeepsRequestInv, LoopKeepsRequestInv, CommandKeepsRequestInv,
         InterruptKeepsRequestInv
    <2> QED BY <1>2, <2>1, <2>2, <2>3 DEF Next
  <1> QED BY <1>1, <1>2

\* A stored run is "pausing" or "stopping" exactly while a pause or a stop is
\* pending on it, whatever mixture of reads the concurrent saves are made of.
THEOREM SignalsAgree == Spec => []SignalMatchesStatus
  <1>1. Spec => []RequestInv
    BY TypeCorrect, RequestInvInductive, PTL DEF Spec
  <1>2. RequestInv => SignalMatchesStatus
    BY DEF RequestInv
  <1> QED BY <1>1, <1>2, PTL

\* What RequestNotLost says of one step.
Told == \E p \in Procs : At(p, "saving") /\ proc[p].abort # "none"
Wiped == art.signal # "none" /\ art'.status = "running"

LEMMA StartNotLost ==
    ASSUME TypeOK, RequestInv, NEW p \in Procs, Start(p), Wiped
    PROVE  Told
  <1> USE DEF Wiped, Store, Write, Mk
  <1>a. /\ art.status \in {"pausing", "stopping"} /\ art \in Artifact
        /\ proc[p].seen \in Artifact /\ Consistent(art) /\ Consistent(proc[p].seen)
    BY DEF RequestInv, SignalMatchesStatus, Consistent, TypeOK, Process, Artifact, Signals
  <1>1. CASE SetStatusStartingNewRun(p)
    BY <1>1, <1>a DEF SetStatusStartingNewRun
  <1>2. CASE BeginRunStartFromArtifact(p)
    BY <1>2, <1>a DEF BeginRunStartFromArtifact, Artifact
  <1>3. CASE RestartRefused(p)
    BY <1>3, <1>a DEF RestartRefused
  <1>4. CASE AbortRunStartIfStopRequested(p)
    BY <1>4, <1>a DEF AbortRunStartIfStopRequested
  <1>5. CASE AbortRunStartSave(p)
    BY <1>5, <1>a DEF AbortRunStartSave, Artifact
  <1>6. CASE StartThrows(p)
    BY <1>6, <1>a DEF StartThrows
  <1>7. CASE CreateSandbox(p)
    BY <1>7, <1>a DEF CreateSandbox
  <1>8. CASE SetStatusRunning(p)
    BY <1>8, <1>a DEF SetStatusRunning, RefusesRunning
  <1>9. CASE ResumeRead(p)
    BY <1>9, <1>a DEF ResumeRead
  <1>10. CASE ResumeSave(p)
    <2>1. proc[p].seen.status = "paused"
      BY <1>10 DEF ResumeSave, RequestInv, At
    <2> QED BY <1>10, <1>a, <2>1 DEF ResumeSave, Artifact
  <1>11. CASE ResumeInfra(p)
    BY <1>11, <1>a DEF ResumeInfra
  <1> QED BY <1>1, <1>2, <1>3, <1>4, <1>5, <1>6, <1>7, <1>8, <1>9, <1>10, <1>11 DEF Start

LEMMA LoopNotLost ==
    ASSUME TypeOK, RequestInv, NEW p \in Procs, Loop(p), Wiped
    PROVE  Told
  <1> USE DEF Wiped, Store, Write, Mk
  <1>a. /\ art.status \in {"pausing", "stopping"} /\ art \in Artifact
        /\ proc[p].seen \in Artifact /\ Consistent(art) /\ Consistent(proc[p].seen)
    BY DEF RequestInv, SignalMatchesStatus, Consistent, TypeOK, Process, Artifact, Signals
  <1>1. CASE PreRoundSync(p)
    BY <1>1, <1>a DEF PreRoundSync
  <1>2. CASE Provision(p)
    BY <1>2, <1>a DEF Provision
  <1>3. CASE ProvisionThrows(p)
    BY <1>3, <1>a DEF ProvisionThrows
  <1>4. CASE SaveRunningRead(p)
    BY <1>4, <1>a DEF SaveRunningRead
  <1>5. CASE SaveRunningWrite(p)
    <2>1. /\ <<p, "loop">> \in fresh /\ At(p, "saving")
          /\ KeptStatus(proc[p].seen.status) = "running"
      BY <1>5, <1>a DEF SaveRunningWrite
    <2>2. proc[p].seen.signal # art.signal
      BY <2>1, <1>a DEF KeptStatus, Consistent
    <2>3. proc[p].abort # "none"
      BY <2>1, <2>2 DEF RequestInv
    <2> QED BY <2>1, <2>3 DEF Told
  <1>6. CASE SubtaskDone(p)
    BY <1>6, <1>a DEF SubtaskDone
  <1>7. CASE Decide(p)
    BY <1>7, <1>a DEF Decide
  <1>8. CASE DriverAborted(p)
    BY <1>8, <1>a DEF DriverAborted
  <1>9. CASE Timeout(p)
    BY <1>9, <1>a DEF Timeout
  <1>10. CASE EngineEnds(p)
    BY <1>10, <1>a DEF EngineEnds
  <1>11. CASE EngineGone(p)
    BY <1>11, <1>a DEF EngineGone
  <1>12. CASE SessionEnds(p)
    BY <1>12, <1>a DEF SessionEnds
  <1>13. CASE FinalSave(p)
    BY <1>13, <1>a DEF FinalSave, FinalArtifact
  <1>14. CASE DestroySandbox(p)
    BY <1>14, <1>a DEF DestroySandbox
  <1>15. CASE TickRead(p)
    BY <1>15, <1>a DEF TickRead
  <1>16. CASE TickApply(p)
    BY <1>16, <1>a DEF TickApply
  <1> QED BY <1>1, <1>2, <1>3, <1>4, <1>5, <1>6, <1>7, <1>8, <1>9, <1>10, <1>11, <1>12, <1>13,
             <1>14, <1>15, <1>16 DEF Loop

LEMMA CommandNotLost ==
    ASSUME TypeOK, RequestInv, NEW p \in Procs, Command(p), Wiped
    PROVE  Told
  <1> USE DEF Wiped, Store, Write, Mk
  <1>a. /\ art.status \in {"pausing", "stopping"} /\ art \in Artifact
        /\ proc[p].seen \in Artifact /\ Consistent(art) /\ Consistent(proc[p].seen)
    BY DEF RequestInv, SignalMatchesStatus, Consistent, TypeOK, Process, Artifact, Signals
  <1>1. CASE StopPausedRead(p)
    BY <1>1, <1>a DEF StopPausedRead
  <1>2. CASE StopPausedTeardown(p)
    BY <1>2, <1>a DEF StopPausedTeardown
  <1>3. CASE StopPausedSave(p)
    BY <1>3, <1>a DEF StopPausedSave
  <1>4. CASE ForceStop(p)
    BY <1>4, <1>a DEF ForceStop
  <1>5. CASE PersistForceStopped(p)
    BY <1>5, <1>a DEF PersistForceStopped, Terminal
  <1>6. CASE InspectRead(p)
    BY <1>6, <1>a DEF InspectRead
  <1>7. CASE InspectBoot(p)
    BY <1>7, <1>a DEF InspectBoot
  <1>8. CASE SetStatusInspecting(p)
    <2>1. art' = art \/ art' = [art EXCEPT !.status = "inspecting"]
      BY <1>8 DEF SetStatusInspecting
    <2> QED BY <2>1, <1>a DEF Artifact
  <1>9. CASE InspectLeave(p)
    <2>1. proc[p].seen.status \in Terminal \union {"paused"}
      BY <1>9 DEF InspectLeave, RequestInv, At, Inspecting
    <2> QED BY <1>9, <1>a, <2>1 DEF InspectLeave, Terminal, Artifact
  <1>10. CASE InspectTeardown(p)
    BY <1>10, <1>a DEF InspectTeardown
  <1>11. CASE InspectSave(p)
    <2>1. proc[p].seen.status \in Terminal \union {"paused"}
      BY <1>11 DEF InspectSave, RequestInv, At, Inspecting
    <2> QED BY <1>11, <1>a, <2>1 DEF InspectSave, Terminal, Artifact
  <1> QED BY <1>1, <1>2, <1>3, <1>4, <1>5, <1>6, <1>7, <1>8, <1>9, <1>10, <1>11 DEF Command

LEMMA InterruptNotLost ==
    ASSUME TypeOK, RequestInv, NEW p \in Procs, Interrupt(p), Wiped
    PROVE  Told
  <1> USE DEF Wiped, Store, Write, Mk
  <1>a. /\ art.status \in {"pausing", "stopping"} /\ art \in Artifact
        /\ proc[p].seen \in Artifact /\ Consistent(art) /\ Consistent(proc[p].seen)
    BY DEF RequestInv, SignalMatchesStatus, Consistent, TypeOK, Process, Artifact, Signals
  <1>1. CASE Sigint(p)
    BY <1>1, <1>a DEF Sigint
  <1>2. CASE SaveRunOnError(p)
    BY <1>2, <1>a DEF SaveRunOnError
  <1>3. CASE SigintExit(p)
    BY <1>3, <1>a DEF SigintExit
  <1>4. CASE Crash(p)
    BY <1>4, <1>a DEF Crash
  <1> QED BY <1>1, <1>2, <1>3, <1>4 DEF Interrupt

\* A save of the running loop wipes a pending `run pause` or `run stop` off the
\* artifact only when its session has been told to end.
THEOREM RequestsAreNotLost == Spec => RequestNotLost
  <1>1. ASSUME TypeOK, RequestInv, [Next]_vars, Wiped PROVE Told
    <2>1. ~(art' = art)
      BY <1>1 DEF Wiped, RequestInv, SignalMatchesStatus, Consistent, TypeOK, Artifact, Signals
    <2>2. CASE Request
      <3>1. art.status # "running" /\ art \in Artifact
        BY <1>1 DEF Wiped, RequestInv, SignalMatchesStatus, Consistent, TypeOK, Artifact, Signals
      <3>2. art' = art \/ art' = [art EXCEPT !.status = "stopping", !.signal = "stop"]
        BY <2>2, <3>1 DEF Request, RequestPause, RequestStop, EditRules, Write
      <3> QED BY <1>1, <3>1, <3>2 DEF Wiped, Artifact
    <2>3. ASSUME NEW p \in Procs, Start(p) \/ Loop(p) \/ Command(p) \/ Interrupt(p)
          PROVE  Told
      BY <1>1, <2>3, StartNotLost, LoopNotLost, CommandNotLost, InterruptNotLost
    <2> QED BY <1>1, <2>1, <2>2, <2>3 DEF Next, vars
  <1>2. TypeOK /\ RequestInv /\ [Next]_vars => [Wiped => Told]_vars
    BY <1>1
  <1>3. Spec => []RequestInv
    BY TypeCorrect, RequestInvInductive, PTL DEF Spec
  <1>4. Spec => [][Wiped => Told]_vars
    BY <1>2, <1>3, TypeCorrect, PTL DEF Spec
  <1> QED BY <1>4 DEF RequestNotLost, Wiped, Told

-----------------------------------------------------------------------------
(***************************************************************************)
(* The stored status is the lock of a run: the processes use it as         *)
(* RunOwnership promises, for any number of them.                          *)
(*                                                                         *)
(* Two events are excluded.  `run stop --force` overwrites the status of a *)
(* run that another process still drives, and so does the SIGINT hook      *)
(* while its own process goes on: there the promise does not hold.         *)
(***************************************************************************)


NoForce == "force" \notin Env /\ "sigint" \notin Env

\* The part of OwnershipInv about the memory of one process.
OwnCopy(p) ==
    /\ proc[p].pc # "forced" /\ proc[p].sig = "off"
    /\ <<p, "own">> \in fresh =>
          /\ At(p, "inspecting") => art.status = "inspecting"
          /\ proc[p].pc \in (Inspecting \ {"inspecting"}) \union {"resume", "dropping", "dropped"}
                => art.status = proc[p].seen.status

Owns(p) == proc[p].pc \in Owning
Marked == art.status \in OrchestratorLive

\* What a process knows of the statuses it has read (from RequestInv), and that
\* the run of an owner is marked.
OwnCopies == \A p \in Procs :
    /\ OwnCopy(p)
    /\ proc[p].pc \in Inspecting => proc[p].seen.status \in Terminal \union {"paused"}
    /\ proc[p].pc \in {"resume", "dropping", "dropped"} => proc[p].seen.status = "paused"
    /\ Owns(p) => Marked

\* What a step of p may do to the lock: nothing, or one of the abstract steps.
Moves(p) ==
    \/ Owns(p)' = Owns(p) /\ Marked' = Marked
    \/ ~Owns(p) /\ Owns(p)' /\ ~Marked /\ Marked'
    \/ Owns(p) /\ ~Owns(p)' /\ ~Marked'
    \/ Owns(p) /\ ~Owns(p)' /\ Marked' = Marked

LEMMA OwningPlaces ==
    /\ "reserved" \in Owning /\ "begun" \in Owning /\ "worktree" \in Owning
    /\ "prepared" \in Owning /\ "aborting" \in Owning /\ "thaw" \in Owning
    /\ "booted" \in Owning /\ "provision" \in Owning /\ "save" \in Owning
    /\ "saving" \in Owning /\ "coding" \in Owning /\ "decide" \in Owning
    /\ "drained" \in Owning /\ "presync" \in Owning /\ "closing" \in Owning
    /\ "idle" \notin Owning /\ "reap" \notin Owning /\ "resume" \notin Owning
    /\ "restart" \notin Owning /\ "dropping" \notin Owning /\ "dropped" \notin Owning
    /\ "inspectBoot" \notin Owning /\ "inspectReady" \notin Owning
    /\ "inspecting" \notin Owning /\ "inspectTear" \notin Owning
    /\ "inspectSave" \notin Owning
  BY DEF Owning, Handshake, InLoop, Session

LEMMA StartMoves ==
    ASSUME TypeOK, OwnCopies, NoForce, NEW p \in Procs, Start(p)
    PROVE  Moves(p) /\ OwnCopy(p)'
  <1> USE OwningPlaces DEF Moves, Owns, Marked, OwnCopy, OwnCopies, At, Inspecting, NoForce
  <1> USE DEF World, Store, Write, Goto, Exit, Become, Idle, Mk, OrchestratorLive
  <1>a. /\ OwnCopy(p) /\ (Owns(p) => Marked)
        /\ proc \in [Procs -> Process] /\ proc[p] \in Process /\ art \in Artifact
    BY DEF TypeOK
  <1>f. <<p, "own">> \notin Forget(p)
    BY DEF Forget
  <1>1. ASSUME SetStatusStartingNewRun(p) PROVE Moves(p) /\ OwnCopy(p)'
    BY <1>1, <1>a, <1>f DEF SetStatusStartingNewRun
  <1>2. ASSUME BeginRunStartFromArtifact(p) PROVE Moves(p) /\ OwnCopy(p)'
    <2>1. /\ proc'[p].pc = "begun" /\ proc'[p].sig = "off" /\ fresh' = {}
          /\ art'.status = "starting" /\ proc[p].pc \in {"idle", "restart"}
      BY <1>2, <1>a DEF BeginRunStartFromArtifact, Artifact
    <2>2. art.status \notin OrchestratorLive
      BY <1>2 DEF BeginRunStartFromArtifact, AllowsBegin, Terminal
    <2> QED BY <2>1, <2>2
  <1>3. ASSUME RestartRefused(p) PROVE Moves(p) /\ OwnCopy(p)'
    BY <1>3, <1>a, <1>f DEF RestartRefused
  <1>4. ASSUME AbortRunStartIfStopRequested(p) PROVE Moves(p) /\ OwnCopy(p)'
    <2>1. art' = art /\ proc[p].pc \in {"reserved", "begun", "worktree"}
      BY <1>4 DEF AbortRunStartIfStopRequested
    <2>2. CASE StopRequested
      <3>1. proc'[p] = [proc[p] EXCEPT !.pc = "aborting", !.seen = art]
        BY <1>4, <1>a, <2>2 DEF AbortRunStartIfStopRequested
      <3> QED BY <2>1, <3>1, <1>a DEF Process
    <2>3. CASE ~StopRequested
      <3>1. \E l \in {"worktree", "prepared"} : proc'[p] = [proc[p] EXCEPT !.pc = l]
        BY <1>4, <1>a, <2>3 DEF AbortRunStartIfStopRequested
      <3> QED BY <2>1, <3>1, <1>a DEF Process
    <2> QED BY <2>2, <2>3
  <1>5. ASSUME AbortRunStartSave(p) PROVE Moves(p) /\ OwnCopy(p)'
    <2>1. /\ proc'[p] = Idle /\ proc[p].pc = "aborting"
          /\ <<p, "own">> \notin fresh'
      BY <1>5, <1>a, <1>f DEF AbortRunStartSave
    <2>2. art' = art \/ art'.status = "failed"
      BY <1>5, <1>a DEF AbortRunStartSave, Process, Artifact
    <2> QED BY <2>1, <2>2
  <1>6. ASSUME StartThrows(p) PROVE Moves(p) /\ OwnCopy(p)'
    BY <1>6, <1>a, <1>f DEF StartThrows
  <1>7. ASSUME CreateSandbox(p) PROVE Moves(p) /\ OwnCopy(p)'
    BY <1>7, <1>a, <1>f DEF CreateSandbox
  <1>8. ASSUME SetStatusRunning(p) PROVE Moves(p) /\ OwnCopy(p)'
    <2>1. proc[p].pc = "booted" /\ <<p, "own">> \notin fresh'
      BY <1>8, <1>f DEF SetStatusRunning
    <2>2. CASE art.status \in RefusesRunning
      BY <1>8, <1>a, <2>1, <2>2 DEF SetStatusRunning
    <2>3. CASE art.status \notin RefusesRunning
      <3>1. proc'[p] = [proc[p] EXCEPT !.pc = "presync"] /\ art'.status = "running"
        BY <1>8, <1>a, <2>3 DEF SetStatusRunning
      <3>2. proc'[p].pc = "presync" /\ proc'[p].sig = "off"
        BY <3>1, <1>a DEF Process
      <3>3. Owns(p) /\ Owns(p)' /\ Marked'
        BY <2>1, <3>1, <3>2
      <3>4. Marked
        BY <3>3, <1>a
      <3> QED BY <2>1, <3>2, <3>3, <3>4
    <2> QED BY <2>2, <2>3
  <1>9. ASSUME ResumeRead(p) PROVE Moves(p) /\ OwnCopy(p)'
    BY <1>9, <1>a, <1>f DEF ResumeRead
  <1>10. ASSUME ResumeSave(p) PROVE Moves(p) /\ OwnCopy(p)'
    <2>1. /\ <<p, "own">> \notin fresh' /\ proc[p].pc = "resume"
          /\ proc[p].seen.status = "paused"
      BY <1>10, <1>f DEF ResumeSave
    <2>2. CASE proc'[p] = Idle /\ art' = art
      BY <2>1, <2>2
    <2>3. CASE <<p, "own">> \in fresh
      <3>1. art.status = "paused"
        BY <2>1, <2>3, <1>a
      <3>2. \/ /\ proc'[p] = [Idle EXCEPT !.pc = "thaw", !.held = TRUE]
               /\ art' = [proc[p].seen EXCEPT !.status = "resuming", !.signal = "none"]
            \/ /\ proc'[p] = [Idle EXCEPT !.pc = "restart"]
               /\ art' = [proc[p].seen EXCEPT !.path = FALSE, !.signal = "none"]
        BY <1>10, <1>a, <2>3 DEF ResumeSave
      <3>3. \/ proc'[p].pc = "thaw" /\ proc'[p].sig = "off" /\ art'.status = "resuming"
            \/ proc'[p].pc = "restart" /\ proc'[p].sig = "off" /\ art'.status = "paused"
        <4>1. CASE proc'[p] = [Idle EXCEPT !.pc = "thaw", !.held = TRUE]
          <5>1. art' = [proc[p].seen EXCEPT !.status = "resuming", !.signal = "none"]
            BY <3>2, <4>1
          <5> QED BY <4>1, <5>1, <1>a DEF Process, Artifact
        <4>2. CASE proc'[p] = [Idle EXCEPT !.pc = "restart"]
          <5>1. art' = [proc[p].seen EXCEPT !.path = FALSE, !.signal = "none"]
            BY <3>2, <4>2
          <5> QED BY <4>2, <5>1, <2>1, <1>a DEF Process, Artifact
        <4> QED BY <3>2, <4>1, <4>2
      <3> QED BY <2>1, <3>1, <3>3
    <2>4. <<p, "own">> \notin fresh => proc'[p] = Idle /\ art' = art
      BY <1>10, <1>a DEF ResumeSave
    <2> QED BY <2>2, <2>3, <2>4
  <1>11. ASSUME ResumeInfra(p) PROVE Moves(p) /\ OwnCopy(p)'
    <2>1. art' = art /\ proc[p].pc = "thaw"
      BY <1>11 DEF ResumeInfra
    <2>2. proc'[p] = [proc[p] EXCEPT !.pc = "booted"]
      BY <1>11, <1>a DEF ResumeInfra
    <2> QED BY <2>1, <2>2, <1>a DEF Process
  <1> QED BY <1>1, <1>2, <1>3, <1>4, <1>5, <1>6, <1>7, <1>8, <1>9, <1>10, <1>11 DEF Start

LEMMA LoopMoves ==
    ASSUME TypeOK, OwnCopies, NoForce, NEW p \in Procs, Loop(p)
    PROVE  Moves(p) /\ OwnCopy(p)'
  <1> USE OwningPlaces DEF Moves, Owns, Marked, OwnCopy, OwnCopies, At, Inspecting, NoForce
  <1> USE DEF World, Store, Write, Goto, Exit, Become, Idle, Mk, OrchestratorLive
  <1>a. /\ OwnCopy(p) /\ (Owns(p) => Marked)
        /\ proc \in [Procs -> Process] /\ proc[p] \in Process /\ art \in Artifact
    BY DEF TypeOK
  <1>f. <<p, "own">> \notin Forget(p)
    BY DEF Forget
  <1>1. ASSUME PreRoundSync(p) PROVE Moves(p) /\ OwnCopy(p)'
    BY <1>1, <1>a, <1>f DEF PreRoundSync
  <1>2. ASSUME Provision(p) PROVE Moves(p) /\ OwnCopy(p)'
    BY <1>2, <1>a, <1>f DEF Provision
  <1>3. ASSUME ProvisionThrows(p) PROVE Moves(p) /\ OwnCopy(p)'
    BY <1>3, <1>a, <1>f DEF ProvisionThrows
  <1>4. ASSUME SaveRunningRead(p) PROVE Moves(p) /\ OwnCopy(p)'
    BY <1>4, <1>a, <1>f DEF SaveRunningRead
  <1>5. ASSUME SaveRunningWrite(p) PROVE Moves(p) /\ OwnCopy(p)'
    <2>1. /\ proc'[p].pc \in {"coding", "save", "decide"} /\ proc'[p].sig = "off"
          /\ proc[p].pc = "saving"
      BY <1>5, <1>a DEF SaveRunningWrite, AfterSave, Process
    <2>2. Owns(p)' = Owns(p) /\ OwnCopy(p)'
      BY <2>1
    <2>3. CASE <<p, "loop">> \in fresh
      <3>1. art'.status = KeptStatus(proc[p].seen.status)
        BY <1>5, <2>3 DEF SaveRunningWrite
      <3>2. Marked'
        BY <3>1 DEF KeptStatus
      <3>3. Marked
        BY <2>1, <1>a
      <3> QED BY <2>2, <3>2, <3>3
    <2>4. CASE <<p, "loop">> \notin fresh
      BY <1>5, <2>2, <2>4 DEF SaveRunningWrite
    <2> QED BY <2>3, <2>4
  <1>6. ASSUME SubtaskDone(p) PROVE Moves(p) /\ OwnCopy(p)'
    <2>1. art' = art /\ proc[p].pc = "coding"
      BY <1>6 DEF SubtaskDone
    <2>2. proc'[p].pc \in {"drained", "save"} /\ proc'[p].sig = proc[p].sig
      <3>1. \/ proc'[p] = [proc[p] EXCEPT !.pc = "drained",
                                          !.abort = FirstAbort(@, art.signal)]
            \/ \E first \in {"stageUp", "progress"} :
                  proc'[p] = [proc[p] EXCEPT !.pc = "save", !.save = first]
        BY <1>6, <1>a DEF SubtaskDone
      <3>2. CASE proc'[p] = [proc[p] EXCEPT !.pc = "drained",
                                           !.abort = FirstAbort(@, art.signal)]
        BY <3>2, <1>a DEF Process
      <3>3. CASE \E first \in {"stageUp", "progress"} :
                  proc'[p] = [proc[p] EXCEPT !.pc = "save", !.save = first]
        BY <3>3, <1>a DEF Process
      <3> QED BY <3>1, <3>2, <3>3
    <2> QED BY <2>1, <2>2, <1>a
  <1>7. ASSUME Decide(p) PROVE Moves(p) /\ OwnCopy(p)'
    <2>1. art' = art /\ proc[p].pc = "decide"
      BY <1>7 DEF Decide
    <2>2. proc'[p].pc \in {"drained", "coding"} /\ proc'[p].sig = proc[p].sig
      <3>1. CASE Goto(p, "coding")
        BY <1>a, <3>1 DEF Process
      <3>2. CASE Become(p, [proc[p] EXCEPT !.pc = "drained", !.term = "success"])
        BY <1>a, <3>2 DEF Process
      <3>3. CASE Become(p, [proc[p] EXCEPT !.pc = "drained", !.term = "failed",
                                           !.abort = FirstAbort(@, "stop")])
        BY <1>a, <3>3 DEF Process
      <3> QED BY <1>7, <3>1, <3>2, <3>3 DEF Decide
    <2> QED BY <2>1, <2>2, <1>a
  <1>8. ASSUME DriverAborted(p) PROVE Moves(p) /\ OwnCopy(p)'
    BY <1>8, <1>a, <1>f DEF DriverAborted
  <1>9. ASSUME Timeout(p) PROVE Moves(p) /\ OwnCopy(p)'
    BY <1>9, <1>a, <1>f DEF Timeout
  <1>10. ASSUME EngineEnds(p) PROVE Moves(p) /\ OwnCopy(p)'
    BY <1>10, <1>a, <1>f DEF EngineEnds
  <1>11. ASSUME EngineGone(p) PROVE Moves(p) /\ OwnCopy(p)'
    BY <1>11, <1>a, <1>f DEF EngineGone
  <1>12. ASSUME SessionEnds(p) PROVE Moves(p) /\ OwnCopy(p)'
    BY <1>12, <1>a, <1>f DEF SessionEnds
  <1>13. ASSUME FinalSave(p) PROVE Moves(p) /\ OwnCopy(p)'
    <2>1. /\ proc[p].pc = "closing"
          /\ proc'[p] = Idle \/ proc'[p] = [proc[p] EXCEPT !.pc = "reap"]
      BY <1>13, <1>a DEF FinalSave
    <2>2. proc'[p].pc \in {"idle", "reap"} /\ proc'[p].sig = "off"
      BY <2>1, <1>a DEF Process
    <2>3. art' = art \/ art' = FinalArtifact(p)
      BY <1>13 DEF FinalSave
    <2>4. FinalArtifact(p).status \in {"paused", "completed", "failed"}
      BY DEF FinalArtifact
    <2> QED BY <2>1, <2>2, <2>3, <2>4
  <1>14. ASSUME DestroySandbox(p) PROVE Moves(p) /\ OwnCopy(p)'
    BY <1>14, <1>a, <1>f DEF DestroySandbox
  <1>15. ASSUME TickRead(p) PROVE Moves(p) /\ OwnCopy(p)'
    BY <1>15, <1>a, <1>f DEF TickRead
  <1>16. ASSUME TickApply(p) PROVE Moves(p) /\ OwnCopy(p)'
    BY <1>16, <1>a, <1>f DEF TickApply
  <1> QED BY <1>1, <1>2, <1>3, <1>4, <1>5, <1>6, <1>7, <1>8, <1>9, <1>10, <1>11, <1>12, <1>13,
             <1>14, <1>15, <1>16 DEF Loop

LEMMA CommandMoves ==
    ASSUME TypeOK, OwnCopies, NoForce, NEW p \in Procs, Command(p)
    PROVE  Moves(p) /\ OwnCopy(p)'
  <1> USE OwningPlaces DEF Moves, Owns, Marked, OwnCopy, OwnCopies, At, Inspecting, NoForce
  <1> USE DEF World, Store, Write, Goto, Exit, Become, Idle, Mk, OrchestratorLive
  <1>a. /\ OwnCopy(p) /\ (Owns(p) => Marked)
        /\ proc \in [Procs -> Process] /\ proc[p] \in Process /\ art \in Artifact
    BY DEF TypeOK
  <1>f. <<p, "own">> \notin Forget(p)
    BY DEF Forget
  <1>1. ASSUME StopPausedRead(p) PROVE Moves(p) /\ OwnCopy(p)'
    BY <1>1, <1>a, <1>f DEF StopPausedRead
  <1>2. ASSUME StopPausedTeardown(p) PROVE Moves(p) /\ OwnCopy(p)'
    BY <1>2, <1>a, <1>f DEF StopPausedTeardown
  <1>3. ASSUME StopPausedSave(p) PROVE Moves(p) /\ OwnCopy(p)'
    BY <1>3, <1>a, <1>f DEF StopPausedSave
  <1>4. ASSUME ForceStop(p) PROVE Moves(p) /\ OwnCopy(p)'
    BY <1>4, <1>a, <1>f DEF ForceStop
  <1>5. ASSUME PersistForceStopped(p) PROVE Moves(p) /\ OwnCopy(p)'
    BY <1>5, <1>a, <1>f DEF PersistForceStopped
  <1>6. ASSUME InspectRead(p) PROVE Moves(p) /\ OwnCopy(p)'
    BY <1>6, <1>a, <1>f DEF InspectRead
  <1>7. ASSUME InspectBoot(p) PROVE Moves(p) /\ OwnCopy(p)'
    BY <1>7, <1>a, <1>f DEF InspectBoot
  <1>8. ASSUME SetStatusInspecting(p) PROVE Moves(p) /\ OwnCopy(p)'
    <2>1. proc[p].pc = "inspectReady"
      BY <1>8 DEF SetStatusInspecting
    <2>2. CASE art.status \in OrchestratorLive \union {"inspecting"}
      BY <1>8, <1>a, <1>f, <2>1, <2>2 DEF SetStatusInspecting
    <2>3. CASE art.status \notin OrchestratorLive \union {"inspecting"}
      <3>1. /\ proc'[p] = [proc[p] EXCEPT !.pc = "inspecting"]
            /\ art' = [art EXCEPT !.status = "inspecting"]
        BY <1>8, <1>a, <2>3 DEF SetStatusInspecting
      <3> QED BY <2>1, <2>3, <3>1, <1>a DEF Process, Artifact
    <2> QED BY <2>2, <2>3
  <1>9. ASSUME InspectLeave(p) PROVE Moves(p) /\ OwnCopy(p)'
    <2>1. /\ proc[p].pc = "inspecting"
          /\ proc[p].seen.status \in Terminal \union {"paused"}
          /\ proc'[p] = [proc[p] EXCEPT !.pc = "inspectTear"]
      BY <1>9, <1>a DEF InspectLeave
    <2>2. /\ proc'[p].pc = "inspectTear" /\ proc'[p].sig = "off"
          /\ proc'[p].seen = proc[p].seen
      BY <2>1, <1>a DEF Process
    <2>3. CASE art.status = "inspecting"
      <3>1. art'.status = proc[p].seen.status
        BY <1>9, <1>a, <2>3 DEF InspectLeave, Artifact
      <3> QED BY <2>1, <2>2, <2>3, <3>1 DEF Terminal
    <2>4. CASE art.status # "inspecting"
      <3>1. art' = art /\ fresh' = fresh
        BY <1>9, <2>4 DEF InspectLeave
      <3> QED BY <2>1, <2>2, <2>4, <3>1, <1>a
    <2> QED BY <2>3, <2>4
  <1>10. ASSUME InspectTeardown(p) PROVE Moves(p) /\ OwnCopy(p)'
    BY <1>10, <1>a, <1>f DEF InspectTeardown
  <1>11. ASSUME InspectSave(p) PROVE Moves(p) /\ OwnCopy(p)'
    BY <1>11, <1>a, <1>f DEF InspectSave
  <1> QED BY <1>1, <1>2, <1>3, <1>4, <1>5, <1>6, <1>7, <1>8, <1>9, <1>10, <1>11 DEF Command

LEMMA InterruptMoves ==
    ASSUME TypeOK, OwnCopies, NoForce, NEW p \in Procs, Interrupt(p)
    PROVE  Moves(p) /\ OwnCopy(p)'
  <1> USE OwningPlaces DEF Moves, Owns, Marked, OwnCopy, OwnCopies, At, Inspecting, NoForce
  <1> USE DEF World, Store, Write, Goto, Exit, Become, Idle, Mk, OrchestratorLive
  <1>a. /\ OwnCopy(p) /\ (Owns(p) => Marked)
        /\ proc \in [Procs -> Process] /\ proc[p] \in Process /\ art \in Artifact
    BY DEF TypeOK
  <1>f. <<p, "own">> \notin Forget(p)
    BY DEF Forget
  <1>1. ASSUME Sigint(p) PROVE Moves(p) /\ OwnCopy(p)'
    BY <1>1, <1>a, <1>f DEF Sigint
  <1>2. ASSUME SaveRunOnError(p) PROVE Moves(p) /\ OwnCopy(p)'
    BY <1>2, <1>a, <1>f DEF SaveRunOnError
  <1>3. ASSUME SigintExit(p) PROVE Moves(p) /\ OwnCopy(p)'
    BY <1>3, <1>a, <1>f DEF SigintExit
  <1>4. ASSUME Crash(p) PROVE Moves(p) /\ OwnCopy(p)'
    BY <1>4, <1>a, <1>f DEF Crash
  <1> QED BY <1>1, <1>2, <1>3, <1>4 DEF Interrupt

-----------------------------------------------------------------------------
(* From one process to all of them.                                          *)

\* A step that moves the lock as Moves says, and leaves the other processes
\* alone, keeps the invariant and is a step or a stutter of RunOwnership.
LEMMA MovesKeepOwnership ==
    ASSUME TypeOK, OwnershipInv, NEW p \in Procs, Bystanders(p), Moves(p), OwnCopy(p)'
    PROVE  OwnershipInv' /\ [Ownership!Next]_(Ownership!vars)
  <1>1. /\ \A q \in Procs : Owns(q) => Marked
        /\ \A q, r \in Procs : Owns(q) /\ Owns(r) => q = r
        /\ \A q \in Procs \ {p} : Owns(q)' = Owns(q)
    BY DEF OwnershipInv, OneOrchestrator, OwnerIsMarked, Bystanders, Owns, Marked
  <1>2. OneOrchestrator' /\ OwnerIsMarked'
    <2>1. /\ \A q \in Procs : Owns(q)' => Marked'
          /\ \A q, r \in Procs : Owns(q)' /\ Owns(r)' => q = r
      BY <1>1 DEF Moves
    <2> QED BY <2>1 DEF OneOrchestrator, OwnerIsMarked, Owns, Marked
  <1>3. \A q \in Procs : OwnCopy(q)'
    <2> SUFFICES ASSUME NEW q \in Procs, q # p PROVE OwnCopy(q)'
      OBVIOUS
    <2>1. OwnCopy(q)
      BY DEF OwnershipInv, OwnCopy
    <2>2. proc'[q] = proc[q] /\ (<<q, "own">> \in fresh' => <<q, "own">> \in fresh /\ art' = art)
      BY DEF Bystanders
    <2> QED BY <2>1, <2>2 DEF OwnCopy, At
  <1>4. OwnershipInv'
    BY <1>2, <1>3 DEF OwnershipInv, OwnCopy
  <1>5. [Ownership!Next]_(Ownership!vars)
    <2> DEFINE owners == {q \in Procs : Owns(q)}
    <2>1. CASE Owns(p)' = Owns(p) /\ Marked' = Marked
      <3>1. owners' = owners
        BY <1>1, <2>1
      <3> QED BY <2>1, <3>1 DEF Ownership!vars, Owns, Marked
    <2>2. CASE ~Owns(p) /\ Owns(p)' /\ ~Marked /\ Marked'
      <3>1. owners = {} /\ owners' = {p}
        BY <1>1, <2>2
      <3> QED BY <2>2, <3>1 DEF Ownership!Next, Ownership!Take, Owns, Marked
    <2>3. CASE Owns(p) /\ ~Owns(p)'
      <3>1. owners = {p} /\ owners' = {}
        BY <1>1, <2>3
      <3>2. CASE ~Marked'
        BY <3>1, <3>2 DEF Ownership!Next, Ownership!GiveBack, Owns, Marked
      <3>3. CASE Marked' = Marked
        BY <3>1, <3>3 DEF Ownership!Next, Ownership!Lose, Owns, Marked
      <3> QED BY <2>3, <3>2, <3>3 DEF Moves
    <2> QED BY <2>1, <2>2, <2>3 DEF Moves
  <1> QED BY <1>4, <1>5

\* Requests and stutters move nothing.
LEMMA StillKeepsOwnership ==
    ASSUME TypeOK, OwnershipInv, Request \/ UNCHANGED vars
    PROVE  OwnershipInv' /\ [Ownership!Next]_(Ownership!vars)
  <1>1. CASE UNCHANGED vars
    BY <1>1 DEF vars, OwnershipInv, OneOrchestrator, OwnerIsMarked, At, Ownership!vars
  <1>2. CASE Request
    <2>1. proc' = proc /\ fresh' = {}
      BY <1>2 DEF Request, RequestPause, RequestStop, EditRules, Write
    <2>2. Marked' = Marked
      <3>1. \/ art.status = "running" /\ art' = [art EXCEPT !.status = "pausing", !.signal = "pause"]
            \/ Marked /\ art' = [art EXCEPT !.status = "stopping", !.signal = "stop"]
            \/ art' = art
        BY <1>2 DEF Request, RequestPause, RequestStop, EditRules, Write, Marked
      <3>2. art \in Artifact
        BY DEF TypeOK
      <3>3. CASE art.status = "running" /\ art' = [art EXCEPT !.status = "pausing", !.signal = "pause"]
        <4>1. art'.status = "pausing"
          BY <3>2, <3>3 DEF Artifact
        <4> QED BY <3>3, <4>1 DEF Marked, OrchestratorLive
      <3>4. CASE Marked /\ art' = [art EXCEPT !.status = "stopping", !.signal = "stop"]
        <4>1. art'.status = "stopping"
          BY <3>2, <3>4 DEF Artifact
        <4> QED BY <3>4, <4>1 DEF Marked, OrchestratorLive
      <3>5. CASE art' = art
        BY <3>5 DEF Marked
      <3> QED BY <3>1, <3>3, <3>4, <3>5
    <2>3. OwnershipInv'
      BY <2>1, <2>2 DEF OwnershipInv, OneOrchestrator, OwnerIsMarked, Marked
    <2>4. UNCHANGED Ownership!vars
      BY <2>1, <2>2 DEF Ownership!vars, Marked
    <2> QED BY <2>3, <2>4
  <1> QED BY <1>1, <1>2

LEMMA NextKeepsOwnership ==
    ASSUME TypeOK, RequestInv, OwnershipInv, NoForce, [Next]_vars
    PROVE  OwnershipInv' /\ [Ownership!Next]_(Ownership!vars)
  <1>1. OwnCopies
    BY DEF OwnCopies, OwnCopy, OwnershipInv, OwnerIsMarked, RequestInv, Owns, Marked
  <1>2. CASE Request \/ UNCHANGED vars
    BY <1>2, StillKeepsOwnership
  <1>3. ASSUME NEW p \in Procs, Start(p) \/ Loop(p) \/ Command(p) \/ Interrupt(p)
        PROVE  OwnershipInv' /\ [Ownership!Next]_(Ownership!vars)
    <2>1. Bystanders(p)
      BY <1>3, StartBystanders, LoopBystanders, CommandBystanders, InterruptBystanders
    <2>2. Moves(p) /\ OwnCopy(p)'
      BY <1>1, <1>3, StartMoves, LoopMoves, CommandMoves, InterruptMoves
    <2> QED BY <2>1, <2>2, MovesKeepOwnership
  <1> QED BY <1>2, <1>3 DEF Next

LEMMA OwnershipInitially == Init => OwnershipInv /\ Ownership!Init
  <1> SUFFICES ASSUME Init PROVE OwnershipInv /\ Ownership!Init
    OBVIOUS
  <1>1. art.status = "absent" /\ fresh = {} /\ \A p \in Procs : proc[p] = Idle
    BY DEF Init, Absent, Mk
  <1>2. Idle.pc = "idle" /\ Idle.sig = "off"
    BY DEF Idle
  <1> QED BY <1>1, <1>2, OwningPlaces
          DEF OwnershipInv, OneOrchestrator, OwnerIsMarked, OrchestratorLive, Ownership!Init

LEMMA OwnershipHolds == ASSUME NoForce PROVE Spec => []OwnershipInv
  <1>1. TypeOK /\ RequestInv /\ OwnershipInv /\ [Next]_vars => OwnershipInv'
    BY NextKeepsOwnership
  <1>2. Spec => []RequestInv
    BY TypeCorrect, RequestInvInductive, PTL DEF Spec
  <1>3. Init => OwnershipInv
    BY OwnershipInitially
  <1> QED BY <1>1, <1>2, <1>3, TypeCorrect, PTL DEF Spec

\* Without `run stop --force` and Ctrl+C two processes never drive the run at
\* the same time, whatever they crash, race or fail at.
THEOREM NeverTwoOrchestrators ==
    ASSUME NoForce PROVE Spec => []OneOrchestrator
  <1>1. OwnershipInv => OneOrchestrator
    BY DEF OwnershipInv
  <1> QED BY <1>1, OwnershipHolds, PTL

\* And the artifact of a run that is driven always says so.
THEOREM OwnersAreMarked ==
    ASSUME NoForce PROVE Spec => []OwnerIsMarked
  <1>1. OwnershipInv => OwnerIsMarked
    BY DEF OwnershipInv
  <1> QED BY <1>1, OwnershipHolds, PTL

\* The status written by the handshakes, saves and commands is a lock: each
\* step takes it, gives it back, loses it or leaves it alone.
THEOREM StatusIsALock ==
    ASSUME NoForce PROVE Spec => ImplementsOwnership
  <1>1. TypeOK /\ RequestInv /\ OwnershipInv /\ [Next]_vars
            => [Ownership!Next]_(Ownership!vars)
    BY NextKeepsOwnership
  <1>2. Spec => []RequestInv
    BY TypeCorrect, RequestInvInductive, PTL DEF Spec
  <1>3. Init => Ownership!Init
    BY OwnershipInitially
  <1>4. Spec => Ownership!Spec
    BY <1>1, <1>2, <1>3, OwnershipHolds, TypeCorrect, PTL DEF Spec, Ownership!Spec
  <1> QED BY <1>4 DEF ImplementsOwnership

-----------------------------------------------------------------------------
(* Completed runs.                                                           *)

\* What CompletedIsFinal says of one step.
Stays == art.status = "completed" => art'.status \in {"completed", "starting", "inspecting"}

LEMMA StartStays ==
    ASSUME TypeOK, OwnCopies, NoForce, NEW p \in Procs, Start(p)
    PROVE  Stays
  <1> SUFFICES ASSUME art.status = "completed" PROVE art' = art \/ Stays
    BY DEF Stays
  <1> USE DEF Stays, Store, Write, World, At, NoForce
  <1>a. /\ ~Owns(p) /\ art \in Artifact /\ proc[p].sig = "off"
        /\ OwnCopy(p) /\ proc[p].pc # "forced"
    BY DEF OwnCopies, OwnCopy, Marked, OrchestratorLive, TypeOK
  <1>1. CASE SetStatusStartingNewRun(p)
    BY <1>1, <1>a DEF SetStatusStartingNewRun
  <1>2. CASE BeginRunStartFromArtifact(p)
    BY <1>2, <1>a DEF BeginRunStartFromArtifact, Artifact
  <1>3. CASE RestartRefused(p)
    BY <1>3, <1>a DEF RestartRefused
  <1>4. CASE AbortRunStartIfStopRequested(p)
    BY <1>4, <1>a, OwningPlaces DEF AbortRunStartIfStopRequested, Owns
  <1>5. CASE AbortRunStartSave(p)
    BY <1>5, <1>a, OwningPlaces DEF AbortRunStartSave, Owns
  <1>6. CASE StartThrows(p)
    BY <1>6, <1>a DEF StartThrows
  <1>7. CASE CreateSandbox(p)
    BY <1>7, <1>a, OwningPlaces DEF CreateSandbox, Owns
  <1>8. CASE SetStatusRunning(p)
    BY <1>8, <1>a, OwningPlaces DEF SetStatusRunning, Owns
  <1>9. CASE ResumeRead(p)
    BY <1>9, <1>a DEF ResumeRead
  <1>10. CASE ResumeSave(p)
    BY <1>10, <1>a DEF ResumeSave, OwnCopy, OwnCopies, Inspecting
  <1>11. CASE ResumeInfra(p)
    BY <1>11, <1>a DEF ResumeInfra
  <1> QED BY <1>1, <1>2, <1>3, <1>4, <1>5, <1>6, <1>7, <1>8, <1>9, <1>10, <1>11 DEF Start

LEMMA LoopStays ==
    ASSUME TypeOK, OwnCopies, NoForce, NEW p \in Procs, Loop(p)
    PROVE  Stays
  <1> SUFFICES ASSUME art.status = "completed" PROVE art' = art \/ Stays
    BY DEF Stays
  <1> USE DEF Stays, Store, Write, World, At, NoForce
  <1>a. /\ ~Owns(p) /\ art \in Artifact /\ proc[p].sig = "off"
        /\ OwnCopy(p) /\ proc[p].pc # "forced"
    BY DEF OwnCopies, OwnCopy, Marked, OrchestratorLive, TypeOK
  <1>1. CASE PreRoundSync(p)
    BY <1>1, <1>a DEF PreRoundSync
  <1>2. CASE Provision(p)
    BY <1>2, <1>a DEF Provision
  <1>3. CASE ProvisionThrows(p)
    BY <1>3, <1>a DEF ProvisionThrows
  <1>4. CASE SaveRunningRead(p)
    BY <1>4, <1>a DEF SaveRunningRead
  <1>5. CASE SaveRunningWrite(p)
    BY <1>5, <1>a, OwningPlaces DEF SaveRunningWrite, Owns
  <1>6. CASE SubtaskDone(p)
    BY <1>6, <1>a DEF SubtaskDone
  <1>7. CASE Decide(p)
    BY <1>7, <1>a DEF Decide
  <1>8. CASE DriverAborted(p)
    BY <1>8, <1>a DEF DriverAborted
  <1>9. CASE Timeout(p)
    BY <1>9, <1>a DEF Timeout
  <1>10. CASE EngineEnds(p)
    BY <1>10, <1>a DEF EngineEnds
  <1>11. CASE EngineGone(p)
    BY <1>11, <1>a DEF EngineGone
  <1>12. CASE SessionEnds(p)
    BY <1>12, <1>a DEF SessionEnds
  <1>13. CASE FinalSave(p)
    BY <1>13, <1>a, OwningPlaces DEF FinalSave, Owns
  <1>14. CASE DestroySandbox(p)
    BY <1>14, <1>a DEF DestroySandbox
  <1>15. CASE TickRead(p)
    BY <1>15, <1>a DEF TickRead
  <1>16. CASE TickApply(p)
    BY <1>16, <1>a DEF TickApply
  <1> QED BY <1>1, <1>2, <1>3, <1>4, <1>5, <1>6, <1>7, <1>8, <1>9, <1>10, <1>11, <1>12, <1>13,
             <1>14, <1>15, <1>16 DEF Loop

LEMMA CommandStays ==
    ASSUME TypeOK, OwnCopies, NoForce, NEW p \in Procs, Command(p)
    PROVE  Stays
  <1> SUFFICES ASSUME art.status = "completed" PROVE art' = art \/ Stays
    BY DEF Stays
  <1> USE DEF Stays, Store, Write, World, At, NoForce
  <1>a. /\ ~Owns(p) /\ art \in Artifact /\ proc[p].sig = "off"
        /\ OwnCopy(p) /\ proc[p].pc # "forced"
    BY DEF OwnCopies, OwnCopy, Marked, OrchestratorLive, TypeOK
  <1>1. CASE StopPausedRead(p)
    BY <1>1, <1>a DEF StopPausedRead
  <1>2. CASE StopPausedTeardown(p)
    BY <1>2, <1>a DEF StopPausedTeardown
  <1>3. CASE StopPausedSave(p)
    BY <1>3, <1>a DEF StopPausedSave, OwnCopy, OwnCopies, Inspecting
  <1>4. CASE ForceStop(p)
    BY <1>4, <1>a DEF ForceStop
  <1>5. CASE PersistForceStopped(p)
    BY <1>5, <1>a DEF PersistForceStopped
  <1>6. CASE InspectRead(p)
    BY <1>6, <1>a DEF InspectRead
  <1>7. CASE InspectBoot(p)
    BY <1>7, <1>a DEF InspectBoot
  <1>8. CASE SetStatusInspecting(p)
    BY <1>8, <1>a DEF SetStatusInspecting, Artifact
  <1>9. CASE InspectLeave(p)
    BY <1>9, <1>a DEF InspectLeave
  <1>10. CASE InspectTeardown(p)
    BY <1>10, <1>a DEF InspectTeardown
  <1>11. CASE InspectSave(p)
    BY <1>11, <1>a DEF InspectSave, OwnCopy, OwnCopies, Inspecting
  <1> QED BY <1>1, <1>2, <1>3, <1>4, <1>5, <1>6, <1>7, <1>8, <1>9, <1>10, <1>11 DEF Command

LEMMA InterruptStays ==
    ASSUME TypeOK, OwnCopies, NoForce, NEW p \in Procs, Interrupt(p)
    PROVE  Stays
  <1> SUFFICES ASSUME art.status = "completed" PROVE art' = art \/ Stays
    BY DEF Stays
  <1> USE DEF Stays, Store, Write, World, At, NoForce
  <1>a. /\ ~Owns(p) /\ art \in Artifact /\ proc[p].sig = "off"
        /\ OwnCopy(p) /\ proc[p].pc # "forced"
    BY DEF OwnCopies, OwnCopy, Marked, OrchestratorLive, TypeOK
  <1>1. CASE Sigint(p)
    BY <1>1, <1>a DEF Sigint
  <1>2. CASE SaveRunOnError(p)
    BY <1>2, <1>a DEF SaveRunOnError
  <1>3. CASE SigintExit(p)
    BY <1>3, <1>a DEF SigintExit
  <1>4. CASE Crash(p)
    BY <1>4, <1>a DEF Crash
  <1> QED BY <1>1, <1>2, <1>3, <1>4 DEF Interrupt

\* Without `run stop --force` and Ctrl+C no save of an earlier session, stop or
\* inspection lands on a run recorded as completed.
THEOREM CompletedRunsStay ==
    ASSUME NoForce PROVE Spec => CompletedIsFinal
  <1>1. ASSUME TypeOK, RequestInv, OwnershipInv, [Next]_vars PROVE art' = art \/ Stays
    <2>1. OwnCopies
      BY <1>1 DEF OwnCopies, OwnCopy, OwnershipInv, OwnerIsMarked, RequestInv, Owns, Marked
    <2>2. CASE Request
      BY <2>2 DEF Request, RequestPause, RequestStop, EditRules, Write, OrchestratorLive, Stays
    <2>3. ASSUME NEW p \in Procs, Start(p) \/ Loop(p) \/ Command(p) \/ Interrupt(p)
          PROVE  Stays
      BY <1>1, <2>1, <2>3, StartStays, LoopStays, CommandStays, InterruptStays
    <2> QED BY <1>1, <2>2, <2>3 DEF Next, vars
  <1>2. TypeOK /\ RequestInv /\ OwnershipInv /\ [Next]_vars => [Stays]_vars
    BY <1>1 DEF Stays, vars
  <1>3. Spec => []RequestInv
    BY TypeCorrect, RequestInvInductive, PTL DEF Spec
  <1>4. Spec => [][Stays]_vars
    BY <1>2, <1>3, OwnershipHolds, TypeCorrect, PTL DEF Spec
  <1> QED BY <1>4 DEF CompletedIsFinal, Stays

=============================================================================
