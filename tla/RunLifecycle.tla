---------------------------- MODULE RunLifecycle ----------------------------
(***************************************************************************)
(* One run of saifctl: the stored artifact that every CLI process reads    *)
(* and writes, and the processes (`feat run`, `run start`, `run resume`,   *)
(* `run stop`, `run inspect`) that work on the run at the same time.       *)
(*                                                                         *)
(* A process is a CLI invocation.  A call of RunStorage (runs/storage.ts)  *)
(* is one step here.  The revision number of the artifact is abstracted by *)
(* `fresh`, the copies of it that still equal the stored one: a write      *)
(* guarded by ifRevisionEquals succeeds exactly when its copy is fresh.    *)
(***************************************************************************)
EXTENDS Naturals

CONSTANTS
    Procs,  \* the CLI processes that may work on the run
    Env     \* the events of the environment that may happen (see Events)

\* pause: `run pause`.  restop: `run stop` on a run that is already stopping.
\* edit: another writer bumps the revision (rules).  force: `run stop --force`.
\* failure: a step before or inside the session throws.  timeout: a timer.
\* crash: a process is killed.  sigint: Ctrl+C.  inspect: `run inspect`.
Events == {"pause", "restop", "edit", "force", "failure", "timeout",
           "crash", "sigint", "inspect"}

ASSUME EnvAssumption == Env \subseteq Events

VARIABLES
    art,      \* the stored run artifact
    fresh,    \* the copies of artifactRevision that equal the stored one
    proc,     \* the memory of each process
    sandbox,  \* the sandbox directory of the run, and what became of it
    infra     \* the coding containers and network: none, up or frozen

vars == <<art, fresh, proc, sandbox, infra>>

Statuses == {"absent", "starting", "running", "pausing", "paused", "stopping",
             "resuming", "inspecting", "failed", "completed"}
Signals  == {"none", "pause", "stop"}

\* signal: controlSignal.  path: pausedSandboxBasePath is set.
\* infra: liveInfra.coding is recorded.
Artifact == [status: Statuses, signal: Signals, path: BOOLEAN, infra: BOOLEAN]

Mk(status, signal, path, live) ==
    [status |-> status, signal |-> signal, path |-> path, infra |-> live]

Absent == Mk("absent", "none", FALSE, FALSE)

OrchestratorLive == {"starting", "running", "pausing", "stopping", "resuming"}
Terminal == {"failed", "completed"}

\* The copies of the revision a process keeps.  loop: runContext's
\* expectedArtifactRevision.  watch: read by the watcher tick in flight.
\* own: read by the command itself.  hook: taken by the SIGINT hook.
Copies == Procs \X {"loop", "watch", "own", "hook"}

AbortReasons == {"none", "pause", "stop", "timeout", "exited"}
Outcomes == {"none", "success", "failed", "stopped", "paused"}

\* Where a process is.  The start handshake, the loop, `run resume`,
\* `run stop` and `run inspect`, in that order.
Handshake == {"reserved", "begun", "worktree", "prepared", "aborting", "thaw", "booted"}
Session   == {"provision", "save", "saving", "coding", "decide", "drained"}
InLoop    == Session \union {"presync", "closing"}
Owning    == Handshake \union InLoop
Commands  == {"resume", "restart", "dropping", "dropped", "forced",
              "inspectBoot", "inspectReady", "inspecting", "inspectTear", "inspectSave"}
Locations == {"idle", "reap"} \union Owning \union Commands

Process ==
    [pc: Locations,
     seen: Artifact,                \* the artifact as this process last read it
     save: {"none", "infra", "stageUp", "stageDown", "progress"},
     held: BOOLEAN,                 \* resumedCodingInfra
     watching: BOOLEAN,             \* the rules watcher polls
     tick: {"off"} \union Signals,  \* what the watcher tick in flight has read
     notified: BOOLEAN,             \* controlSignalNotified
     abort: AbortReasons,           \* codingAbort: the first reason wins
     eng: {"off", "on", "freezing", "tearing"},
     term: {"none", "success", "failed"},  \* runTerminal.result
     out: Outcomes,
     sig: {"off", "save", "down"}]  \* the SIGINT handler

Idle == [pc |-> "idle", seen |-> Absent, save |-> "none", held |-> FALSE,
         watching |-> FALSE, tick |-> "off", notified |-> FALSE,
         abort |-> "none", eng |-> "off", term |-> "none", out |-> "none",
         sig |-> "off"]

TypeOK ==
    /\ art \in Artifact
    /\ fresh \subseteq Copies
    /\ proc \in [Procs -> Process]
    /\ sandbox \in {"none", "there", "replaced", "taken"}
    /\ infra \in {"none", "up", "frozen"}

Init ==
    /\ art = Absent
    /\ fresh = {}
    /\ proc = [p \in Procs |-> Idle]
    /\ sandbox = "none"
    /\ infra = "none"

-----------------------------------------------------------------------------
(* Helpers. *)

At(p, pc) == proc[p].pc = pc
Become(p, state) == proc' = [proc EXCEPT ![p] = state]
Goto(p, pc) == Become(p, [proc[p] EXCEPT !.pc = pc])

\* A process that ends forgets every copy it held.
Forget(p) == {c \in fresh : c[1] # p}
Exit(p) == Become(p, Idle)

\* A write moves the revision on: only the copies in `keep` equal it then.
Write(a, keep) == art' = a /\ fresh' = keep

\* AbortController.abort: the first reason is kept.
FirstAbort(old, new) == IF old = "none" THEN new ELSE old

World == <<sandbox, infra>>

\* replaced: by the directory of an inspect session.  taken: removed by such a
\* session or by `run stop`.  none: never made, or removed when the run ended.
SandboxExists == sandbox \in {"there", "replaced"}
Store == <<art, fresh>>

-----------------------------------------------------------------------------
(* Requests: `run pause`, `run stop` on a live run, and rule edits. *)

RequestPause ==
    /\ "pause" \in Env
    /\ art.status = "running"
    /\ Write([art EXCEPT !.status = "pausing", !.signal = "pause"], {})
    /\ UNCHANGED <<proc, World>>

RequestStop ==
    /\ art.status \in OrchestratorLive
    /\ art.status = "stopping" => "restop" \in Env
    /\ Write([art EXCEPT !.status = "stopping", !.signal = "stop"], {})
    /\ UNCHANGED <<proc, World>>

EditRules ==
    /\ "edit" \in Env
    /\ art.status # "absent"
    /\ Write(art, {})
    /\ UNCHANGED <<proc, World>>

-----------------------------------------------------------------------------
(* The start handshake: `feat run`, `run start`. *)

SetStatusStartingNewRun(p) ==
    /\ At(p, "idle")
    /\ art.status = "absent"
    /\ Write(Mk("starting", "none", FALSE, FALSE), {})
    /\ Goto(p, "reserved")
    /\ UNCHANGED World

\* Mutant: a run that is stopping counts as one that nobody drives.
AllowsBeginStopping(a) ==
    a.status \in Terminal \union {"stopping"} \/ (a.status = "paused" /\ ~a.path)

AllowsBegin(a) == a.status \in Terminal \/ (a.status = "paused" /\ ~a.path)

\* "restart" is `run resume` that fell back to rebuilding the run.
BeginRunStartFromArtifact(p) ==
    /\ proc[p].pc \in {"idle", "restart"}
    /\ AllowsBegin(art)
    /\ Write([art EXCEPT !.status = "starting", !.signal = "none"], {})
    /\ Become(p, [Idle EXCEPT !.pc = "begun"])
    /\ UNCHANGED World

RestartRefused(p) ==
    /\ At(p, "restart")
    /\ ~AllowsBegin(art)
    /\ fresh' = Forget(p)
    /\ Exit(p)
    /\ UNCHANGED <<art, World>>

StopRequested == art.status = "stopping" \/ art.signal = "stop"

\* The checkpoints of abortRunStartIfStopRequested: one after a new run is
\* reserved, two (around the worktree) in `run start`.
AbortRunStartIfStopRequested(p) ==
    /\ proc[p].pc \in {"reserved", "begun", "worktree"}
    /\ IF StopRequested
         THEN /\ Become(p, [proc[p] EXCEPT !.pc = "aborting", !.seen = art])
              /\ fresh' = fresh \union {<<p, "own">>}
         ELSE /\ Goto(p, IF At(p, "begun") THEN "worktree" ELSE "prepared")
              /\ UNCHANGED fresh
    /\ UNCHANGED <<art, World>>

\* The save of that function; a stale revision is swallowed.
AbortRunStartSave(p) ==
    /\ At(p, "aborting")
    /\ IF <<p, "own">> \in fresh
         THEN Write([proc[p].seen EXCEPT !.status = "failed", !.signal = "none"], {})
         ELSE art' = art /\ fresh' = Forget(p)
    /\ Exit(p)
    /\ UNCHANGED World

\* Resolving options, the worktree or createSandbox throws: nothing is saved.
StartThrows(p) ==
    /\ "failure" \in Env
    /\ proc[p].pc \in Handshake \ {"aborting"}
    /\ fresh' = Forget(p)
    /\ Exit(p)
    /\ UNCHANGED <<art, World>>

CreateSandbox(p) ==
    /\ At(p, "prepared")
    /\ sandbox' = "there"
    /\ Goto(p, "booted")
    /\ UNCHANGED <<Store, infra>>

RefusesRunning == {"running", "inspecting", "pausing", "stopping"}

SetStatusRunning(p) ==
    /\ At(p, "booted")
    /\ IF art.status \in RefusesRunning
         THEN art' = art /\ fresh' = Forget(p) /\ Exit(p)
         ELSE /\ Write(Mk("running", "none", FALSE, proc[p].held), {<<p, "loop">>})
              /\ Goto(p, "presync")
    /\ UNCHANGED World

-----------------------------------------------------------------------------
(* `run resume`. *)

ResumeRead(p) ==
    /\ At(p, "idle")
    /\ art.status = "paused" /\ art.path
    /\ Become(p, [Idle EXCEPT !.pc = "resume", !.seen = art])
    /\ fresh' = fresh \union {<<p, "own">>}
    /\ UNCHANGED <<art, World>>

\* Mutant: the saves of `run resume` without ifRevisionEquals.
ResumeSaveUnguarded(p) ==
    /\ At(p, "resume")
    /\ Write([proc[p].seen EXCEPT !.status = "resuming", !.signal = "none"], {})
    /\ Become(p, [Idle EXCEPT !.pc = "thaw", !.held = TRUE])
    /\ UNCHANGED World

\* verifyInfraToResume, then one of the two guarded saves; a stale one throws.
ResumeSave(p) ==
    /\ At(p, "resume")
    /\ LET seen == proc[p].seen
           ok == SandboxExists /\ seen.infra /\ infra = "frozen"
       IN IF <<p, "own">> \notin fresh
            THEN art' = art /\ fresh' = Forget(p) /\ Exit(p)
            ELSE IF ok
              THEN /\ Write([seen EXCEPT !.status = "resuming", !.signal = "none"], {})
                   /\ Become(p, [Idle EXCEPT !.pc = "thaw", !.held = TRUE])
              ELSE /\ Write([seen EXCEPT !.path = FALSE, !.signal = "none"], {})
                   /\ Become(p, [Idle EXCEPT !.pc = "restart"])
    /\ UNCHANGED World

\* resumeInfra only warns when the containers are gone.
ResumeInfra(p) ==
    /\ At(p, "thaw")
    /\ infra' = IF infra = "frozen" THEN "up" ELSE infra
    /\ Goto(p, "booted")
    /\ UNCHANGED <<Store, sandbox>>

-----------------------------------------------------------------------------
(* The loop: one coding session, from the sync before it to the last save. *)

\* The sync reads signal and revision; a request ends the loop at once.
PreRoundSync(p) ==
    /\ At(p, "presync")
    /\ fresh' = fresh \union {<<p, "loop">>}
    /\ Become(p, CASE art.signal = "stop" ->
                        [proc[p] EXCEPT !.pc = "closing", !.out = "stopped"]
                   [] art.signal = "pause" ->
                        [proc[p] EXCEPT !.pc = "closing", !.out = "paused", !.held = FALSE]
                   [] OTHER ->
                        [proc[p] EXCEPT !.pc = "provision", !.watching = TRUE, !.eng = "on"])
    /\ UNCHANGED <<art, World>>

\* Engine.setup, skipped when resumed infra is there; onInfraReady saves next.
Provision(p) ==
    /\ At(p, "provision")
    /\ infra' = IF proc[p].held THEN infra ELSE "up"
    /\ Become(p, [proc[p] EXCEPT !.pc = "save", !.save = "infra", !.held = FALSE])
    /\ UNCHANGED <<Store, sandbox>>

\* Setup or onInfraReady throws: the engine is torn down, the loop fails.
ProvisionThrows(p) ==
    /\ "failure" \in Env
    /\ At(p, "provision")
    /\ infra' = "none"
    /\ Become(p, [proc[p] EXCEPT !.pc = "closing", !.out = "failed",
                                 !.watching = FALSE, !.eng = "off", !.held = FALSE])
    /\ UNCHANGED <<Store, sandbox>>

\* saveRunningArtifact, first half: status and signal are read back.
SaveRunningRead(p) ==
    /\ At(p, "save")
    /\ Become(p, [proc[p] EXCEPT !.pc = "saving", !.seen = art])
    /\ UNCHANGED <<Store, World>>

\* Mutant: a pending pause is not kept.
KeptStatusButPausing(status) ==
    IF status \in {"stopping", "starting", "resuming"} THEN status ELSE "running"

KeptStatus(status) ==
    IF status \in {"pausing", "stopping", "starting", "resuming"} THEN status ELSE "running"

\* Staging saves record no coding infra; round progress keeps what was read.
RecordedInfra(p) == CASE proc[p].save = "infra" -> TRUE
                      [] proc[p].save = "progress" -> proc[p].seen.infra
                      [] OTHER -> FALSE

AfterSave(p) ==
    LET next(pc, save) == [proc[p] EXCEPT !.pc = pc, !.save = save, !.seen = Absent]
    IN CASE proc[p].save = "infra"     -> next("coding", "none")
         [] proc[p].save = "stageUp"   -> next("save", "stageDown")
         [] proc[p].save = "stageDown" -> next("save", "progress")
         [] OTHER                      -> next("decide", "none")

\* Mutant: persistArtifact without ifRevisionEquals.
SaveRunningWriteUnguarded(p) ==
    /\ At(p, "saving")
    /\ Write(Mk(KeptStatus(proc[p].seen.status), proc[p].seen.signal,
                FALSE, RecordedInfra(p)), {<<p, "loop">>})
    /\ Become(p, AfterSave(p))
    /\ UNCHANGED World

\* persistArtifact: guarded by the loop's revision, a stale one is swallowed.
SaveRunningWrite(p) ==
    /\ At(p, "saving")
    /\ IF <<p, "loop">> \in fresh
         THEN Write(Mk(KeptStatus(proc[p].seen.status), proc[p].seen.signal,
                       FALSE, RecordedInfra(p)), {<<p, "loop">>})
         ELSE UNCHANGED Store
    /\ Become(p, AfterSave(p))
    /\ UNCHANGED World

\* onSubtaskComplete: the sync, then a stop or the saves of the round (with or
\* without staging tests).
SubtaskDone(p) ==
    /\ At(p, "coding") /\ proc[p].eng # "off"
    /\ fresh' = fresh \union {<<p, "loop">>}
    /\ IF art.signal # "none"
         THEN Become(p, [proc[p] EXCEPT !.pc = "drained",
                                        !.abort = FirstAbort(@, art.signal)])
         ELSE \E first \in {"stageUp", "progress"} :
                Become(p, [proc[p] EXCEPT !.pc = "save", !.save = first])
    /\ UNCHANGED <<art, World>>

\* The round's verdict: next subtask or retry, success, or out of attempts.
Decide(p) ==
    /\ At(p, "decide")
    /\ \/ Goto(p, "coding")
       \/ Become(p, [proc[p] EXCEPT !.pc = "drained", !.term = "success"])
       \/ Become(p, [proc[p] EXCEPT !.pc = "drained", !.term = "failed",
                                    !.abort = FirstAbort(@, "stop")])
    /\ UNCHANGED <<Store, World>>

\* Mutant: the poll of the driver gives up on a stop, not on a pause.
DriverAbortedButPause(p) ==
    /\ At(p, "coding") /\ proc[p].abort \notin {"none", "pause"}
    /\ Goto(p, "drained")
    /\ UNCHANGED <<Store, World>>

\* pollSubtaskDone rejects once the session is aborted.
DriverAborted(p) ==
    /\ At(p, "coding") /\ proc[p].abort # "none"
    /\ Goto(p, "drained")
    /\ UNCHANGED <<Store, World>>

Timeout(p) ==
    /\ "timeout" \in Env
    /\ proc[p].pc \in Session /\ proc[p].abort = "none"
    /\ Become(p, [proc[p] EXCEPT !.abort = "timeout"])
    /\ UNCHANGED <<Store, World>>

\* runEngineAttempt runs the agent once the infra save is over.
AgentRuns(p) == proc[p].eng = "on" /\ proc[p].pc \in Session \ {"provision"}
                /\ proc[p].save # "infra"

\* The agent ends by itself or is killed by the abort; onFinally picks pause
\* or teardown by the reason known at that moment.
EngineEnds(p) ==
    /\ AgentRuns(p)
    /\ Become(p, [proc[p] EXCEPT !.eng =
                    IF proc[p].abort = "pause" THEN "freezing" ELSE "tearing"])
    /\ UNCHANGED <<Store, World>>

\* pauseInfra or teardown is over; wireEngineExitedAbort releases the driver.
EngineGone(p) ==
    /\ proc[p].eng \in {"freezing", "tearing"}
    /\ infra' = IF proc[p].eng = "freezing" /\ infra # "none" THEN "frozen" ELSE "none"
    /\ Become(p, [proc[p] EXCEPT !.eng = "off", !.abort = FirstAbort(@, "exited")])
    /\ UNCHANGED <<Store, sandbox>>

\* Engine and driver are both over.  A terminal result wins over the abort;
\* success removes the sandbox here, before anything is saved.
SessionEnds(p) ==
    /\ At(p, "drained") /\ proc[p].eng = "off"
    /\ LET abort == proc[p].abort
           out == CASE proc[p].term # "none" -> proc[p].term
                    [] abort = "pause" -> "paused"
                    [] abort = "stop" -> "stopped"
                    [] OTHER -> "failed"
       IN /\ Become(p, [proc[p] EXCEPT !.pc = "closing", !.watching = FALSE,
                                       !.out = out, !.held = (out = "paused")])
          /\ sandbox' = IF out = "success" THEN "none" ELSE sandbox
    /\ UNCHANGED <<Store, infra>>

FinalArtifact(p) ==
    CASE proc[p].out = "paused"  -> Mk("paused", "none", TRUE, proc[p].held)
      [] proc[p].out = "success" -> Mk("completed", "none", FALSE, FALSE)
      [] OTHER                   -> Mk("failed", "none", FALSE, FALSE)

\* Mutant: the sandbox is destroyed after a pause too.
FinalSaveReaps(p) ==
    /\ At(p, "closing")
    /\ IF <<p, "loop">> \in fresh
         THEN Write(FinalArtifact(p), {<<p, "loop">>})
         ELSE UNCHANGED Store
    /\ Goto(p, "reap")
    /\ UNCHANGED World

\* savePausedArtifact or cleanupAndSaveRun; a stale revision is swallowed.
FinalSave(p) ==
    /\ At(p, "closing")
    /\ IF <<p, "loop">> \in fresh
         THEN Write(FinalArtifact(p),
                    IF proc[p].out = "paused" THEN {} ELSE {<<p, "loop">>})
         ELSE art' = art /\ fresh' = IF proc[p].out = "paused" THEN Forget(p) ELSE fresh
    /\ IF proc[p].out = "paused" THEN Exit(p) ELSE Goto(p, "reap")
    /\ UNCHANGED World

\* destroySandbox, after the final save.
DestroySandbox(p) ==
    /\ At(p, "reap")
    /\ sandbox' = "none"
    /\ fresh' = Forget(p)
    /\ Exit(p)
    /\ UNCHANGED <<art, infra>>

-----------------------------------------------------------------------------
(* The rules watcher: a tick reads the artifact and handles what it read     *)
(* later; a tick in flight outlives stop().                                  *)

TickRead(p) ==
    /\ proc[p].watching /\ proc[p].tick = "off"
    /\ Become(p, [proc[p] EXCEPT !.tick = art.signal])
    /\ fresh' = fresh \union {<<p, "watch">>}
    /\ UNCHANGED <<art, World>>

\* onArtifactRevision always, onControlSignal once per watcher.
TickApply(p) ==
    /\ proc[p].tick # "off"
    /\ fresh' = {c \in fresh : c # <<p, "watch">> /\ c # <<p, "loop">>}
                \union (IF <<p, "watch">> \in fresh THEN {<<p, "loop">>} ELSE {})
    /\ LET told == proc[p].tick # "none" /\ ~proc[p].notified
       IN Become(p, [proc[p] EXCEPT
              !.tick = "off",
              !.notified = @ \/ told,
              !.abort = IF told THEN FirstAbort(@, proc[p].tick) ELSE @])
    /\ UNCHANGED <<art, World>>

-----------------------------------------------------------------------------
(* `run stop` on a paused run, and `run stop --force`. *)

StopPausedRead(p) ==
    /\ At(p, "idle")
    /\ art.status = "paused" /\ art.path
    /\ Become(p, [Idle EXCEPT !.pc = "dropping", !.seen = art])
    /\ fresh' = fresh \union {<<p, "own">>}
    /\ UNCHANGED <<art, World>>

StopPausedTeardown(p) ==
    /\ At(p, "dropping")
    /\ infra' = IF proc[p].seen.infra THEN "none" ELSE infra
    /\ sandbox' = "taken"
    /\ Goto(p, "dropped")
    /\ UNCHANGED Store

\* A stale revision throws: the run keeps the status another process gave it.
StopPausedSave(p) ==
    /\ At(p, "dropped")
    /\ IF <<p, "own">> \in fresh
         THEN Write(Mk("failed", "none", FALSE, FALSE), {})
         ELSE art' = art /\ fresh' = Forget(p)
    /\ Exit(p)
    /\ UNCHANGED World

ForceStop(p) ==
    /\ "force" \in Env
    /\ At(p, "idle")
    /\ art.status # "absent" /\ ~(art.status = "paused" /\ art.path)
    /\ infra' = IF art.infra THEN "none" ELSE infra
    /\ sandbox' = IF art.path THEN "none" ELSE sandbox
    /\ Become(p, [Idle EXCEPT !.pc = "forced"])
    /\ UNCHANGED Store

\* persistForceStoppedRun reads again, and again after a stale revision.
PersistForceStopped(p) ==
    /\ At(p, "forced")
    /\ Write(Mk(IF art.status \in Terminal THEN art.status ELSE "failed",
                "none", FALSE, FALSE), {})
    /\ Exit(p)
    /\ UNCHANGED World

-----------------------------------------------------------------------------
(* `run inspect`: its loop has no run storage; it saves from what it read.   *)

InspectRead(p) ==
    /\ "inspect" \in Env
    /\ At(p, "idle")
    /\ art.status \in Terminal \union {"paused"}
    /\ Become(p, [Idle EXCEPT !.pc = "inspectBoot", !.seen = art])
    /\ fresh' = fresh \union {<<p, "own">>}
    /\ UNCHANGED <<art, World>>

\* createSandbox replaces the directory, setup the network.
InspectBoot(p) ==
    /\ At(p, "inspectBoot")
    /\ sandbox' = "replaced"
    /\ infra' = "up"
    /\ Goto(p, "inspectReady")
    /\ UNCHANGED Store

\* setStatusInspecting, on the artifact as it is now; refused, the loop tears
\* down and nothing is saved.
SetStatusInspecting(p) ==
    /\ At(p, "inspectReady")
    /\ IF art.status \in OrchestratorLive \union {"inspecting"}
         THEN /\ infra' = "none" /\ sandbox' = "taken"
              /\ art' = art /\ fresh' = Forget(p) /\ Exit(p)
         ELSE /\ Write([art EXCEPT !.status = "inspecting"], {<<p, "own">>})
              /\ Goto(p, "inspecting")
              /\ UNCHANGED World

\* Ctrl+C: the status before the session is restored if it still inspects.
InspectLeave(p) ==
    /\ At(p, "inspecting")
    /\ IF art.status = "inspecting"
         THEN Write([art EXCEPT !.status = proc[p].seen.status], {<<p, "own">>})
         ELSE UNCHANGED Store
    /\ Goto(p, "inspectTear")
    /\ UNCHANGED World

InspectTeardown(p) ==
    /\ At(p, "inspectTear")
    /\ infra' = "none"
    /\ sandbox' = "taken"
    /\ Goto(p, "inspectSave")
    /\ UNCHANGED Store

\* Mutant: the save of `run inspect` without ifRevisionEquals.
InspectSaveUnguarded(p) ==
    /\ At(p, "inspectSave")
    /\ Write(proc[p].seen, {})
    /\ Exit(p)
    /\ UNCHANGED World

\* New commits are saved on top of the artifact read at the start, or not.
InspectSave(p) ==
    /\ At(p, "inspectSave")
    /\ \/ <<p, "own">> \in fresh /\ Write(proc[p].seen, {})
       \/ art' = art /\ fresh' = Forget(p)
    /\ Exit(p)
    /\ UNCHANGED World

-----------------------------------------------------------------------------
(* Ctrl+C and crashes. *)

Hooked == InLoop \union {"reap"}

\* withCleanupRegistry; the hook takes the loop's revision when it starts.
Sigint(p) ==
    /\ "sigint" \in Env
    /\ proc[p].pc \in Owning \union {"reap", "resume", "restart"}
    /\ proc[p].sig = "off"
    /\ IF proc[p].pc \in Hooked
         THEN /\ Become(p, [proc[p] EXCEPT !.sig = "save"])
              /\ fresh' = fresh \union
                    (IF <<p, "loop">> \in fresh THEN {<<p, "hook">>} ELSE {})
         ELSE /\ Become(p, [proc[p] EXCEPT !.sig = "down"])
              /\ UNCHANGED fresh
    /\ UNCHANGED <<art, World>>

\* saveRunOnError; the rest of the process goes on meanwhile.
SaveRunOnError(p) ==
    /\ proc[p].sig = "save"
    /\ IF <<p, "hook">> \in fresh
         THEN Write(Mk("failed", "none", art.path, art.infra), {})
         ELSE UNCHANGED Store
    /\ Become(p, [proc[p] EXCEPT !.sig = "down"])
    /\ UNCHANGED World

\* CleanupRegistry.cleanup tears down the registered engine and removes the
\* sandbox, then the process exits.
SigintExit(p) ==
    /\ proc[p].sig = "down"
    /\ infra' = IF proc[p].eng = "on" THEN "none" ELSE infra
    /\ sandbox' = IF proc[p].pc \in Hooked \union {"booted"} THEN "none" ELSE sandbox
    /\ fresh' = Forget(p)
    /\ Exit(p)
    /\ UNCHANGED art

Crash(p) ==
    /\ "crash" \in Env
    /\ ~At(p, "idle")
    /\ fresh' = Forget(p)
    /\ Exit(p)
    /\ UNCHANGED <<art, World>>

-----------------------------------------------------------------------------

Start(p) ==
    \/ SetStatusStartingNewRun(p) \/ BeginRunStartFromArtifact(p) \/ RestartRefused(p)
    \/ AbortRunStartIfStopRequested(p) \/ AbortRunStartSave(p) \/ StartThrows(p)
    \/ CreateSandbox(p) \/ SetStatusRunning(p)
    \/ ResumeRead(p) \/ ResumeSave(p) \/ ResumeInfra(p)

Loop(p) ==
    \/ PreRoundSync(p) \/ Provision(p) \/ ProvisionThrows(p)
    \/ SaveRunningRead(p) \/ SaveRunningWrite(p) \/ SubtaskDone(p) \/ Decide(p)
    \/ DriverAborted(p) \/ Timeout(p) \/ EngineEnds(p) \/ EngineGone(p)
    \/ SessionEnds(p) \/ FinalSave(p) \/ DestroySandbox(p)
    \/ TickRead(p) \/ TickApply(p)

Command(p) ==
    \/ StopPausedRead(p) \/ StopPausedTeardown(p) \/ StopPausedSave(p)
    \/ ForceStop(p) \/ PersistForceStopped(p)
    \/ InspectRead(p) \/ InspectBoot(p) \/ SetStatusInspecting(p)
    \/ InspectLeave(p) \/ InspectTeardown(p) \/ InspectSave(p)

Interrupt(p) == Sigint(p) \/ SaveRunOnError(p) \/ SigintExit(p) \/ Crash(p)

Request == RequestPause \/ RequestStop \/ EditRules

Next == Request \/ \E p \in Procs : Start(p) \/ Loop(p) \/ Command(p) \/ Interrupt(p)

Spec == Init /\ [][Next]_vars

-----------------------------------------------------------------------------
(* Fairness: node runs every continuation that is due, the engine kills the  *)
(* agent once the session is aborted, and the watcher polls.  A subtask need *)
(* not finish and a user need not type anything.                             *)

MainStep(p) ==
    \/ At(p, "restart") /\ BeginRunStartFromArtifact(p)
    \/ RestartRefused(p) \/ AbortRunStartIfStopRequested(p) \/ AbortRunStartSave(p)
    \/ CreateSandbox(p) \/ SetStatusRunning(p) \/ ResumeSave(p) \/ ResumeInfra(p)
    \/ PreRoundSync(p) \/ Provision(p) \/ SaveRunningRead(p) \/ SaveRunningWrite(p)
    \/ Decide(p) \/ DriverAborted(p) \/ SessionEnds(p) \/ FinalSave(p) \/ DestroySandbox(p)

EngineStep(p) == (proc[p].abort # "none" /\ EngineEnds(p)) \/ EngineGone(p)

Fairness == \A p \in Procs :
    /\ WF_vars(MainStep(p))
    /\ WF_vars(EngineStep(p))
    /\ WF_vars(TickRead(p))
    /\ WF_vars(TickApply(p))

FairSpec == Spec /\ Fairness

-----------------------------------------------------------------------------
(* Properties. *)

\* The control signal and the status of an artifact agree: a pending pause is
\* exactly a pausing run, a pending stop a stopping one.
Consistent(a) == /\ a.signal = "pause" <=> a.status = "pausing"
                 /\ a.signal = "stop" <=> a.status = "stopping"

\* The stored artifact is consistent, whatever snapshot a save was built from.
\* (Each save writes both fields, possibly from different reads.)
SignalMatchesStatus == Consistent(art)

\* Two processes never drive the run at the same time (run ids are reused by
\* `run start`, so they would share sandbox and containers).
OneOrchestrator ==
    \A p, q \in Procs : proc[p].pc \in Owning /\ proc[q].pc \in Owning => p = q

\* While a process drives the run, the artifact says that the run is live, so
\* that `run start` and `run inspect` keep away from it.
OwnerIsMarked ==
    \A p \in Procs : proc[p].pc \in Owning => art.status \in OrchestratorLive

\* A save of the running loop may wipe a pending request off the artifact only
\* if the session has been told to end already: `run pause` and `run stop` are
\* not lost in the read-to-write window of saveRunningArtifact.
RequestNotLost ==
    [][art.signal # "none" /\ art'.status = "running" =>
          \E p \in Procs : At(p, "saving") /\ proc[p].abort # "none"]_vars

\* What a request leaves behind: while it is pending, a session that runs will
\* end, however the watcher, the syncs and the saves interleave.
RequestEndsSession ==
    \A p \in Procs :
        (proc[p].pc \in Session /\ art.signal # "none") ~> proc[p].pc \notin Session

\* A run recorded as completed stays so until somebody starts or inspects it:
\* no save of an earlier session, built on an old read, lands on it.
CompletedIsFinal ==
    [][art.status = "completed" =>
          art'.status \in {"completed", "starting", "inspecting"}]_vars

\* The stored status is the lock of the run (see RunOwnership).
Ownership == INSTANCE RunOwnership
    WITH live   <- art.status \in OrchestratorLive,
         owners <- {p \in Procs : proc[p].pc \in Owning}

ImplementsOwnership == Ownership!Spec

AllIdle == \A p \in Procs : At(p, "idle")

\* A paused run keeps its sandbox until somebody resumes, stops, starts or
\* inspects it, so that `run resume` finds the subtask it left: nothing of the
\* session that paused it, of those before it or of a command that was refused
\* or killed removes it.  The exceptions: `run inspect` puts its own directory
\* in its place and removes that when it ends, with the run still paused, whatever
\* run-lifecycle.md:27 says; and a `run stop` may be killed after it has removed it.
PausedKeepsSandbox ==
    art.status = "paused" /\ art.path /\ AllIdle => sandbox # "none"

\* An accepted `run stop` is carried out or at least settled: the run does not
\* stay "stopping" (comment of beginRunStartFromArtifact, storage.ts:227-232).
StopSettles == art.status = "stopping" ~> art.status # "stopping"

-----------------------------------------------------------------------------
(* Inductive invariants (see RunLifecycle_proofs).                           *)

Inspecting == {"inspectBoot", "inspectReady", "inspecting", "inspectTear", "inspectSave"}

\* SignalMatchesStatus and RequestNotLost: what was read is consistent too, and
\* a loop that may write over a request it has not seen has been told to end.
RequestInv ==
    /\ SignalMatchesStatus
    /\ \A p \in Procs :
        /\ At(p, "idle") => proc[p] = Idle
        /\ Consistent(proc[p].seen)
        /\ proc[p].pc \in Inspecting => proc[p].seen.status \in Terminal \union {"paused"}
        /\ proc[p].pc \in {"resume", "dropping", "dropped"} => proc[p].seen.status = "paused"
        /\ <<p, "watch">> \in fresh => proc[p].tick = art.signal
        /\ proc[p].notified => proc[p].abort # "none"
        /\ At(p, "saving") /\ <<p, "loop">> \in fresh /\ art.signal # "none"
              => proc[p].seen.signal = art.signal \/ proc[p].abort # "none"

\* OneOrchestrator: a command whose copy is fresh knows the stored status.
OwnershipInv ==
    /\ OneOrchestrator
    /\ OwnerIsMarked
    /\ \A p \in Procs :
        /\ proc[p].pc # "forced" /\ proc[p].sig = "off"
        /\ <<p, "own">> \in fresh =>
              /\ At(p, "inspecting") => art.status = "inspecting"
              /\ proc[p].pc \in (Inspecting \ {"inspecting"}) \union {"resume", "dropping", "dropped"}
                    => art.status = proc[p].seen.status

=============================================================================
