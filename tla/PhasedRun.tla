----------------------------- MODULE PhasedRun -----------------------------
(***************************************************************************)
(* The run of a feature in phases, from its specification (PhaseConfig)    *)
(* and its rows (PhaseRows) to the container every subtask works in: which *)
(* scripts, which environment, which container and which tests each row    *)
(* gets, across subtasks, phases, controlled restarts (phase-transition.ts),*)
(* pauses, crashes and new starts.                                         *)
(*                                                                         *)
(* What the subtasks change, and how often they are tried, are the matter  *)
(* of RunLoop; here a subtask that reports has passed.                     *)
(***************************************************************************)
EXTENDS PhaseRows

CONSTANTS
    Features,    \* the features there are
    MaxSessions  \* bound of the model: processes that work on the run

ASSUME SessionsAssumption == MaxSessions \in Nat

\* Names are strings, the phases of a feature are among PhaseNames, and a list
\* of critics is a sequence, in whichever layer it is declared.
ASSUME FeaturesAssumption ==
    /\ PhaseNames \in Seq(STRING) /\ CriticNames \in Seq(STRING)
    /\ \A f \in Features :
          /\ f.order \in Seq(STRING) /\ f.dirs \subseteq Range(PhaseNames)
          /\ \A s \in ConfigSources(f) :
                "critics" \in DOMAIN s => s["critics"] \in Seq([id : STRING, rounds : Nat])

VARIABLES
    feature,   \* the specification
    base,      \* the settings of the run as a whole
    rows,      \* the subtasks
    pc,        \* where the run is
    cursor,    \* the active row
    transition,\* transitionInProgress: the controlled restart that has begun
    disk,      \* the scripts in the sandbox
    envFile,   \* subtask-env.sh in the sandbox
    runner,    \* the tests and the script the test runner is given
    box,       \* what the container was started with
    shell,     \* the environment of the agent's shell
    sessions,  \* the number of processes so far
    lost       \* what is known to be lost: "boot" scripts, the "env" file

specification == <<feature, base, rows>>
files == <<disk, envFile>>
container == <<box, shell>>

vars == <<specification, pc, cursor, transition, files, runner, container, sessions, lost>>

\* The process has died or returned in "saved", and is paused in "paused".
Places == {"new", "refused", "create", "prepare", "open", "boot", "next", "agent",
           "restart", "spent", "paused", "saved", "done"}

Row == rows[cursor]

\* The scripts a shell reads anew for every subtask, and those of the boot.
HotScripts(from) == [gate |-> from.gate, agent |-> from.agent, stage |-> from.stage]

BootScripts(level2) ==
    [install |-> level2.install, startup |-> level2.startup, cedar |-> level2.cedar]

Container(level2, level3) ==
    [profile |-> level2.profile, noLeash |-> level2.noLeash, image |-> level3.image,
     engine |-> level3.engine,
     compose |-> IF level3.engine = "docker" THEN level3.compose ELSE ""]

ScriptsOf(from) == [hot |-> HotScripts(from), boot |-> BootScripts(from.level2)]

NoContainer == [boot |-> <<>>, opts |-> <<>>]

NoRunner == [tests |-> {}, script |-> <<>>]

NoTransition == [to |-> 0, cost |-> "none", fields |-> {}]

Init ==
    /\ feature \in Features
    /\ base = <<>> /\ rows = <<>> /\ pc = "new" /\ cursor = 1
    /\ transition = NoTransition /\ runner = NoRunner
    /\ disk = <<>> /\ envFile = NoEnvFile /\ box = NoContainer /\ shell = NoEnvFile
    /\ sessions = 1 /\ lost = {}

-----------------------------------------------------------------------------

\* Options first: they have the baseline the compiler needs.
Refused == OptionsExit(feature) \/ ~ValidatePhasedFeature(feature)
                               \/ PhaseCompileError(feature)

Refuse ==
    /\ pc = "new" /\ Refused
    /\ pc' = "refused"
    /\ UNCHANGED <<specification, cursor, transition, files, runner, container, sessions, lost>>

Compile ==
    /\ pc = "new" /\ ~Refused
    /\ base' = OrchestratorBaseline(feature)
    /\ rows' = CompilePhasesToSubtasks(feature, base')
    /\ pc' = "create"
    /\ UNCHANGED <<feature, cursor, transition, files, runner, container, sessions, lost>>

\* Whether the sandbox is new or only refreshed, its scripts are the run's.
CreateSandbox ==
    /\ pc = "create"
    /\ disk' = ScriptsOf(base)
    /\ envFile' = NoEnvFile
    /\ lost' = {"boot"}
    /\ pc' = "prepare"
    /\ UNCHANGED <<specification, cursor, transition, runner, container, sessions>>

\* refreshTestRunnerOpts
RefreshTestRunner(i) ==
    /\ ~RefreshTestRunnerFails(feature, base, rows, i)
    /\ runner' = [tests |-> TestsDir(feature, SubtaskTestScope(rows, i)),
                  script |-> PickRunnerOptsForSubtask(base, rows[i]).script]

\* Once in every process, before its first session.
PrepareRunner ==
    /\ pc = "prepare"
    /\ RefreshTestRunner(cursor)
    /\ pc' = "open"
    /\ UNCHANGED <<specification, cursor, transition, files, container, sessions, lost>>

RunnerUnprepared ==
    /\ pc = "prepare" /\ RefreshTestRunnerFails(feature, base, rows, cursor)
    /\ pc' = "saved"
    /\ UNCHANGED <<specification, cursor, transition, files, runner, container, sessions, lost>>

\* Mutant: the files of the previous subtask's agent are left alone.
HotUpdateWithoutStage(row) ==
    /\ disk' = [disk EXCEPT !.hot = [HotScripts(row) EXCEPT !.stage = disk.hot.stage]]
    /\ envFile' = SubtaskEnvFile(base, rows, row)

HotUpdate(row) ==
    /\ disk' = [disk EXCEPT !.hot = HotScripts(row)]
    /\ envFile' = SubtaskEnvFile(base, rows, row)

\* refreshActiveSandboxScriptsForCursor: it also empties the file of the
\* environment, which nobody writes again before the agent works.
Refresh ==
    /\ disk' = ScriptsOf(Row)
    /\ envFile' = NoEnvFile
    /\ lost' = {"env"}

\* Every session begins with the files of the active row.
OpenSession ==
    /\ pc = "open" /\ transition = NoTransition
    /\ HotUpdate(Row)
    /\ lost' = lost \ {"env"}
    /\ pc' = "boot"
    /\ UNCHANGED <<specification, cursor, transition, runner, container, sessions>>

\* The previous process died amid a controlled restart: complete it.
RecoverRestart ==
    /\ pc = "open" /\ transition # NoTransition
    /\ Refresh
    /\ transition' = NoTransition
    /\ pc' = "boot"
    /\ UNCHANGED <<specification, cursor, runner, container, sessions>>

\* The container is the row's; the boot scripts are those on disk.
Boot ==
    /\ pc = "boot"
    /\ box' = [boot |-> disk.boot, opts |-> Container(Row.level2, Row.level3)]
    /\ shell' = [vars |-> ContainerEnv(base), options |-> Nothing]
    /\ pc' = "next"
    /\ UNCHANGED <<specification, cursor, transition, files, runner, sessions, lost>>

\* The path of the file in the containers: nothing is there on the host.
OnHost(row) == row.level3.engine = "local"

\* A round of coder-start.sh: the shell sources the file, then the agent works.
AgentWorks ==
    /\ pc = "next"
    /\ shell' = IF OnHost(Row) THEN shell ELSE Source(shell, envFile)
    /\ pc' = "agent"
    /\ UNCHANGED <<specification, cursor, transition, files, runner, box, sessions, lost>>

-----------------------------------------------------------------------------
(* From one subtask to the next *)

LEVEL_2_FIELDS == ("agent.profile" ::= "profile") ++ ("agent.install" ::= "install")
    ++ ("container.startup" ::= "startup") ++ ("container.cedar" ::= "cedar")
    ++ ("container.no-leash" ::= "noLeash")

LEVEL_3_FIELDS == ("container.image" ::= "image") ++ ("container.sandbox-profile" ::= "sandbox")
    ++ ("container.engine" ::= "engine") ++ ("container.compose-file" ::= "compose")

DetectLevel2Transition(prev, next) ==
    {k \in DOMAIN LEVEL_2_FIELDS : prev.level2[LEVEL_2_FIELDS[k]] # next.level2[LEVEL_2_FIELDS[k]]}

DetectLevel3Transition(prev, next) ==
    {k \in DOMAIN LEVEL_3_FIELDS : prev.level3[LEVEL_3_FIELDS[k]] # next.level3[LEVEL_3_FIELDS[k]]}

BuildTransitionSnapshot(prev, next, to) ==
    LET two == DetectLevel2Transition(prev, next)
        three == DetectLevel3Transition(prev, next)
    IN  CASE two # {} /\ three # {} -> [to |-> to, cost |-> "level-2-3", fields |-> two \union three]
          [] two # {} /\ three = {} -> [to |-> to, cost |-> "level-2", fields |-> two]
          [] two = {} /\ three # {} -> [to |-> to, cost |-> "level-3", fields |-> three]
          [] OTHER -> NoTransition

\* The flags are the authority; without a difference there is nothing to do.
TryStartTransition(i) ==
    IF rows[i].restart.level2 \/ rows[i].restart.level3
    THEN BuildTransitionSnapshot(rows[i - 1], rows[i], i) ELSE NoTransition

\* The tests of the subtask have passed: the runner of the next one first.
Advance ==
    /\ pc = "agent" /\ cursor < Len(rows)
    /\ cursor' = cursor + 1

\* The next subtask goes on in the same container.
NextInPlace ==
    /\ Advance
    /\ RefreshTestRunner(cursor + 1)
    /\ TryStartTransition(cursor + 1) = NoTransition
    /\ HotUpdate(rows[cursor + 1])
    /\ lost' = lost \ {"env"}
    /\ pc' = "next"
    /\ UNCHANGED <<specification, transition, container, sessions>>

StartTransition ==
    /\ Advance
    /\ RefreshTestRunner(cursor + 1)
    /\ transition' = TryStartTransition(cursor + 1)
    /\ transition' # NoTransition
    /\ pc' = "restart"
    /\ UNCHANGED <<specification, files, container, sessions, lost>>

\* The run fails with the next subtask as the active one.
AdvanceFails ==
    /\ Advance
    /\ RefreshTestRunnerFails(feature, base, rows, cursor + 1)
    /\ pc' = "saved"
    /\ box' = NoContainer /\ shell' = NoEnvFile
    /\ UNCHANGED <<specification, transition, files, runner, sessions, lost>>

\* The old container is gone; the rest of the restart.
CompleteTransition ==
    /\ pc = "restart"
    /\ Refresh
    /\ transition' = NoTransition
    /\ box' = NoContainer /\ shell' = NoEnvFile
    /\ pc' = "spent"
    /\ UNCHANGED <<specification, cursor, runner, sessions>>

\* The process has used up its abort signal: the new container stops before
\* its agent works, and the run ends as failed.
AbortedBySpentSignal ==
    /\ pc = "spent"
    /\ pc' = "saved"
    /\ UNCHANGED <<specification, cursor, transition, files, runner, container, sessions, lost>>

Finish ==
    /\ pc = "agent" /\ cursor = Len(rows)
    /\ pc' = "done"
    /\ UNCHANGED <<specification, cursor, transition, files, runner, container, sessions, lost>>

\* The process is killed, or stops and saves: the container goes.
Stop ==
    /\ pc \in {"create", "prepare", "open", "boot", "next", "agent", "restart"}
    /\ pc' = "saved"
    /\ box' = NoContainer /\ shell' = NoEnvFile
    /\ UNCHANGED <<specification, cursor, transition, files, runner, sessions, lost>>

\* A pause keeps the sandbox.
Pause ==
    /\ pc \in {"next", "agent"}
    /\ pc' = "paused"
    /\ box' = NoContainer /\ shell' = NoEnvFile
    /\ UNCHANGED <<specification, cursor, transition, files, runner, sessions, lost>>

\* `run resume` in the sandbox as it was left, or refreshed because the
\* infrastructure of the run is gone; `run start` in a new one.
Continue(from, to) ==
    /\ pc = from /\ sessions < MaxSessions
    /\ pc' = to
    /\ runner' = NoRunner
    /\ sessions' = sessions + 1
    /\ UNCHANGED <<specification, cursor, transition, files, container, lost>>

Resume == Continue("paused", "prepare")
ResumeRebuilds == Continue("paused", "create")
Start == Continue("saved", "create")

Next ==
    \/ Refuse \/ Compile \/ CreateSandbox \/ PrepareRunner \/ RunnerUnprepared
    \/ OpenSession \/ RecoverRestart \/ Boot \/ AgentWorks
    \/ NextInPlace \/ StartTransition \/ AdvanceFails \/ CompleteTransition
    \/ AbortedBySpentSignal \/ Finish \/ Stop \/ Pause
    \/ Resume \/ ResumeRebuilds \/ Start

Spec == Init /\ [][Next]_vars

-----------------------------------------------------------------------------
(* Properties *)

Working == pc = "agent"

\* The container an agent works in is the one its row asks for (profile,
\* Leash, image, engine, compose file), although it is only replaced where a
\* row is flagged, and the flags compare neighbouring phases only.
ContainerInForce == Working => box.opts = Container(Row.level2, Row.level3)

\* The gate, agent and stage scripts in the sandbox are those of the row an
\* agent works on, whichever rows went before it in whichever process. The
\* install, startup and policy scripts its container was started with are those
\* of its row too, or the run's own in a sandbox that no controlled restart has
\* refreshed since it was made ("boot").
ScriptsInForce ==
    Working => /\ disk.hot = HotScripts(Row)
               /\ box.boot = BootScripts(IF "boot" \in lost THEN base.level2 ELSE Row.level2)

\* The agent's shell has what its row and the run set, what its container was
\* started with and no row sets, and nothing that another row has set (the
\* options of an agent profile are left behind, as per-subtask-env.ts says). An
\* agent on the host has the container's settings only, and so has one in a
\* process that completed the restart of a process that died: it has emptied
\* the file of the row ("env").
EnvInForce ==
    Working => shell.vars =
        IF OnHost(Row) \/ "env" \in lost THEN ContainerEnv(base)
        ELSE ComputeSubtaskEnv(base, Row) ++ Without(ContainerEnv(base), ShadowKeys(base, rows))

\* What `feat phases validate` accepts can be run: it is refused later for no
\* reason but the ids, tags and models only the options and the compiler check,
\* an empty phases/, and scripts of feature.yml that only a phase's directory has.
AcceptedCompiles ==
    pc = "refused" /\ ValidatePhasedFeature(feature) =>
        \/ feature.dirs = {}
        \/ \E s \in ConfigSources(feature) \union {feature.config, feature.cli} :
              BadLlm(s) \/ \E k \in CompileOnly \union {"test.profile"} : Get(s, k, "") = Malformed
        \/ \E k \in {"container.cedar", "container.startup", "agent.install"} :
              /\ IsOfFeature(feature, k)
              /\ ~ResolvesScript(feature, FeatureDirs, FeatureSetting(feature, k))

\* The rows of a phase are gated by its tests and by those of the phases before
\* it, those of the feature and the project come with the last phase and not
\* before, and no row with tests in its scope goes ungated, if no phase comes
\* twice in the order. The scope is that of the rows, not of the disk: a last
\* phase without tests is gated even where neither the feature nor the project
\* has any (runner-overrides.ts:103 and loop.ts:2191 say it is bypassed). The directory the test runner was given has just those tests of the
\* scope that there are, and its script is the phase's own or the run's.
GatedByItsTests ==
    LET order == EffectivePhaseOrder(feature)
        tested(p) == ~HasNoTests(ResolvePhaseConfig(feature, p))
    IN  Working /\ IsInjective(order) =>
          LET at == CHOOSE i \in DOMAIN order : order[i] = Row.phase
              due == {order[i] : i \in {j \in 1 .. at : tested(order[j])}}
                        \union (IF at = Len(order) THEN {"feature", "project"} ELSE {})
          IN  /\ SubtaskTestScope(rows, cursor) = due
              /\ ShouldBypassRunner(rows, cursor) <=> due = {}
              /\ due # {} => runner.tests = due \intersect feature.tests
              /\ runner.script = OwnScript(feature, Row.phase, "test.script", base.runner.script)

\* The report of `feat phases validate` foretells the run. Whenever a restart
\* has begun, each field it is for has been announced for these two phases,
\* except an install script that comes with a profile, and a path that is
\* written alike and leads to different files. `feat phases compile` flags the
\* row too, although it does not know the run's baseline. And a phase has more
\* rows than it may make attempts exactly if the report says so.
ReportForetells ==
    LET announced == CheckAdjacentPhaseTransitions(feature)
        written(p, k) == Get(ResolvePhaseConfig(feature, p), k, "")
        foretold(p, q, k) ==
            \/ <<p, q, k>> \in announced
            \/ k = "agent.install" /\ <<p, q, "agent.profile">> \in announced
            \/ /\ k \in PathFields /\ written(p, k) = written(q, k)
               /\ OwnScript(feature, p, k, <<>>) # OwnScript(feature, q, k, <<>>)
    IN  /\ pc = "restart" =>
              /\ \A k \in transition.fields : foretold(rows[cursor - 1].phase, Row.phase, k)
              /\ LET preview == Preview(feature)[cursor]
                 IN  /\ Row.restart.level2 => preview.restart.level2
                     /\ Row.restart.level3 => preview.restart.level3
        /\ Working /\ IsInjective(EffectivePhaseOrder(feature)) /\ Row.maxAttempts > 0 =>
              (Row.phase \in CheckPhaseBudgets(feature)
                 <=> Row.maxAttempts < Cardinality({i \in DOMAIN rows : rows[i].phase = Row.phase}))
=============================================================================
