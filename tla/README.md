# saifctl in TLA+

saifctl runs coding agents in containers: it takes a feature, splits it into subtasks, lets an
agent work on each in a sandbox copy of the repository, verifies the result with tests the agent
does not see, and applies the commits to the host. This directory holds TLA+ models of the parts
that are hard to get right: a run's stored state and the processes that share it, the loop that
carries a run through its subtasks over crashes and resumes, the protocol with the shell in the
container, how a feature in phases becomes rows and rows become containers, how commits travel
from the agent's tree to the user's repository, and how the VS Code extension keeps up with all this.

`PROJECT.json` maps every definition to the lines of code it stands for and lists the hazards of
the code at their lines, with the property that covers each. Line numbers below refer to files
under `src/src/`, those of the VS Code extension (section 2.9) to files under `src/vscode-ext/src/`.

## 1. The system

| Component | State | Operations | What is hard, and what makes it correct | Modelled in |
|---|---|---|---|---|
| **Run artifact** (`runs/storage.ts`, `runs/utils`, `runs/types.ts`) | One record per run: status, control signal, revision, `liveInfra`, `pausedSandboxBasePath`, rules, commits, subtasks | save (optionally with `ifRevisionEquals`), set status, request pause or stop | Reads that are old when written back. The status is the lock of the run; status and signal agree; no request is lost | `RunLifecycle`, `RunOwnership` |
| **Run commands** (`orchestrator/modes.ts`, `cli/commands/run*.ts`) | Process memory: the artifact as read, the resumed infrastructure | `feat run`, `run start / resume / pause / stop / inspect / rules / apply / merge / fork`, Ctrl+C | Long windows between a check and the write it justifies; a killed process. One orchestrator per run; a paused run can be resumed | `RunLifecycle`, `HostDelivery`, `RunOptions` |
| **Iterative loop** (`orchestrator/loop.ts`) | Cursor, attempts, round summaries, commit ledger, phase counters, terminal result, abort controllers, timers | session start, `onSubtaskComplete`, saves, restart, outcome | Budgets at their boundary, saves between steps, restart after a crash. Subtasks in order, commits neither lost nor doubled, what is delivered is what was tested | `RunLoop` |
| **Coding session** (`phases/run-coding-phase.ts`, `run-engine-attempt.ts`) | One abort controller (first reason wins), engine promise, driver promise, watcher timer | run agent, drive subtasks, poll for requests and rules | Three concurrent activities with one abort. A request ends the session; the session always ends | `RunLifecycle`, `SubtaskProtocol` |
| **Subtask signal files** (`orchestrator/sandbox.ts`, `scripts/coder-start.sh`) | `subtask-done`, `subtask-next`, `subtask-exit`, `subtask-retries`; the shell's flag, task and budget | poll, hand over, take, report, exit | Files outlive containers; a container dies at any moment. No stale file is taken for a new one; neither side waits for ever | `SubtaskProtocol` |
| **Controlled restart** (`phase-transition.ts`) | `transitionInProgress` on the artifact | save the flag, teardown, refresh, clear | Crash between any two of its steps; what is refreshed and what is not | `RunLoop`, `PhasedRun` |
| **Rules** (`runs/rules.ts`) | Rules in the artifact, in memory, in the pending file | create, update, remove, reconcile, consume once | Delivery while the agent works and the user edits | `RunRules` |
| **Engines and cleanup registry** (`engines/docker`, `utils/cleanup.ts`) | Networks, containers, compose projects; what each engine knows of; the registry | setup, run agent, pause, teardown; clean up on a signal | Ctrl+C and failures at any step of three engines' lives. Nothing is left in Docker | `EngineResources` |
| **Patches of a round** (`sandbox.ts`, `mutability-check.ts`, `patch.ts`) | Sandbox git, index, recorded commits | extract, exclude, inspect, reset, replay | Partial diffs that must replay elsewhere; tests an agent may not touch | `RoundPatch` |
| **Delivery to the host** (`apply-patch.ts`, `merge-into-host.ts`, `worktree.ts`) | The user's branches, tree, index, stash; a worktree; a remote | apply at the end, `run apply`, `run merge`, rollback | Failures and kills between git commands, next to the user's own work | `HostDelivery`, `Delivery` |
| **Phases** (`specs/phases`, `test-scope.ts`, `runner-overrides.ts`, `per-subtask-env.ts`, `llm-config.ts`) | none (pure) | discover, validate, layer, compile, scope tests, compute an environment | Order and inheritance of many layers; which boundary needs a new container. Each row gets its own container, scripts, environment and tests | `PhaseSchema`, `ModelConfig`, `PhaseConfig`, `PhaseRows`, `PhasedRun` |
| **Options** (`options.ts`, `cli/utils.ts`, `runs/utils/serialize.ts`) | Options in the stored run and in its rows | resolve, store, replay, fork | Seven layers, read again by every command. A run goes on under what it was given | `RunOptions`, `KeptOptions` |
| **Storage backends** (`storage/`) | Files, objects or a map | get, set, list, remove | Compare and set in two calls | the get and the put of a save in `RunRules` |
| **Hatchet** (`hatchet/`) | A queue of dispatched runs | serialise, dispatch | Gate closed in this release | no |
| **VS Code extension** (`RunsTreeProvider.ts`, `ChatWebviewProvider.ts`, `runInfoStore.ts`, `runsOptimistic.ts`, `cliService.ts`) | Rows of the last list, optimistic statuses, a polling timer; tabs in the extension and in the page; infos of runs in a cache both views share | list, fetch, poll, menu commands; open, close, move tabs; create, edit, delete rules | Answers of CLI processes land in any order on state that has moved. Page and extension agree, refused edits leave no trace, a live run is followed and shown as it is stored | `RunChats`, `RunsView` |
| **Design and validation steps, profiles, providers, web site** | none that is shared | | | no |

## 2. Modules

| Modules | What they are |
|---|---|
| `RunLifecycle`, `MCRunLifecycle` | The stored artifact and the processes that work on it |
| `RunOwnership` | Abstract: the status is a lock that a process takes, gives back or loses |
| `SubtaskProtocol` | Host driver, container shell, signal files, engine end, pauses, stops and resumes |
| `SubtaskSequence` | Abstract: subtasks in order, each attempt judged once, after its report |
| `RunLoop`, `MCRunLoop` | Ledger, cursor, attempts and budgets in memory, on disk, in the sandbox and on the host |
| `RunRules`, `MCRunRules` | The user's rules between artifact, loop, watcher, prompt and pending file |
| `RoundPatch`, `MCRoundPatch` | A round's diff: extraction, exclusion, inspection, replay |
| `EngineResources` | What a session makes in Docker and removes, with the cleanup registry |
| `HostDelivery` | `applyPatchToHost`, `run apply`, `run merge` in the user's repository |
| `Delivery`, `MCDelivery` | Composes the two: a session, then what happens to its commits |
| `PhaseSchema` <- `ModelConfig` <- `PhaseConfig` <- `PhaseRows` <- `PhasedRun`, `MCPhasedRun` | A feature in phases, from its files to the container each row works in. Each extends the one before |
| `Layers` | One setting, and one layer of settings over another; used by `PhaseSchema` and `RunOptions` |
| `RunOptions`, `MCRunOptions` | The layers of a run's options, and the commands that read, store and replay them |
| `KeptOptions` | Abstract: what a run was given stays until the user says otherwise |
| `RunChats` | The Chats view: tabs, its page, rules, and the cache of infos |
| `RunsView`, `MCRunsView` | Extends it by the Runs tree, whose events refresh the chats |
| `RunLifecycle_proofs` (with `RunOwnership`), `SubtaskProtocol_proofs`, `RunLoop_proofs`, `RunRules_proofs`, `RoundPatch_proofs`, `Delivery_proofs` (with `HostDelivery` and `EngineResources`), `PhasedRun_proofs`, `Interface_proofs` (`RunOptions`, `RunChats`, `RunsView`) | Proofs |

The modules share no variables, except for the composition in `Delivery`: each takes what another
one models as a nondeterministic event. `RunLoop` does not ask who owns the run (`RunLifecycle`
does), takes a commit for an atom (`RoundPatch` makes it a diff), and lets a save fail at will
(`RunLifecycle` says when). `PhasedRun` lets every subtask that reports pass (`RunLoop` counts).

### 2.1 RunLifecycle

State. `art` is the artifact: status, control signal, and whether `pausedSandboxBasePath` and
coding infrastructure are recorded. `proc[p]` is the memory of a CLI process: `pc` (where it is in
the handshake, the loop or a command), `seen` (the artifact it read), `abort` (the reason of
`codingAbort`, first one wins), `eng` (the engine promise), `term` (`runTerminal.result`), `out`
(the outcome), `tick` (a watcher tick between its read and its callbacks), `sig` (the signal
handler). `sandbox` and `infra` are the directory and the containers; of the
directory the model keeps whether it is the run's own, that of an inspect session that took its place,
removed when the run ended, or removed by a stop or an inspect session.

Revisions. `artifactRevision` is a counter used only by comparison, so the model keeps `fresh`: the
copies of it (one per place in the code that holds one) that equal the stored revision. A write
guarded by `ifRevisionEquals` succeeds iff its copy is in `fresh`; a write empties `fresh` except for
the writer's own copy. This has no bound and no counter. One call of `RunStorage` is one step;
`saveRun` itself compares and sets in two backend calls, which is not modelled.

Steps. One action per storage call or await: `saveRunningArtifact` reads status and signal
(`SaveRunningRead`) and writes them back later (`SaveRunningWrite`); a watcher tick reads
(`TickRead`) and calls back later (`TickApply`), even after `stop()`; `run resume` reads, verifies
the infrastructure, saves. Swallowed stale revisions (loop) and thrown ones (commands) are told
apart as in the code.

Environment. `Env` says which events may happen: pause, repeated stop, rule edits, forced stop,
failures of setup and of the handshake, timers, kills, Ctrl+C, inspect. A stop is always possible.

### 2.2 SubtaskProtocol

`dir` holds the four files; a report or a prompt is the attempt it is about: subtask, attempt and
session number, so that a stale file is distinguishable from a fresh one, which is what the
properties need and the program does not have. `shell` is `coder-start.sh`: startup, loop head
(flag reset, override read and removed), `run_subtask`, done signal, wait for exit or next, and
the EXIT trap (`ShellDies`, with or without a report, as a `set -e` death or a SIGKILL leaves
it). `host` is `driveSubtasks` with `onSubtaskComplete` split into its read of the artifact and its
verdict; the override and the prompt are written in two steps. `abort` is the one controller of
all coding sessions of a loop. `Transitioned` starts a further session of the same loop (same
abort, same files, same first prompt, as in the code); `Resume` starts another process, with
`prepareSubtaskSignalDir`.

Abstracted: inner rounds are one step with either result; the exit code in the done file only
chooses a warning and is left out; a run timeout acts as a stop; prompts are written and read
whole (the shell's `-s` test covers the empty file). An abort kills the container and settles the
engine in one step.

### 2.3 RunLoop

Progress is one record, held twice: `mem` (the process) and `art` (the stored artifact), with the
commits, the count of those applied to the host, the cursor, the round summaries per subtask, the
phase attempts, `transitionInProgress` and the phases whose base is recorded. `box` is the sandbox:
its git history, `run-commits.json`, the applied-count file and whose boot scripts it holds.
`ses` is the session: lengths of the history at its start and at the start of the round, the abort
reason, the terminal result and the outcome. `Handling` is `onSubtaskComplete`, cut where a save, a
test run or an await lies between two effects. Two modes: verified by staging tests, or `sandbox`
with the incremental extract to the host. A process ends by every outcome, by Ctrl+C
(`saveRunOnError`) or a kill; `Start`, `Resume` and `ResumeRebuilds` are the next one. A discarded round
leaves ledger and file in one step (`DiscardRound`) and the git history in the next (`ResetRound`), with
everything that may happen in between. Append or slice and the write of `run-commits.json` are one step,
for of the two only the file outlives the process: one that is interrupted between them leaves what one
interrupted before them leaves. The loop's `testOnly` branch is not in the model: no command reaches it (section 5).

`proof` records the commits in the sandbox when a subtask passed, for the properties. `harm` names
what the code is known to break: `commits` (Ctrl+C before `run-commits.json` is there saves an
empty ledger), `budget` (Ctrl+C drops the phase counters), `doubled` (pause, stop and timeout append
every commit since the process began, loop.ts:2766, those already recorded included), `boundary`
(the flag of a controlled restart did not reach the disk). Each property says which harm it
excepts; everything else it claims without exception.

### 2.4 RunRules

`stored` is the artifact's rules and signal, `mem` is `runContext.rules`, `flight` the list in a
save between its get and its put, `watch` the watcher, `file` is `pending-rules.md`, `prompt` and
`first` the prompts. `current` is who still holds the stored revision, as `fresh` is in
`RunLifecycle`. An update of a rule stands for a change of its content or scope.

Noted in the code, without a property of its own: a rule created between the last reconciliation
and a pause or stop is overwritten by the final save, and so is one edited while the run boots; a
rule removed by the user is written back by the loop (rules.ts:141); a `once` rule is shown in every
retry and inner round of its subtask, and again when the watcher delivers it; the pending file is
cleared during setup; after a controlled restart `once` rules are marked although the new container
was never shown them (`ConsumedWasShown` counts those as shown); a final save that is swallowed
leaves the status `running`.

### 2.5 RoundPatch

A tree is a function from `Paths` to contents; a diff is a set of file sections (from, to, old,
new), exact renames recognised. `Place` says where a file lies: product code, project, feature or
phase tests, the specification, `.saifctl`, ignored. An agent creates, edits, deletes and commits as it
likes, and renames any file to any name that is free; git pairs the files that are gone with the new
ones of the same content (`Renames`, some pairing that cannot be made larger).
`ExtractIncrementalRoundPatch` commits the rest, cuts the round into diffs and leaves out what is
excluded; a round in whose diff an immutable test is named is rejected and reset; a round that fails its
tests is reset. The user locks and unlocks tests between rounds, and a second start replays the ledger in
a new sandbox.

A rename between what is recorded and what is not is judged by its old path (sandbox.ts:1401): the ledger
may then name an excluded path, where git-and-patches.md:128 (in `docs/contributing/architecture/`) says
"run artifact never contains forbidden paths", and its replay may miss a file or fail, where line 149
promises "Same semantics as if the original run had completed up to that point". The history variable `crossed` says
that there was such a rename, in the rounds that were taken in or in the one under way; `LedgerIsTheTree`
speaks of runs without. `git diff --name-only` names a renamed test by its new path alone
(mutability-check.ts:97): an immutable test that is renamed to product code is gone and its round is
recorded, where mutability.ts:35 says that "touching it fails the gate" and mutability-check.ts:60 that the
list has "every file the agent touched". `ImmutableTestsStay` excepts the tests the round has renamed and
no others. Without these exceptions TLC refutes both properties in a few steps.

Further limits of the code that bound what the properties claim: a round whose changes are all excluded
is not inspected (loop.ts:1840 comes after the filter, the comment at 1827 says otherwise); excluded changes stay staged into the next round; a `git diff`
that fails skips the gate; ignored files are tested and not delivered; holdout tests are only
stripped if `tests.json` exists (sandbox.ts:696-723). Git also pairs files that are merely similar; the
model's renames keep the content.

### 2.6 EngineResources, HostDelivery, Delivery

`docker` is a set of pairs of an engine and a thing (network, compose services, containers); `pc[e]`
is an engine's life, one step per docker call that can fail or be overtaken; `infra[e]` is what the
code knows of it. Ctrl+C (`Signal`) starts `CleanupContainers` and `CleanupNetwork` over the registry,
while the other promises go on until `Exit`. The ghosts `unreturned` (made by a step that has not
returned, or threw) and `missed` (made after the cleanup had come by) are the reasons for which the
code leaves something behind.

In `HostDelivery` a change is an edit of a tracked file or a new file; a commit is a set of changes
with its author command; a branch is its history since the base commit. `op` is the command under
way, with what it has done (to be rolled back) and what was there before. `mine` is what the user
has changed, `late` what they changed during a merge, `discarded` what the code throws away with its
own words: `reset --hard` of what nothing stashed, and a branch that has the name `run apply` wants.
Limits: one command at a time; the user switches branches with a clean tree only, and edits before a
command or during a merge; a dry run is left out; git fails for conflicts, hooks, pushes and missing
files, `reset --hard` and the removal of a worktree do not fail.

`Delivery` runs a session to its end and hands its verdict on: only tests that passed in a session
nobody interrupted deliver by themselves; `run apply` and `run merge` take the commits of any run.

### 2.7 PhaseSchema to PhasedRun

A configuration is a partial function from field names to values, as YAML leaves out what is not
said, and `f ++ g` of `Layers` puts `f` over `g`. `PhaseSchema` is the schema, the loader's file names and the fields the release supports;
`ModelConfig` is `--model` and `--base-url` with the choice of provider and key; `PhaseConfig` is
discovery, the layers of a phase, script resolution and `feat phases validate` with its announcements
of restarts and budgets; `PhaseRows` is `compilePhasesToSubtasks`, the run-level baseline, the test
scope, the runner bypass and the environment of a row; `PhasedRun` is the run: which scripts are hot
and which belong to a container, what a controlled restart, a pause, a rebuilt resume and a new start
refresh. `lost` marks the two losses of the code: a sandbox whose boot scripts are the run's until a
restart refreshes them ("boot"), and the file emptied by a process that completes a dead one's
restart ("env"). Merging tests fails where two directories get one label and have files of one name
(`alike`).

Abstractions: `LLM_MODEL` stands for `LLM_MODEL`, `LLM_MODEL_ID` and `LLM_PROVIDER`; an empty string is
undefined; models in the saifctl config arrive structured; a resumed container is taken to have the
settings of its row.

### 2.8 RunOptions

An option is a name of `OrchestratorOpts`; a layer is a partial function. Layers, in order: defaults,
profiles, saifctl config, feature.yml, the stored run, the command line. `setting` is the project of a
behaviour: its files, and the configs, features and command lines its user may choose. Files have versions, so that
an edited script differs from the stored text. `FeatRun`, `RunStart`, `RunResume`, `RunFork` and `RunInspect`
resolve and store; `run.row` is what is baked into the rows when a run is made, and `InForce` is what
the loop reads (row first). `KeptOptions` is the abstract promise and `OptionsStick` the refinement.

Abstractions: options layered alike stand for one another (`maxRuns` for counts and timeouts, `push`
for provider and project name, `strict` for `includeDirty`, `targetBranch` for `verbose`); one row
stands for all; edits happen while no session runs; commands run in the project's directory; paths are
unique. `sandboxBaseDir` and `claudeMax` (`Elsewhere`) are outside of `OptionsStick`: the code always reads the
first from the config again, and forgets the options of a profile in `run fork` and when the profile
changes. `ConfigAssumption` says what the schema of the config lets through.

### 2.9 RunChats, RunsView

State. `stored` are the runs as the CLI would report them: status, `updatedAt`, rules. `rows` and
`overlay` are the tree's last list and its optimistic statuses, `timer` and `boost` what decides
whether it lists again, `cache` is `RunInfoStore`. `tabs` and `active` belong to the extension
host, `page` is the webview's own copy of them. `fetches`, `lists`, `works` and `commands` are the CLI
processes under way, each with what its handler remembers over the await; one action starts
them, one lets the CLI read or save, one is the rest of the handler. They end in any order.

`dirty` is an event of the tree that VS Code has not yet answered by asking for the children; every
such event also makes the chats refresh, from the cache where it can. `topic` chooses one of four
parts of the user's doings (nothing but reading, tabs, rules, the menu), so that each meets every
interleaving with lists, fetches and moving runs. `strays` and `crossed` are for the properties:
tabs that an answer brought back to the page after they were closed, and runs on whose cached rules
two commands, or a command and a fetch, met.

Abstractions: one project; messages between host and page are delivered at once and in order;
durations only by their order (`OptimisticTtl`, `PollBoost`); filters change what is shown, and expanding a run
is a fetch; names of tabs, the timeline's attempts and consumed rules are left out, and `failed`
stands for `completed`.

## 3. Runs

Every run finishes within about three minutes with two workers.

| Run | Instance | Checks |
|---|---|---|
| `lifecycle_many` | 2 processes (symmetric), pause, rule edits, failures, kills, inspect | `SignalMatchesStatus`, `OneOrchestrator`, `RequestNotLost`, `ImplementsOwnership` |
| `lifecycle_one` | 1 process, every event: pause, repeated stop, forced stop, rule edits, failures, timers, kills, Ctrl+C, inspect; fair. 54 thousand states | `PausedKeepsSandbox`, `RequestEndsSession` |
| `protocol` | 3 subtasks, override on the 2nd, restart before the 3rd, 2 attempts, sessions up to 3; pause, stop, crash; fair | `ResultIsOfTheRequest`, `ShellFollowsHost`, `BudgetIsHandedOver`, `SessionsEnd`, `InSequence` |
| `loop` | 3 subtasks (two in a phase with a cap of 2, the 3rd needs a fresh container), 2 attempts, 2 processes, 2 commits, every event, both modes; fair. 862 thousand states | `StoredProgressIsWhole`, `DeliversWhatWasTested`, `CommitsOnce`, `AppliedIsOnHost`, `BudgetsCount`, `CriticHasBase`, `AgentStartsFromLedger`, `EveryProcessEnds` |
| `rules` | 2 rules (symmetric), any number of processes. 2.8 million states | `ConsumedWasShown`, `KeptWhileRunning`, `ConsumedIsForever` |
| `patch` | 5 files (code, code to be made, holdout test, note, ignored), any rename, 2 subtasks, 2 attempts, 3 changes and 1 commit per round by agents, 2 starts, `--strict`. 1.7 million states | `LedgerIsTheTree`, `ImmutableTestsStay` |
| `feature` | 2693 features of two or three phases, 3 processes. 140 thousand states | `ContainerInForce`, `ScriptsInForce`, `EnvInForce`, `AcceptedCompiles`, `GatedByItsTests`, `ReportForetells` |
| `delivery` | Coding engine and 2 test attempts (engines 0 and 1 with a compose file); then 2 commands on a run of 2 commits, each an edit and a new file, a base patch, 2 user changes of 3, the branches `main` and `saifctl/feature`. 750 thousand states | `NothingLeaks`, `WorkIsKept`, `FailedMergeRestores`, `DeliversTheRun` |
| `options` | 12 settings (90 initial states) of files, configs, features and flags that meet in the same options; 1 edit, 3 commands. 185 thousand states | `RowsAgree`, `OptionsStick` |
| `view` | Up to 2 runs and tabs, 2 texts of a rule, 2 rule commands at a time; four topics of up to 3 user actions, 2 saves, 1 failing read, 2 lists at a time; fair. 340 thousand states | `TabsAgree`, `FailedEditsAreUndone`, `FollowedWhileLive`, `ChatsCatchUp` |
| `lifecycle_stop_start` | violation | `StopSettles`: a stop after the last check of the handshake is never carried out |
| `protocol_restart` | violation | `FreshContainerMayWork`: the container after a controlled restart starts under the abort of the old one |

The violation runs each refute a statement of the documentation or of a comment, quoted with its
line in `PROJECT.json` under `findings`. They are the smallest instance that shows it. Every property
of a passing run has a mutant in `PROJECT.json`: a plausible bug in one definition, under which TLC
finds the property violated.

Why the bounds are enough.

* Two processes make every race of an owner with an intruder possible, and kills let any number of
  incarnations follow each other, since a process that ends may start again; the theorems remove the
  bound for the safety properties they cover. One process is enough for `lifecycle_one`, whose
  properties are about a session and its own watcher, timers and signal handler.
* In `protocol` three subtasks give a plain boundary, a boundary with a restart and a last subtask;
  two attempts give a retry and an exhausted budget; three sessions give a resume whose files come
  from a session that was itself resumed.
* In `loop` the phase of two subtasks gives a budget that is shared and runs out in either; two
  processes give every way to end one and every way to start the next; two commits let one be
  recorded and one be under way when something happens.
* In `rules` one rule may be under way while another is created, shown or removed; two are enough for
  every pair of writers. In `patch` a rejected, a reset and a recorded round can follow each other in
  any order, and two starts replay what the first recorded. Three changes let each of these rounds have
  one, or one round a rename, an edit of what was renamed and a way back. Uncommitted code,
  tests that `immutable-files` names and tests of the project are left to the proof, for every set of files.
* `feature` is a set of families, each of which varies one aspect in full: a field declared in every
  subset (or every two) of the seven places that may declare it, one script sought in every
  combination of places and kinds, orders, critics, budgets, test layouts, models, environments, and
  specifications to be refused. Three processes allow a crash or pause before, within and after a
  restart.
* In `delivery` two commands allow an `apply` before or after a `merge`; two user changes allow one to
  be stashed and one to be made meanwhile; two test attempts allow a leaked one beside a live one.
* In `options` three commands are making a run and going on with it twice, or inspecting it between.
* In `view` two tabs are enough for every order and for a tab that is closed while another stays;
  three actions open, move and close it around one fetch. Two rule commands cross, two lists overtake
  each other, and two saves make a run change after it was read and before it is shown.

`MaxSessions`, `MaxProcs`, `MaxCommits`, `MaxEdits`, `MaxStarts`, `MaxCommands`, `MaxWorks` and the counts of a `topic` of
`view` are bounds of the models and stand in the guards of the actions that would count on.

Deadlock checking is off: a run that has succeeded, or one that nobody takes up again, has stopped.

Fairness. `RunLifecycle!Fairness`: weak fairness of the continuations of a process that is not
interrupted (node runs every promise that is due), of the engine once the session is aborted (it
kills the agent) and of the watcher (an interval timer). Nothing makes an agent finish, so
`RequestEndsSession` says that a request ends even a session whose agent hangs.
`SubtaskProtocol!Spec`: weak fairness of shell, driver and engine; here an agent does return (inner
rounds are bounded by the gate retries and the subtask timer), while requests, deaths, the watcher
and the user are free. `RunLoop!FairSpec`: weak fairness of `Driver`, the process's own next step as
long as it lives, the agent's report included for the same reason; events, kills and new starts are
free. Each is stated on a whole actor: none is made to prefer a branch. `RunsView!Fairness`: CLI processes
end, with whatever result, and their handlers go on; time passes; VS Code asks for the children of a tree it
shows. The user, the dialog of a failed list and the processes of runs may do nothing. The other
specifications state no fairness, and their properties are about safety.

## 4. Proofs

`tlapm` checks the eight proof modules with no obligation left. The theorems about the lifecycle hold
for every set of processes, those about the protocol for every `N`, `MaxRuns`, `MaxSessions`, every
choice of overrides and restarts and every `Env`, those about the loop for every number of subtasks,
phases, caps, attempts, processes and commits with every event, those about the rules for every set
of rules, those about patches for every set of files, places, exclusions and user edits, those about
the delivery for every run, set of branches, user and number of commands, those about the engines for
every number of test attempts and set of compose files, those about phases for every set of
features, with whatever they declare, those about options for every set of settings, and those about
the runs view for every set of runs, user and number of CLI processes under way.

Lifecycle (`RunLifecycle_proofs`).

* `TypeCorrect`: `TypeOK` is inductive by itself. One lemma per group of actions.
* `SignalsAgree` and `RequestsAreNotLost`, for every `Env`. `SignalMatchesStatus` is not inductive:
  saves write a status and a signal that were read earlier. `RequestInv` adds that what was read is
  consistent as well, what an inspecting or stopping command can have read, and the reason no
  request is lost: a loop whose copy of the revision is current, between read and write, has either
  seen the pending signal or been told to end (`abort`). The second case is why
  `RequestNotLost` allows a save of an aborted session to wipe the signal: a watcher tick refreshes
  the copy *after* the read, but it also delivers the signal.
* `NeverTwoOrchestrators`, `OwnersAreMarked`, `StatusIsALock` (refinement of `RunOwnership`) and
  `CompletedRunsStay`, from `OwnershipInv`: an owner is unique and marked, and a command that still
  holds the current revision knows the stored status, so its guarded write cannot land on a run
  somebody has taken since. Assumption `NoForce`: no forced stop and no Ctrl+C. It is needed: a
  forced stop marks a run failed while its process goes on (the documentation says so), and the
  Ctrl+C hook saves `failed` while the loop still runs to its end; TLC finds both when the events
  are added.

Protocol (`SubtaskProtocol_proofs`).

* `ResultsMatch`, `ShellsFollow` and `NoMutualWait`, from `TurnInv`: while nothing has aborted the
  session, exactly one of the driver, the shell, the report file and the prompt file holds the turn,
  and what it holds is the current attempt. A driver with an attempt in hand implies, aborted or not,
  that the shell waits or is dead and that no report or prompt is left; this is what keeps a late
  death of the container from adding a second report. Once the session is aborted the files may be
  stale (a controlled restart keeps them), but then the driver reads no report any more.
* `BudgetsAreHandedOver`, from `BudgetInv`: the override file travels with the turn. `Due` is the
  override an attempt is owed; the file holds it from the moment the prompt may be written until the
  shell begins the attempt, and is absent otherwise. It needs that the cursor has left the subtask
  of the first prompt whenever an override is written, since first prompts carry none.
* `ProtocolImplementsSequence`: away from a judgement the cursor and the attempt stay, and the only
  change of `Work` that is not a step of `SubtaskSequence` is from reported back to busy; `TurnInv`
  excludes it. A judgement finds `Work` reported and leaves nothing under way.

Loop (`RunLoop_proofs`).

* `TypeCorrect` needs `PreIsPast` beside `TypeOK`: the start of a round is not beyond the history of the
  sandbox, without which a discarded round would not leave a history.
* `RestartsAreRecoverable`, `CriticsHaveTheirBase`, `ScriptsAreFresh` and `CursorAdvances` from one `Inv`: the
  stored cursor is not ahead of the one in memory (`Ahead`); a session is on its way to a restart
  only after its driver has drained (`MovingOnly`); the rows before the cursor that are their phase's
  implementation have their base recorded, in memory and on disk (`BasesStay`, `HasBase`); no flag is
  pending while an agent works or a container boots (`NothingPending`); and the sandbox's scripts
  are those of the cursor, unless a restart is under way or the flag was lost (`ScriptsFollow`).
  `TransitionOnDisk` alone is not inductive: it needs that nothing but the refresh follows the flag.
  Most actions are `Steady`: they change none of the fields `Inv` reads, and one lemma settles them.
* `NothingEarnedIsLost`, `HostGetsWhatWasTested`, `LedgerReplays`, `AppliedCommitsAreThere` and
  `AgentSeesTheLedger`, from `Books`. The five properties relate pairs of six histories (the commits in
  memory, in the artifact, in run-commits.json, in the sandbox, under the last test, on the host), and
  none is inductive without the others: whoever saves next may take the commits from the memory, from
  the file or from what was stored. `HistoryIsLedger` says which of them agree at each step of a round,
  up to the round under way; `OnceEach` that what may be appended next is in none of them; `Whole`
  that every history a later save may store covers the cursor it may store with it; `TestedIsHead`
  what the tests have run on; `OnHost` that the applied count never leads the host. Each holds up to
  a mishap in `harm`, which names the step after which it is lost and is a case of the code: a Ctrl+C
  before run-commits.json is there, an abort after a round was taken over, a save that failed.
* `BudgetsAreKept`, from `Accounts`: what is summarised for a phase fits into its counter in memory, in
  the artifact and in flight (`AttemptsFit`), and the counter stays under the cap plus what the
  subtasks begun and the processes started may add (`CapsHold`): `bumpPhaseAttemptCount` counts before
  `checkPhaseBudgetExhausted` asks, so each later subtask of an exhausted phase adds one.

Rules (`RunRules_proofs`).

* `MarksAreEarned` and `ConsumedOnce`: whoever is about to write the list back knows of every mark in
  the storage (`MarksKnown`), every mark anywhere is of a rule that was shown (`MarksShown`), and the ids
  to be marked are, wherever the loop is, active, in the prompt or shown (`PendingIsTold`).
* `NewRulesAreKept`: who holds the current revision knows of every rule in the storage
  (`HoldersKnow`), be it from the memory, the list in flight or what the watcher holds (`WatchFollows`).

Patches (`RoundPatch_proofs`), with no assumption but `PatchAssumption`, that there are finitely many
files in a kind of place each and that the bounds are numbers: an agent may rename any file.

* `LedgerDelivers`, from `Inv`. That the ledger replays is not inductive: the next diff is taken
  between trees of the sandbox and applied to what the recorded part of the earlier ones gave. `Carries`
  says that the two agree on all that is not excluded, for the start of a round, for each commit made
  since and for what is left over, `KeptApplies` that a diff between two trees, cut to what is kept,
  applies to any tree that agrees with the first there and leads to one that agrees with the second,
  provided the diff does not cross from what is recorded to what is not (`Crosses`). Without that it is false,
  and `Carries` is claimed only while `crossed` says that there was no such rename. `RenamesExact` shows that
  git's choice of renames is well defined: among finitely many pairings some cannot be made larger. The
  rest is induction over the ledger and over the commits of a round (`WFMin` on the length).
* `TestsStay`: what is recorded in a round leads from the tree the round began with to the tree the
  inspection has compared with it, so a test that is the same in both is the same after a replay. `Sections`
  says which files a diff names: every file that differs, but for the old path of a rename. The half of the
  property that is about the sandbox needs no more, and holds after any rename.

Phases (`PhasedRun_proofs`), under `FeaturesAssumption`: directory names and criteria are what the
parser lets through.

* `ContainerIsTheRows`, `ScriptsAreTheRows` and `EnvIsTheRows`, from `Inv`. The hard part is that a
  restart happens only at flagged rows and the flags compare neighbouring phases, while the properties
  are about whole histories. `RowsInOrder` describes what the compiler makes: each row is owned by
  a phase, in the effective order, and differs from the row before it in what a container is made from
  only where it is flagged. With it, five invariants follow the settings of the current row to where they are
  in force: the files of the sandbox (`InSandbox`), the container (`InContainer`), the shell (`InShell`),
  the directory of the runner (`InRunner`), and which of them a restart has yet to bring up to date
  (`InRestart`).
* `RowsAreGated`: the test scope is computed from the rows (`computeSubtaskTestScope` looks for the first and last row
  of each phase), the property is about the order of phases. `PhasesSoFar` says that the phases met up to a
  row are those of the order up to its phase, which holds when the order names none twice.
* `AcceptedIsRunnable` goes through what the compiler may refuse, one lemma each (`Mistaken`, `BadIf`,
  `OptionsDemand`, `OrderIsThere`, `CriticsAreThere`), and shows that validation has refused it before or
  never looks at it.
* `ReportIsRight` compares three calculations the code makes apart: what validation reports before the rows exist, what
  the preview makes of placeholders, and what the compiler and the loop do. `Foretold` goes from the
  rows back to the layers they were resolved from: neighbours that differ in what a container is made from
  have settings that differ, or a profile that brings its own install script, or one path in two
  directories. `PreviewLevel2` and `PreviewLevel3` say that a placeholder of the preview cannot be taken for a
  value, for the schema lets none of these fields be empty. `RowsOfPhase`, a part of `Owned`, says that
  the rows of a phase are an interval of one row and the turns of its critics, and `SubtasksCounted` that
  `countPhaseSubtasks` counts just these.

Delivery (`Delivery_proofs`), under `DeliveryAssumption`: no commit of the run is empty, and the user's
changes are none of the run's.

* `WorkSurvives`, from `Inv`. `WorkIsKept` alone is not inductive: a `reset --hard` loses the tree and the
  commits since, and `run apply` a branch. `Working` says what a merge may find in the tree and on the
  target when it resets them: what the user had committed before (`Recorded`), has done since, or has
  under `.saifctl/`; the rest was stashed before the first diff (`NotBegun`). `Apart`, `Free` and `Placed`
  keep commits from worktrees off the branch the user is on, and `RolledBack` what follows the reset.
* `FailedMergesRestore`, from `Reversible`, which says at each step of a merge what the way back needs: the
  stash entry holds the tree there was (`Entered`, `Opening`), what no entry holds is still in the tree
  (`InHand`), nothing stands in the way of the old branch (`Returnable`), and what of the run lies about
  is what `Leftovers` allows (`NoBase`, `Picking`, `Undone`).
* `DeliveryIsExact` adds how far a command is: `UnderWay` for the commits on the branch that is made,
  `Gathered` for the diffs a merge has committed or has in the tree.

Engines (`Delivery_proofs`). `NothingIsLeftOfTheRun` asks of the state in which the process is gone what
`Inv` says at every step. `Engine`: what exists of an engine is in the list the code holds of it or
has an excuse, and at each step of its life only certain things exist. `Registered`: until the
cleanup empties the registry, an engine with anything to remove is in it. `Cleaned`: what the cleanup
has come by and left without an excuse is of an engine that was being torn down already, or is the
network it removes next. A network that stays is in use by something excused, which excuses it too.

All four theorems are about the composition the run checks: a step of `Delivery` is a step of
`HostDelivery` or leaves it alone, and a session that ends leaves the engines as one that has not begun.

Options (`Interface_proofs`). Nothing is assumed of the settings.

* `OptionsAreKept` (refinement of `KeptOptions`): `Honours` relates the options a command comes to, what it
  says, and what was stored. It holds of the merge of layers (`MergedHonours`), is left alone by what is
  forced on an agent on the host and by what is written back for profiles (`SerializedHonours`), and with
  `Shape` (a run that is not there has no options) gives `Say` for each command.
* `NewRunsAgree`: every option baked into a row is one the baseline sets whatever the project is
  (`BaselineIsWhole`), the row of phases takes from the run's options what `OfPhases` does not name
  (`RowIsOfOptions`), and what it names does not depend on the environment (`SpokenAlways`). The run is no longer
  `fresh` when its options change without its rows.

Runs view (`Interface_proofs`), for every set of runs. The one assumption is `TopicsAreTopics`: the tabs that
VS Code restores are a sequence of runs.

* `LiveRunsAreFollowed`, from `Followed`, which adds to the property what the timer is kept by: an optimistic
  status that has not run out goes with the boost, and what is listed has a status.
* `TabsStayTheSame`, from `TabsFollow`: each tab of the host is on the page or awaited by a fetch of the
  chats, each tab of the page is the host's or a stray, and the page's active tab is the one it was last told
  of unless it is adrift. `PageWithTab`, `PageWithEntries`, `PageWithActive` and `PageWithout` say what each
  message does to a page. The page filters and refreshes its tabs by recursive functions (`Filtered`, `RefreshTabs`);
  what they return for every sequence is shown by induction on its length (`Recursion`, `Induct`).
* `RefusedEditsLeaveNoTrace`, from `Mended`: every save has a later date, so what was read of a run is what is
  stored as long as the dates agree (`FreshIn`). A run that nothing crossed has at most one command; its info has
  been cached since that began, and `Undone`, which is what the handler would do if the CLI refused, makes it
  fresh, or is not needed because the command has saved the run. That an update and a deletion are undone
  exactly rests on the order of rules: stored rules have increasing numbers, so a filtered list with its row put
  back is in order, and two lists in order with the same members are the same (`OneOrder`, `UpdateIsUndone`,
  `DeletionIsUndone`). `crossed` is needed: the property says nothing of runs that two commands edit at a time.

Each lemma about actions follows the same layout: one step per action, and under it the conjuncts
the action can disturb. `BystandersKeepInv`, the `...Moves` lemmas and `Steady` reduce an action to
what it does to a few fields, so that the invariant is argued once.

The type invariants of `RunLifecycle`, `SubtaskProtocol`, `RunLoop`, `RunRules`, `RoundPatch` and
`HostDelivery`, `OwnerIsMarked`, `CompletedIsFinal`, `NeverBothWaiting`, `TransitionOnDisk`, `FreshScripts` and
`CursorNeverGoesBack` are proved and not model-checked again.

Only model-checked: all liveness (`RequestEndsSession`, `SessionsEnd`, `EveryProcessEnds`, `ChatsCatchUp`), which is
beyond the prover; and `PausedKeepsSandbox`, which is claimed of one process at a time, with every event,
where TLC sees every state anyhow.

## 5. Observed, without a run

Places where code and documentation or comments part, met while modelling. No run refutes them; the
models follow the code.

* Run commands. A paused run's "sandbox and Docker network are preserved in cache"
  (`docs/products/saifctl/concepts/run-lifecycle.md`:27), but an `inspect` of it puts its own sandbox in the
  place (sandbox.ts:563) and removes that and the network when it ends, with the run still paused
  (modes.ts:1659, loop.ts:1222); `run resume` then rebuilds. `PausedKeepsSandbox` excepts it. An `inspect`
  with commits saves `maxRuns` 1 and no Leash as well, where
  `docs/contributing/architecture/orchestrator.md`:22 speaks of the changes alone. Ctrl+C before the loop
  leaves a live status that only `run stop --force` ends (modes.ts:827). A refused `run start` (a pull
  request without push, a missing script) leaves the status `starting` and its worktree. A failed
  run whose engine was being frozen leaves the frozen containers (run-coding-phase.ts:419). A fork
  copies `pausedSandboxBasePath`, `liveInfra` and the control signal of its source (fork.ts:92): two
  runs then name one sandbox.
* Loop. A container whose inner loop failed exits (coder-start.sh:464), and the attempts that
  `--max-runs` leaves are not made in that session. An ambiguity that is resolved takes back a test
  attempt, so resolutions are not bounded (loop.ts:640). `gateRetries` of a row never applies to the first
  subtask of a session (loop.ts:2435). A verification after such a resolution may use the tests merged
  before it (loop.ts:663), and may read the `results.xml` of the attempt before (docker/index.ts:394).
  A round that changed immutable tests "doesn't consume a `maxRuns` slot"
  (orchestrator.md:84) and counts like any other (loop.ts:1742, 1909).
* `run test`. "Re-test a Run's patch (no coding agent)" (run.ts:652, modes.ts:2044, orchestrator.md:21)
  runs the agent: `fromArtifactCore` uses `testOnly` for the mode's label alone (modes.ts:978), the
  resolver sets it to false (options.ts:637, 770), and the loop sees a `run start`.
* Phases. The layers at run level put the top of feature.yml over `phases.defaults`, the layers of a
  phase the other way (options.ts, load.ts). `agent.profile` without a script keeps the run's script
  (compile.ts:323), `container.sandbox-profile` keeps its image (compile.ts:1351). A phase's global model
  is outranked by the run's model for the coder; a global base URL stays when a phase changes the
  provider; a phase that turns the reviewer on gets none of its variables. A name in a phase's
  `agent.secrets` is unset in the other phases although the container was given it, and so are the keys
  of a secret file (loop.ts:1314). Names the container refuses ("will be ignored", agent-env.ts:82) are
  exported by the environment file (per-subtask-env.ts:142). The local engine ignores that file
  (coder-start.sh:214 has a path of the container). A last phase with `tests.none` is never bypassed: its
  scope names the directories of feature and project, there or not (compile.ts:713), where
  runner-overrides.ts:103 and loop.ts:2191 say "no feature/project tests on disk ⇒ bypass";
  `GatedByItsTests` says what the code does. `feat phases validate` calls `test.*` inert beside
  `tests.none`, which it is not where earlier phases' tests are inherited (runner-overrides.ts:110). A
  phase with the feature's name shares its directory in the merged tests (test-scope.ts:245). An
  unknown `test.profile` only fails when its row becomes active. One path that leads to different files in
  two phases restarts unannounced; equal files under two paths are announced and do not restart.
* Options. `--profile` and `--test-profile` on `run start` change the id alone; `--subtasks` is ignored
  there. No flag turns the reviewer on again once an agent ran on the host. A model added to the config
  for one agent outranks the global model a run was given. `--agent-env` replaces the stored environment by
  that of the config and its pairs. `subtask-timeout` is documented as 1 h and is 4 h.
  A script given by flag to `run start` becomes the run's option, while its row keeps the script it was
  made with, and the row is what the loop installs (loop.ts:2478).
* VS Code extension. A chat posts what it read without looking again whether its tab is still open
  (ChatWebviewProvider.ts:299): a closed tab comes back, "close others" on it closes all, and the host
  makes it active although it has no such tab. A tab opened on a run that is not cached is made active
  before it is there, and the page falls back to its first tab. When a run ends, the list that
  notices drops its info and stops the polling, so its chat keeps the old status until the next event; "Repoll
  run list while any run may still change status" (RunsTreeProvider.ts:129) does not hold after a failed
  list. Lists that overtake each other leave the older one. An expanded run writes its config at an
  index taken before the await (RunsTreeProvider.ts:398), which may be another run's by then. A rule
  created while its run is fetched is in the cache twice; two edits of one rule that both fail
  may leave a text that was never stored. A list that is not JSON counts as an empty one.
* Delivery. The recovery file is promised "before any state-mutating operation" (merge-into-host.ts:24) and
  written after the checkout and the stash (merge-into-host.ts:625-669); `FailedMergeRestores` names
  what follows.
* Cleanup. The registry "tears down everything in reverse order" (cleanup.ts:41); the code goes in the
  order of registration (cleanup.ts:89).
* Hatchet. An exhausted convergence loop returns `success: false`, and on-failure never saves
  `failed` (feat-run.workflow.ts:36); `deserializeOrchestratorOpts` always sets `testOnly: false`.

## 6. Not modelled, and what is left

Modelled in part; the parts left out are named in `PROJECT.json` with each component. What a later
extension would take first:

1. `RunStorage`: get, compare and set as separate backend calls (storage.ts:62, the hazard no property
   covers yet), and showing that two writers with one revision may both pass.
2. The local engine next to the docker engine in `EngineResources`, and the globs of `immutable-files`.

Left out for good: docker and git themselves (external; modelled by their effects), Hatchet (its gate,
`assertHatchetReady`, is closed in this release, its local runner serves tests, and `feat-run-iteration`
is never registered), argument parsing, prompts and LLM calls, error feedback, profiles (tables),
hosting providers, the web site, and of the VS Code extension the Features tree, diffs, names of tabs, the
search for the binary and attaching to containers. They share no state with the modelled parts
beyond what appears there as a nondeterministic result.
