------------------------------ MODULE RunLoop ------------------------------
(***************************************************************************)
(* runIterativeLoop (orchestrator/loop.ts): what one process after another *)
(* knows about the progress of a run (its commits, the subtask it has come *)
(* to, the attempts it has used), what of it is on disk when the process   *)
(* is paused, stopped, interrupted or killed, and how it relates to the    *)
(* git history of the sandbox and to the host.                             *)
(*                                                                         *)
(* Who may own the run, and its statuses, are the matter of RunLifecycle;  *)
(* the files a session exchanges with its container that of                *)
(* SubtaskProtocol.  A storage call that is refused or fails is event      *)
(* "storage" here: persistArtifact swallows it.                            *)
(***************************************************************************)
EXTENDS Naturals, Sequences, FiniteSets, Functions

CONSTANTS
    N,          \* the number of subtasks
    Phases,     \* the ids of the phases
    NoPhase,    \* a subtask outside of a phase
    PhaseOf,    \* the phase of every subtask
    Cap,        \* limits.max-attempts of every phase (0: none)
    Restarts,   \* the subtasks that need a fresh container
    MaxRuns,    \* --max-runs
    Modes,      \* "staging": verified by tests; "sandbox": `sandbox` with host-apply
    Env,        \* the events of the environment that may happen
    MaxProcs,   \* bound of the model: processes that work on the run
    MaxCommits  \* bound of the model: commits the agents make

Subtasks == 1 .. N

\* pause, stop, timeout: what aborts a session.  crash: the process is
\* killed.  sigint: Ctrl+C.  storage: a save does not reach the disk.
\* failure: a step throws.  container: it dies.
Events == {"pause", "stop", "timeout", "crash", "sigint", "storage",
           "failure", "container"}

ASSUME LoopAssumption ==
    /\ N \in Nat \ {0} /\ MaxRuns \in Nat \ {0}
    /\ MaxProcs \in Nat /\ MaxCommits \in Nat
    /\ NoPhase \notin Phases
    /\ PhaseOf \in [Subtasks -> Phases \union {NoPhase}]
    /\ Cap \in [Phases -> Nat]
    /\ Restarts \subseteq Subtasks \ {1}
    /\ Modes \subseteq {"staging", "sandbox"}
    /\ Env \subseteq Events

VARIABLES
    mode,   \* skipStagingTests
    st,     \* the status of the stored artifact
    art,    \* the progress in the stored artifact
    mem,    \* the progress as the process knows it
    box,    \* the sandbox directory
    host,   \* the commits applied to the host tree by the sandbox extract
    pc,     \* where the process is
    ses,    \* the coding session
    made,   \* the number of commits the agents have made
    procs,  \* the number of processes so far
    proof,  \* the commits in the sandbox when a subtask passed
    harm    \* what an abort or a Ctrl+C has done to the stored progress

vars == <<mode, st, art, mem, box, host, pc, ses, made, procs, proof, harm>>

Commits == 1 .. MaxCommits

\* runCommits, sandboxHostAppliedCommitCount, currentSubtaskIndex,
\* roundSummaries (how many per subtask), phaseAttemptCount,
\* transitionInProgress (its toSubtaskIndex, 0 for none), and the phases whose
\* implementation row has its phaseBaseRef.
Progress == [commits: Seq(Commits), applied: Nat, cursor: Subtasks,
             tries: [Subtasks -> Nat], budget: [Phases -> Nat],
             transition: 0 .. N, based: SUBSET Phases]

NoTries  == [i \in Subtasks |-> 0]
NoBudget == [p \in Phases |-> 0]

Fresh == [commits |-> <<>>, applied |-> 0, cursor |-> 1, tries |-> NoTries,
          budget |-> NoBudget, transition |-> 0, based |-> {}]

\* flushed: run-commits.json is there, and file is what it holds.
\* count: sandbox-host-applied-commit-count.txt (0: not there).  scripts: whose
\* startup, install and Cedar scripts the directory holds ({}: the run's own).
Box == [there: BOOLEAN, head: Seq(Commits), flushed: BOOLEAN,
        file: Seq(Commits), count: Nat, scripts: SUBSET Subtasks]

NewBox(commits) == [there |-> TRUE, head |-> commits, flushed |-> FALSE,
                    file |-> <<>>, count |-> 0, scripts |-> {}]

NoBox == [NewBox(<<>>) EXCEPT !.there = FALSE]

\* pre: perSubtaskPreRoundHead.  since: pausePreRoundHead (both as lengths of
\* the history).  round: how many commits of the round the ledger holds.
\* moving: the driver has returned `transition`.  tested: what the tests last
\* passed on.
Session == [pre: Nat, since: Nat, round: Nat,
            abort: {"none", "pause", "stop", "timeout", "exited"},
            term: {"none", "success", "failed"},
            out: {"none", "success", "failed", "stopped", "paused"},
            moving: BOOLEAN, tested: SUBSET Commits]

NoSession == [pre |-> 0, since |-> 0, round |-> 0, abort |-> "none", term |-> "none",
              out |-> "none", moving |-> FALSE, tested |-> {}]

\* Where a process is: before a session, in one, after it.
\* Handling is onSubtaskComplete, between two rounds of the agent.
Handling == {"sync", "judge", "undo", "verify", "testing", "exhausted",
             "aborted", "passed", "complete", "advance", "budget"}
InSession == {"work", "drained"} \union Handling
Locations == {"off", "presync", "recover", "boot", "refresh", "applying", "closing"}
                 \union InSession

TypeOK ==
    /\ mode \in Modes
    /\ st \in {"starting", "running", "paused", "failed", "completed"}
    /\ art \in Progress /\ mem \in Progress
    /\ box \in Box
    /\ host \in Seq(Commits)
    /\ pc \in Locations
    /\ ses \in Session
    /\ made \in 0 .. MaxCommits /\ procs \in Nat
    /\ proof \in [Subtasks -> SUBSET Commits]
    /\ harm \subseteq {"commits", "budget", "doubled", "boundary"}

Upto(s, n) == SubSeq(s, 1, n)
After(s, n) == SubSeq(s, n + 1, Len(s))

\* Every diff applies once: what a list of commits needs to be replayed.
Replays(commits) == IsInjective(commits)

\* The boot-time scripts subtask i runs with, named by the subtasks that have
\* changed them: one that needs no restart has those of the one before.
ScriptsOf(i) == {j \in Restarts \union {1} : j <= i}

\* recordPhaseBaseRefIfImpl: the first subtask of a phase is its implementation.
IsImpl(i) == \A j \in Subtasks : PhaseOf[j] = PhaseOf[i] => i <= j
Based(m) ==
    IF PhaseOf[m.cursor] # NoPhase /\ IsImpl(m.cursor)
    THEN [m EXCEPT !.based = @ \union {PhaseOf[m.cursor]}] ELSE m

Init ==
    /\ mode \in Modes
    /\ st = "running" /\ art = Fresh /\ mem = Based(Fresh)
    /\ box = NewBox(<<>>)
    /\ host = <<>>
    /\ pc = "presync" /\ ses = NoSession
    /\ made = 0 /\ procs = 1
    /\ proof = [i \in Subtasks |-> {}]
    /\ harm = {}

-----------------------------------------------------------------------------
(* Helpers. *)

Goto(l) == pc' = l
FirstAbort(old, new) == IF old = "none" THEN new ELSE old

\* persistArtifact: the artifact is the progress in memory, if the save succeeds.
Saved(m) == {m} \union (IF "storage" \in Env THEN {art} ELSE {})
Remember(m) == mem' = m /\ art' \in Saved(m)

\* The save that must reach the disk.
SaveOrThrow(m) == art' = m

\* bumpPhaseAttemptCount.
\* Mutant: only the attempts of implementations count.
CountedForImpl(m) ==
    IF PhaseOf[m.cursor] = NoPhase \/ ~IsImpl(m.cursor) THEN m
    ELSE [m EXCEPT !.budget[PhaseOf[m.cursor]] = @ + 1]
Counted(m) ==
    IF PhaseOf[m.cursor] = NoPhase THEN m
    ELSE [m EXCEPT !.budget[PhaseOf[m.cursor]] = @ + 1]

\* A round has been summarised.
\* Mutant: the summary is dropped.
TriedNot(m) == m
Tried(m) == [m EXCEPT !.tries[m.cursor] = @ + 1]

Round == After(box.head, ses.pre)

\* A subtask has passed: its round is no part of the next one's.
\* Mutant: the base of the round stays.
RebaseNot == [ses EXCEPT !.round = 0, !.tested = {}]
Rebase == [ses EXCEPT !.pre = Len(box.head), !.round = 0, !.tested = {}]

\* refreshActiveSandboxScriptsForCursor.
Refreshed == ScriptsOf(mem.cursor)

\* The loop throws: withCleanup takes the run for failed.
Throw == ses' = [ses EXCEPT !.out = "failed"] /\ Goto("closing")

\* What a process knows goes with it.
Exit == pc' = "off" /\ mem' = Fresh /\ ses' = NoSession

\* The outcome of a session by what has aborted it.
OutcomeOf == [pause |-> "paused", stop |-> "stopped", timeout |-> "failed"]

World == <<mode, st, host, made, procs, proof, harm>>

-----------------------------------------------------------------------------
(* Before a coding session. *)

\* The last look at the stored signal before a container is started.
PreRoundSync ==
    /\ pc = "presync"
    /\ \/ /\ \E signal \in {"pause", "stop"} \intersect Env :
               ses' = [ses EXCEPT !.out = OutcomeOf[signal]]
          /\ Goto("closing")
       \/ /\ Goto(IF mem.transition # 0 THEN "recover" ELSE "boot")
          /\ UNCHANGED ses
    /\ UNCHANGED <<art, mem, box, World>>

\* completeControlledRestart, after a restart and after a crash in one: the
\* scripts of the active subtask first, the flag after them.
CompleteRestart ==
    /\ pc \in {"recover", "refresh"}
    /\ box' = [box EXCEPT !.scripts = Refreshed]
    /\ Remember([mem EXCEPT !.transition = 0])
    /\ ses' = [ses EXCEPT !.moving = FALSE]
    /\ Goto("boot")
    /\ UNCHANGED World

\* The refresh of the scripts or the setup of the engine throws.
SetupThrows ==
    /\ pc \in {"recover", "refresh", "boot"} /\ "failure" \in Env
    /\ Throw
    /\ UNCHANGED <<art, mem, box, World>>

\* The engine is up: onInfraReady saves.
Boot ==
    /\ pc = "boot"
    /\ Remember(mem)
    /\ Goto("work")
    /\ UNCHANGED <<box, ses, World>>

-----------------------------------------------------------------------------
(* A coding session. *)

AgentCommits ==
    /\ pc = "work" /\ made < MaxCommits
    /\ made' = made + 1
    /\ box' = [box EXCEPT !.head = Append(@, made + 1)]
    /\ UNCHANGED <<mode, st, art, mem, host, pc, ses, procs, proof, harm>>

\* The watcher, a timer, or the end of the container.
Abort ==
    /\ pc \in InSession /\ ses.abort = "none"
    /\ \E why \in ({"pause", "stop", "timeout"} \intersect Env)
               \union (IF "container" \in Env THEN {"exited"} ELSE {}) :
          ses' = [ses EXCEPT !.abort = why]
    /\ UNCHANGED <<art, mem, box, pc, World>>

\* The driver sees the done file: the attempt counts for the phase.
AgentReports ==
    /\ pc = "work" /\ ses.abort = "none"
    /\ mem' = Counted(mem)
    /\ Goto("sync")
    /\ UNCHANGED <<art, box, ses, World>>

SessionDrains ==
    /\ pc = "work" /\ ses.abort # "none"
    /\ Goto("drained")
    /\ UNCHANGED <<art, mem, box, ses, World>>

-----------------------------------------------------------------------------
(* onSubtaskComplete. *)

\* A stored signal ends the session before the round is looked at; rules that
\* were used once are saved.
Sync ==
    /\ pc = "sync"
    /\ UNCHANGED <<mem, box, World>>
    /\ \/ /\ \E why \in {"pause", "stop"} \intersect Env :
               ses' = [ses EXCEPT !.abort = FirstAbort(@, why)]
          /\ Goto("drained") /\ UNCHANGED art
       \/ /\ art' \in {art, mem}
          /\ Goto("judge") /\ UNCHANGED ses

\* The round touches immutable tests: it is counted, then thrown away.
Violates ==
    /\ pc = "judge" /\ Round # <<>>
    /\ Remember(Tried(mem))
    /\ Goto("undo")
    /\ UNCHANGED <<box, ses, World>>

\* Mutant: no `git reset`.
ResetRoundNot ==
    /\ pc = "undo"
    /\ Goto("budget")
    /\ UNCHANGED <<art, mem, box, ses, World>>

\* The sandbox goes back to where the round began.
ResetRound ==
    /\ pc = "undo"
    /\ box' = [box EXCEPT !.head = Upto(@, ses.pre)]
    /\ Goto("budget")
    /\ UNCHANGED <<art, mem, ses, World>>

\* Nothing in the round and nothing before it: a failure, but for the last
\* subtask in sandbox mode.
NoChanges ==
    /\ pc = "judge" /\ box.head = <<>>
    /\ Remember(Tried(mem))
    /\ IF mode = "sandbox" /\ mem.cursor = N
       THEN ses' = [ses EXCEPT !.term = "success"] /\ Goto("drained")
       ELSE Goto("budget") /\ UNCHANGED ses
    /\ UNCHANGED <<box, World>>

\* The round goes into the ledger and into run-commits.json: a process that is
\* interrupted or killed in between leaves the file and what is stored, as one
\* that is before.
\* Mutant: the file holds the round alone.
AppendRoundAlone ==
    /\ pc = "judge" /\ box.head # <<>>
    /\ mem' = [mem EXCEPT !.commits = @ \o Round]
    /\ box' = [box EXCEPT !.flushed = TRUE, !.file = Round]
    /\ ses' = [ses EXCEPT !.round = Len(Round)]
    /\ Goto(IF mode = "staging" THEN "verify" ELSE "complete")
    /\ UNCHANGED <<art, World>>

AppendRound ==
    /\ pc = "judge" /\ box.head # <<>>
    /\ LET ledger == mem.commits \o Round
       IN  /\ mem' = [mem EXCEPT !.commits = ledger]
           /\ box' = IF ledger = <<>> THEN box
                     ELSE [box EXCEPT !.flushed = TRUE, !.file = ledger]
    /\ ses' = [ses EXCEPT !.round = Len(Round)]
    /\ Goto(IF mode = "staging" THEN "verify" ELSE "complete")
    /\ UNCHANGED <<art, World>>

\* The staging infrastructure comes and goes, with a save each time.
Verify ==
    /\ pc = "verify"
    /\ art' \in Saved(mem)
    /\ Goto("testing")
    /\ UNCHANGED <<mem, box, ses, World>>

\* `tests.none` with nothing else in scope: passed without a save.
Bypass ==
    /\ pc = "verify"
    /\ Goto("passed")
    /\ ses' = [ses EXCEPT !.tested = Range(box.head)]
    /\ UNCHANGED <<art, mem, box, World>>

TestsPass ==
    /\ pc = "testing"
    /\ ses' = [ses EXCEPT !.tested = Range(box.head)]
    /\ Goto("passed")
    /\ UNCHANGED <<art, mem, box, World>>

\* Failed or aborted: the save still holds the round.
TestsFail ==
    /\ pc = "testing"
    /\ Remember(Tried(mem))
    /\ \E verdict \in {"exhausted", "aborted"} : Goto(verdict)
    /\ UNCHANGED <<box, ses, World>>

\* What a handler that throws does to the session (runCodingPhase).
TestsThrow ==
    /\ pc = "testing" /\ "failure" \in Env
    /\ ses' = [ses EXCEPT !.abort = FirstAbort(@, "stop")]
    /\ Goto("drained")
    /\ UNCHANGED <<art, mem, box, World>>

WithoutRound == Upto(mem.commits, Len(mem.commits) - ses.round)

\* Out of the ledger and the file; the history follows.
\* Mutant: the ledger keeps the round.
DiscardRoundKeeps ==
    /\ pc = "exhausted"
    /\ Goto("undo")
    /\ UNCHANGED <<art, mem, box, ses, World>>

DiscardRound ==
    /\ pc = "exhausted"
    /\ mem' = [mem EXCEPT !.commits = WithoutRound]
    /\ box' = [box EXCEPT !.flushed = TRUE, !.file = WithoutRound]
    /\ ses' = [ses EXCEPT !.round = 0]
    /\ Goto("undo")
    /\ UNCHANGED <<art, World>>

\* Out of the ledger and the file; the run ends.
GiveUp ==
    /\ pc = "aborted"
    /\ mem' = [mem EXCEPT !.commits = WithoutRound]
    /\ box' = [box EXCEPT !.flushed = TRUE, !.file = WithoutRound]
    /\ ses' = [ses EXCEPT !.round = 0, !.term = "failed", !.abort = FirstAbort(@, "stop")]
    /\ Goto("drained")
    /\ UNCHANGED <<art, World>>

\* The subtask has passed: its summary is saved, still under the old cursor.
Pass ==
    /\ pc \in {"passed", "complete"}
    /\ Remember(Tried(mem))
    /\ proof' = [proof EXCEPT ![mem.cursor] = Range(box.head)]
    /\ Goto("advance")
    /\ UNCHANGED <<mode, st, box, host, ses, made, procs, harm>>

\* applyIncrementalHostExtract: `git apply` of the commits that the host does
\* not have yet, all or nothing.  A commit does not apply twice.
Extracts(new) == Replays(new) /\ Range(new) \intersect Range(host) = {}

HostExtract ==
    LET new == After(mem.commits, mem.applied)
    IN  \/ /\ new # <<>> /\ Extracts(new) /\ mode = "sandbox"
           /\ host' = host \o new
        \/ /\ new = <<>> \/ ~Extracts(new) \/ mode = "staging" \/ "failure" \in Env
           /\ UNCHANGED host

\* How many commits the process takes for applied after an extract.
\* Mutant: whether or not `git apply` has worked.
AppliedAnyway == Len(mem.commits)
Applied == IF host' # host THEN Len(mem.commits) ELSE mem.applied

\* The next subtask; tryStartTransition when it needs a fresh container.  The
\* flag must reach the disk: a save that fails throws, and the driver stops.
Advance ==
    /\ pc = "advance" /\ mem.cursor < N
    /\ HostExtract
    /\ LET next == Based([mem EXCEPT !.cursor = @ + 1, !.applied = Applied])
           flag == [next EXCEPT !.transition = next.cursor]
       IN  \/ /\ next.cursor \notin Restarts
              /\ mem' = next /\ ses' = Rebase
              /\ Goto("work") /\ UNCHANGED <<art, harm>>
           \/ /\ next.cursor \in Restarts
              /\ mem' = flag /\ SaveOrThrow(flag)
              /\ ses' = [Rebase EXCEPT !.moving = TRUE]
              /\ Goto("drained") /\ UNCHANGED harm
           \/ /\ next.cursor \in Restarts /\ "storage" \in Env
              /\ mem' = next /\ UNCHANGED art
              /\ ses' = [Rebase EXCEPT !.abort = FirstAbort(@, "stop")]
              /\ Goto("drained") /\ harm' = harm \union {"boundary"}
    /\ box' = [box EXCEPT !.count = IF host' # host THEN Len(mem.commits) ELSE @]
    /\ UNCHANGED <<mode, st, made, procs, proof>>

\* The last subtask: the session may exit.
Finish ==
    /\ pc = "advance" /\ mem.cursor = N
    /\ HostExtract
    /\ mem' = [mem EXCEPT !.applied = Applied]
    /\ box' = [box EXCEPT !.count = IF host' # host THEN Len(mem.commits) ELSE @]
    /\ ses' = [ses EXCEPT !.term = "success"]
    /\ Goto("drained")
    /\ UNCHANGED <<mode, st, art, made, procs, proof, harm>>

\* checkPhaseBudgetExhausted, subtaskAttemptNumber: another attempt, or none.
PhaseSpent(m) ==
    LET p == PhaseOf[m.cursor]
    IN  p # NoPhase /\ Cap[p] # 0 /\ m.budget[p] >= Cap[p]

Budget ==
    /\ pc = "budget"
    /\ IF PhaseSpent(mem) \/ 1 + mem.tries[mem.cursor] > MaxRuns
       THEN /\ ses' = [ses EXCEPT !.term = "failed", !.abort = FirstAbort(@, "stop")]
            /\ Goto("drained")
       ELSE Goto("work") /\ UNCHANGED ses
    /\ UNCHANGED <<art, mem, box, World>>

-----------------------------------------------------------------------------
(* After a session: runCodingPhase's outcome, and what the loop makes of it. *)

\* The engine is gone: a session that nothing has aborted is over all the same.
Ended == [ses EXCEPT !.abort = FirstAbort(@, "exited")]

\* A success of a tested run goes to the host; any success removes the sandbox.
DrainsFinished ==
    /\ pc = "drained" /\ ses.term # "none"
    /\ ses' = [Ended EXCEPT !.out = ses.term]
    /\ IF ses.term = "success" /\ mode = "staging"
       THEN Goto("applying") /\ UNCHANGED box
       ELSE /\ box' = IF ses.term = "success" THEN NoBox ELSE box
            /\ Goto("closing")
    /\ UNCHANGED <<art, mem, World>>

\* Pause, stop, timeout: every commit since the process began is kept, those that
\* the ledger has already included.
DrainsAborted ==
    /\ pc = "drained" /\ ses.term = "none"
    /\ ses.abort \in DOMAIN OutcomeOf
    /\ ses' = [ses EXCEPT !.out = OutcomeOf[ses.abort], !.moving = FALSE]
    /\ LET kept == After(box.head, ses.since)
       IN  /\ mem' = [mem EXCEPT !.commits = @ \o kept]
           /\ harm' = IF Range(kept) \intersect Range(mem.commits) = {} THEN harm
                      ELSE harm \union {"doubled"}
    /\ Goto("closing")
    /\ UNCHANGED <<mode, st, art, box, host, made, procs, proof>>

DrainsOver ==
    /\ pc = "drained" /\ ses.term = "none" /\ ses.abort \in {"none", "exited"}
    /\ IF ses.moving
       THEN ses' = Ended /\ Goto("refresh")
       ELSE ses' = [Ended EXCEPT !.out = "failed"] /\ Goto("closing")
    /\ UNCHANGED <<art, mem, box, World>>

\* applyPatchToHost: the commits of the ledger, one after another.
ApplyToHost ==
    /\ pc = "applying"
    /\ \/ /\ Replays(mem.commits)
          /\ ses' = [ses EXCEPT !.out = "success"]
          /\ box' = NoBox
          /\ Goto("closing")
       \/ /\ ~Replays(mem.commits) \/ "failure" \in Env
          /\ Throw /\ UNCHANGED box
    /\ UNCHANGED <<art, mem, World>>

FinalStatus ==
    CASE ses.out = "success" -> "completed"
      [] ses.out = "paused"  -> "paused"
      [] OTHER               -> "failed"

\* savePausedArtifact, cleanupAndSaveRun.
Close ==
    /\ pc = "closing"
    /\ \/ art' = mem /\ st' = FinalStatus
       \/ "storage" \in Env /\ UNCHANGED <<art, st>>
    /\ box' = IF ses.out = "paused" THEN box ELSE NoBox
    /\ Exit
    /\ UNCHANGED <<mode, host, made, procs, proof, harm>>

-----------------------------------------------------------------------------
(* Processes that end early. *)

\* saveRunOnError: the commits of run-commits.json (none if it is not there)
\* with the cursor, the subtask rows and the summaries of the stored artifact;
\* the phase budgets and the transition are not carried over.
\* Mutant: the rows are those of the inputs.
KeptFromInputs ==
    [art EXCEPT !.commits = IF box.flushed THEN box.file ELSE <<>>, !.based = {}]
Kept ==
    [art EXCEPT !.commits = IF box.flushed THEN box.file ELSE <<>>,
                !.applied = IF box.count # 0 THEN box.count ELSE @,
                !.budget = NoBudget, !.transition = 0]

\* Ctrl+C.  A stale copy saves nothing; the sandbox is removed either way.
Interrupt ==
    /\ pc # "off" /\ "sigint" \in Env
    /\ \/ /\ art' = Kept /\ st' = "failed"
          /\ harm' = harm
                \union (IF box.flushed \/ art.commits = <<>> THEN {} ELSE {"commits"})
                \union (IF art.budget = NoBudget THEN {} ELSE {"budget"})
       \/ UNCHANGED <<art, st, harm>>
    /\ box' = NoBox
    /\ Exit
    /\ UNCHANGED <<mode, host, made, procs, proof>>

\* The sandbox of a killed process stays, but nobody looks at it again.
Crash ==
    /\ pc # "off" /\ "crash" \in Env
    /\ box' = NoBox
    /\ Exit
    /\ UNCHANGED <<art, World>>

\* `run stop --force` on what a dead process has left.
ForceStop ==
    /\ pc = "off" /\ st \in {"starting", "running"}
    /\ st' = "failed"
    /\ UNCHANGED <<mode, art, mem, box, host, pc, ses, made, procs, proof, harm>>

-----------------------------------------------------------------------------
(* The next process. *)

\* setStatusRunning stores the artifact it started from without the round
\* summaries, the phase budgets and the transition: the next save has them.
Begin(sandbox) ==
    /\ procs < MaxProcs
    /\ procs' = procs + 1
    /\ box' = sandbox
    /\ st' = "running"
    /\ art' = [art EXCEPT !.tries = NoTries, !.budget = NoBudget, !.transition = 0]
    /\ mem' = Based(art)
    /\ ses' = [NoSession EXCEPT !.pre = Len(sandbox.head), !.since = Len(sandbox.head)]
    /\ Goto("presync")
    /\ UNCHANGED <<mode, host, made, proof, harm>>

\* `run start`: a new sandbox, in which the stored commits are replayed.  `run
\* test` is no other: the testOnly it asks for does not reach the loop.
Start ==
    /\ pc = "off" /\ st \in {"failed", "completed"} /\ Replays(art.commits)
    /\ Begin(NewBox(art.commits))

\* Commits that cannot be replayed: the start throws after it has reserved the
\* run.
StartThrows ==
    /\ pc = "off" /\ st \in {"failed", "completed"} /\ ~Replays(art.commits)
    /\ procs < MaxProcs
    /\ procs' = procs + 1 /\ st' = "starting"
    /\ UNCHANGED <<mode, art, mem, box, host, pc, ses, made, proof, harm>>

\* `run resume`: the sandbox of the paused run as it is.
Resume ==
    /\ pc = "off" /\ st = "paused" /\ box.there
    /\ Begin(box)

\* `run resume` when the containers are gone: a start that needs the commits to
\* replay, but takes the sandbox that is there, with the run's own scripts.
ResumeRebuilds ==
    /\ pc = "off" /\ st = "paused" /\ Replays(art.commits)
    /\ Begin(IF box.there THEN [box EXCEPT !.scripts = {}] ELSE NewBox(art.commits))

-----------------------------------------------------------------------------
Driver ==
    \/ PreRoundSync \/ CompleteRestart \/ SetupThrows \/ Boot
    \/ AgentReports \/ SessionDrains
    \/ Sync \/ Violates \/ ResetRound \/ NoChanges \/ AppendRound
    \/ Verify \/ Bypass \/ TestsPass \/ TestsFail \/ TestsThrow
    \/ DiscardRound \/ GiveUp \/ Pass \/ Advance \/ Finish \/ Budget
    \/ DrainsFinished \/ DrainsAborted \/ DrainsOver
    \/ ApplyToHost \/ Close

Next ==
    \/ Driver
    \/ AgentCommits \/ Abort
    \/ Interrupt \/ Crash \/ ForceStop
    \/ Start \/ StartThrows \/ Resume \/ ResumeRebuilds

Spec == Init /\ [][Next]_vars

\* The process takes its next step as long as it lives; the agent ends its
\* rounds (its gate retries are bounded by the shell).
FairSpec == Spec /\ WF_vars(Driver)

-----------------------------------------------------------------------------
(* Properties. *)

Earned(commits, i) == proof[i] \subseteq Range(commits)

\* The agent is set to work on a history that holds the commits of the ledger
\* and no other: nothing of a discarded round is left in the sandbox, and nothing
\* that is counted as done is missing from it.
AgentStartsFromLedger ==
    [][pc # "work" /\ pc' = "work" => Range(mem'.commits) = Range(box'.head)]_vars

\* A stored cursor never claims a subtask whose commits are not stored with it,
\* however the process ended, but for a Ctrl+C before run-commits.json is there.
StoredProgressIsWhole ==
    "commits" \notin harm =>
        \A i \in 1 .. (art.cursor - 1) : Earned(art.commits, i)

\* What goes to the host is what the tests last passed on.
DeliversWhatWasTested ==
    pc = "applying" => Range(mem.commits) = ses.tested

\* A commit is in the ledger twice only when a session was aborted after one of
\* its rounds had been taken over: the ledger of an undisturbed run replays.
CommitsOnce ==
    "doubled" \notin harm => Replays(mem.commits) /\ Replays(art.commits)

\* Commits the run takes for applied to the host are on it.
AppliedIsOnHost ==
    harm = {} => Range(Upto(art.commits, art.applied)) \subseteq Range(host)

\* While a controlled restart is under way, the stored artifact says so.
TransitionOnDisk ==
    pc = "refresh" \/ (pc = "drained" /\ ses.moving) =>
        art.transition = mem.cursor /\ art.cursor = mem.cursor

\* No session works with the boot scripts of a subtask that is not the active one.
FreshScripts ==
    pc \in {"work"} \union Handling /\ box.scripts # {} /\ "boundary" \notin harm =>
        box.scripts = ScriptsOf(mem.cursor)

\* The attempts at the subtasks of a phase that have been summarised.
Attempts(m, p) ==
    UNION {{i} \X (1 .. m.tries[i]) : i \in {j \in Subtasks : PhaseOf[j] = p}}

\* Every summarised attempt of a subtask has counted for its phase; and a phase
\* at its cap gets at most one more attempt for each of its later subtasks, and
\* one for each process that was started on the run again.
BudgetsCount ==
    /\ "budget" \notin harm =>
           \A m \in {art, mem} : \A p \in Phases : Cardinality(Attempts(m, p)) <= m.budget[p]
    /\ \A p \in Phases : Cap[p] # 0 =>
           mem.budget[p] <= Cap[p] + Cardinality({i \in Subtasks : PhaseOf[i] = p}) - 1 + procs - 1

\* A critic has the base of its phase to render into its prompt.
CriticHasBase ==
    pc \in InSession /\ PhaseOf[mem.cursor] # NoPhase => PhaseOf[mem.cursor] \in mem.based

\* A stored cursor never goes back: what is recorded as passed is not run again.
CursorNeverGoesBack == [][art'.cursor >= art.cursor]_vars

\* Every process comes to an end, and leaves the run to the next.
EveryProcessEnds == []<>(pc = "off")
=============================================================================
