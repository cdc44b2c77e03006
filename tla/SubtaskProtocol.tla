-------------------------- MODULE SubtaskProtocol --------------------------
(***************************************************************************)
(* The coding sessions of one orchestrator: the host driver                *)
(* (driveSubtasks) and the shell in the coder container (coder-start.sh)   *)
(* hand subtasks to each other through four files in /workspace/.saifctl,  *)
(* while the engine, pause and stop requests and dying containers end the  *)
(* session under them.                                                     *)
(***************************************************************************)
EXTENDS Naturals

CONSTANTS
    N,            \* the number of subtasks
    Overrides,    \* the subtasks that declare their own gate retries
    Restarts,     \* the subtasks that need a fresh container
    MaxRuns,      \* --max-runs: attempts per subtask
    MaxSessions,  \* bound of the model: no resume from this session on
    Env           \* the events of the environment that may happen

Subtasks == 1 .. N

ASSUME ProtocolAssumption ==
    /\ N \in Nat \ {0} /\ MaxRuns \in Nat \ {0} /\ MaxSessions \in Nat
    /\ Overrides \subseteq Subtasks
    /\ Restarts \subseteq Subtasks \ {1}
    /\ Env \subseteq {"pause", "stop", "crash"}

VARIABLES
    dir,      \* the signal files
    shell,    \* coder-start.sh in the container of the session
    host,     \* driveSubtasks
    eng,      \* runEngineAttempt: the container and its infrastructure
    abort,    \* codingAbort: the first reason wins
    signal,   \* the controlSignal of the stored artifact
    run       \* what runIterativeLoop remembers between sessions

vars == <<dir, shell, host, eng, abort, signal, run>>

\* A prompt stands for one attempt at one subtask; sess tells the sessions
\* apart, so that a file of an earlier session can be recognised.
Task == [sub: Subtasks, try: Nat \ {0}, sess: Nat]
NoTask == [sub |-> 0, try |-> 0, sess |-> 0]
MaybeTask == Task \union {NoTask}

\* done: the attempt whose exit code the file reports.  retries: the
\* subtask whose override the file holds (0: no file).
Dir == [done: MaybeTask, next: MaybeTask, exit: BOOLEAN, retries: 0 .. N]

NoFiles == [done |-> NoTask, next |-> NoTask, exit |-> FALSE, retries |-> 0]

\* ok: exit status of run_subtask.  budget: whose override is in effect.
\* signaled: _subtask_done_signaled.
Shell == [pc: {"boot", "loop", "run", "signal", "wait", "dead"},
          task: Task, ok: BOOLEAN, budget: 0 .. N, signaled: BOOLEAN]

Boots(task) == [pc |-> "boot", task |-> task, ok |-> FALSE, budget |-> 0, signaled |-> FALSE]

Host == [pc: {"poll", "handle", "verify", "retries", "prompt", "exit", "over"}, got: MaybeTask]

\* cursor, tries: subtaskCursorIndex and subtaskAttemptNumber.  prompt: the
\* first prompt, built before the coding loop.  term: runTerminal.result.
Run == [cursor: Subtasks, tries: Nat \ {0}, sess: Nat, prompt: Task,
        term: {"none", "success", "failed"}, transition: BOOLEAN,
        out: {"none", "success", "failed", "stopped", "paused"}]

TypeOK ==
    /\ dir \in Dir
    /\ shell \in Shell
    /\ host \in Host
    /\ eng \in {"on", "ended"}
    /\ abort \in {"none", "pause", "stop", "exited"}
    /\ signal \in {"none", "pause", "stop"}
    /\ run \in Run

\* The attempt the host is waiting for.
Current == [sub |-> run.cursor, try |-> run.tries, sess |-> run.sess]

Init ==
    /\ dir = NoFiles
    /\ run = [cursor |-> 1, tries |-> 1, sess |-> 1,
              prompt |-> [sub |-> 1, try |-> 1, sess |-> 1],
              term |-> "none", transition |-> FALSE, out |-> "none"]
    /\ shell = Boots(Current)
    /\ host = [pc |-> "poll", got |-> NoTask]
    /\ eng = "on" /\ abort = "none" /\ signal = "none"

Alive == shell.pc # "dead"
Live == run.out = "none"

FirstAbort(reason) == abort' = IF abort = "none" THEN reason ELSE abort
HostTo(pc) == host' = [host EXCEPT !.pc = pc]
ShellTo(pc) == shell' = [shell EXCEPT !.pc = pc]

Outside == <<eng, abort, signal, run>>

-----------------------------------------------------------------------------
(* coder-start.sh. *)

\* Startup and installation, then the head of the subtask loop: the flag is
\* reset, the retries override is read and removed.
ShellStarts ==
    /\ shell.pc = "boot"
    /\ ShellTo("loop")
    /\ UNCHANGED <<dir, host, Outside>>

\* Mutant: the override file is read and left.
ShellKeepsOverride ==
    /\ shell.pc = "loop"
    /\ shell' = [shell EXCEPT !.pc = "run", !.ok = FALSE, !.signaled = FALSE,
                              !.budget = dir.retries]
    /\ UNCHANGED <<dir, host, Outside>>

ShellBeginsSubtask ==
    /\ shell.pc = "loop"
    /\ shell' = [shell EXCEPT !.pc = "run", !.ok = FALSE, !.signaled = FALSE,
                              !.budget = dir.retries]
    /\ dir' = [dir EXCEPT !.retries = 0]
    /\ UNCHANGED <<host, Outside>>

\* The inner rounds: agent, gate and reviewer, up to the retries.
RunSubtask ==
    /\ shell.pc = "run"
    /\ \E ok \in BOOLEAN : shell' = [shell EXCEPT !.pc = "signal", !.ok = ok]
    /\ UNCHANGED <<dir, host, Outside>>

\* write_subtask_done_signal: at most one report per iteration.
Reported == IF shell.signaled THEN dir ELSE [dir EXCEPT !.done = shell.task]

WriteSubtaskDone ==
    /\ shell.pc = "signal"
    /\ dir' = Reported
    /\ shell' = [shell EXCEPT !.signaled = TRUE, !.pc = IF shell.ok THEN "wait" ELSE "dead"]
    /\ UNCHANGED <<host, Outside>>

ShellExits ==
    /\ shell.pc = "wait" /\ dir.exit
    /\ ShellTo("dead")
    /\ UNCHANGED <<dir, host, Outside>>

\* Mutant: the prompt is read and not moved away.
ShellLeavesNext ==
    /\ shell.pc = "wait" /\ ~dir.exit /\ dir.next # NoTask
    /\ shell' = [shell EXCEPT !.pc = "loop", !.task = dir.next]
    /\ UNCHANGED <<dir, host, Outside>>

ShellTakesNext ==
    /\ shell.pc = "wait" /\ ~dir.exit /\ dir.next # NoTask
    /\ shell' = [shell EXCEPT !.pc = "loop", !.task = dir.next]
    /\ dir' = [dir EXCEPT !.next = NoTask]
    /\ UNCHANGED <<host, Outside>>

\* A failing command under `set -e` runs the EXIT trap; SIGKILL does not.
ShellDies ==
    /\ "crash" \in Env /\ Alive
    /\ ShellTo("dead")
    /\ dir' \in {dir, Reported}
    /\ UNCHANGED <<host, Outside>>

Shells == \/ ShellStarts \/ ShellBeginsSubtask \/ RunSubtask
          \/ WriteSubtaskDone \/ ShellExits \/ ShellTakesNext

-----------------------------------------------------------------------------
(* driveSubtasks and onSubtaskComplete. *)

\* Mutant: the report is read and not removed.
PollLeavesDone ==
    /\ host.pc = "poll" /\ abort = "none" /\ dir.done # NoTask
    /\ host' = [pc |-> "handle", got |-> dir.done]
    /\ UNCHANGED <<dir, shell, Outside>>

PollSubtaskDone ==
    /\ host.pc = "poll" /\ abort = "none" /\ dir.done # NoTask
    /\ host' = [pc |-> "handle", got |-> dir.done]
    /\ dir' = [dir EXCEPT !.done = NoTask]
    /\ UNCHANGED <<shell, Outside>>

PollAborted ==
    /\ host.pc = "poll" /\ abort # "none"
    /\ HostTo("over")
    /\ UNCHANGED <<dir, shell, Outside>>

\* onSubtaskComplete reads the artifact before anything else.
SyncControl ==
    /\ host.pc = "handle"
    /\ IF signal = "none"
       THEN HostTo("verify") /\ UNCHANGED abort
       ELSE HostTo("over") /\ FirstAbort(signal)
    /\ UNCHANGED <<dir, shell, eng, signal, run>>

Advanced == [run EXCEPT !.cursor = run.cursor + 1, !.tries = 1]

\* The tests pass and a further subtask fits the running container.
PassedNext ==
    /\ host.pc = "verify" /\ run.cursor < N /\ run.cursor + 1 \notin Restarts
    /\ run' = Advanced
    /\ HostTo("retries")
    /\ UNCHANGED <<dir, shell, eng, abort, signal>>

\* The tests pass and the next subtask needs a fresh container.
PassedTransition ==
    /\ host.pc = "verify" /\ run.cursor < N /\ run.cursor + 1 \in Restarts
    /\ run' = [Advanced EXCEPT !.transition = TRUE]
    /\ HostTo("exit")
    /\ UNCHANGED <<dir, shell, eng, abort, signal>>

PassedLast ==
    /\ host.pc = "verify" /\ run.cursor = N
    /\ run' = [run EXCEPT !.term = "success"]
    /\ HostTo("exit")
    /\ UNCHANGED <<dir, shell, eng, abort, signal>>

\* The attempt counts, then the budget is compared.  A retry carries no
\* gateRetries.
AttemptFailed ==
    /\ host.pc = "verify"
    /\ LET tries == run.tries + 1 IN
         IF tries > MaxRuns
         THEN /\ run' = [run EXCEPT !.tries = tries, !.term = "failed"]
              /\ HostTo("over") /\ FirstAbort("stop")
         ELSE /\ run' = [run EXCEPT !.tries = tries]
              /\ HostTo("prompt") /\ UNCHANGED abort
    /\ UNCHANGED <<dir, shell, eng, signal>>

\* The tests are aborted, or onSubtaskComplete throws.
TestsAborted ==
    /\ "crash" \in Env /\ host.pc = "verify"
    /\ run' = [run EXCEPT !.tries = run.tries + 1, !.term = "failed"]
    /\ HostTo("over") /\ FirstAbort("stop")
    /\ UNCHANGED <<dir, shell, eng, signal>>

HandlerThrows ==
    /\ "crash" \in Env /\ host.pc = "verify"
    /\ HostTo("over") /\ FirstAbort("stop")
    /\ UNCHANGED <<dir, shell, eng, signal, run>>

\* `next`: the override first, then the prompt the shell waits for.
WriteRetriesOverride ==
    /\ host.pc = "retries"
    /\ dir' = IF run.cursor \in Overrides THEN [dir EXCEPT !.retries = run.cursor] ELSE dir
    /\ HostTo("prompt")
    /\ UNCHANGED <<shell, Outside>>

WriteNextPrompt ==
    /\ host.pc = "prompt"
    /\ dir' = [dir EXCEPT !.next = Current]
    /\ HostTo("poll")
    /\ UNCHANGED <<shell, Outside>>

WriteExitSignal ==
    /\ host.pc = "exit"
    /\ dir' = [dir EXCEPT !.exit = TRUE]
    /\ HostTo("over")
    /\ UNCHANGED <<shell, Outside>>

Judge == \/ PassedNext \/ PassedTransition \/ PassedLast
         \/ AttemptFailed \/ TestsAborted \/ HandlerThrows

Drives == \/ PollSubtaskDone \/ PollAborted \/ SyncControl \/ Judge
          \/ WriteRetriesOverride \/ WriteNextPrompt \/ WriteExitSignal

-----------------------------------------------------------------------------
(* The engine, the requests and the sessions. *)

\* Mutant: nothing releases the driver.
EngineExitsAlone ==
    /\ eng = "on" /\ ~Alive
    /\ eng' = "ended"
    /\ UNCHANGED <<dir, shell, host, abort, signal, run>>

\* The container is gone: the engine settles, and wireEngineExitedAbort
\* releases the driver.
EngineExits ==
    /\ eng = "on" /\ ~Alive
    /\ eng' = "ended"
    /\ FirstAbort("exited")
    /\ UNCHANGED <<dir, shell, host, signal, run>>

\* An abort kills the container, with or without the EXIT trap.
EngineAborted ==
    /\ eng = "on" /\ Alive /\ abort # "none"
    /\ eng' = "ended"
    /\ ShellTo("dead")
    /\ dir' \in {dir, Reported}
    /\ UNCHANGED <<host, abort, signal, run>>

Request ==
    /\ Live /\ signal = "none"
    /\ signal' \in {"pause", "stop"} \intersect Env
    /\ UNCHANGED <<dir, shell, host, eng, abort, run>>

\* The rules watcher sees the request.
WatcherTick ==
    /\ Live /\ signal # "none" /\ abort = "none"
    /\ abort' = signal
    /\ UNCHANGED <<dir, shell, host, eng, signal, run>>

BothEnded == Live /\ eng = "ended" /\ host.pc = "over"
Requested == abort \in {"pause", "stop"}

\* The outcome of the coding phase: a verdict of onSubtaskComplete comes
\* first, then pause and stop; a session that just ended has failed.
PhaseOutcome ==
    IF run.term # "none" THEN run.term
    ELSE IF abort = "pause" THEN "paused"
    ELSE IF abort = "stop" THEN "stopped" ELSE "failed"

PhaseEnds ==
    /\ BothEnded /\ ~(run.transition /\ ~Requested)
    /\ run' = [run EXCEPT !.out = PhaseOutcome]
    /\ UNCHANGED <<dir, shell, host, eng, abort, signal>>

\* completeControlledRestart, and the coding loop again: the first prompt,
\* the abort controller and the files are those of the session before.
Transitioned ==
    /\ BothEnded /\ run.transition /\ ~Requested
    /\ run' = [run EXCEPT !.transition = FALSE, !.sess = run.sess + 1]
    /\ shell' = Boots(run.prompt)
    /\ host' = [pc |-> "poll", got |-> NoTask]
    /\ eng' = "on"
    /\ UNCHANGED <<dir, abort, signal>>

\* Mutant: the report of the session before is kept.
PrepareButDone == [NoFiles EXCEPT !.done = dir.done]

\* prepareSubtaskSignalDir: the files of an earlier session are removed.
PrepareSignalDir == NoFiles

\* `run resume` or `run start`: another process takes the run over at the
\* stored cursor and attempt.
Resume ==
    /\ run.out \in {"paused", "stopped", "failed"} /\ run.sess < MaxSessions
    /\ LET first == [Current EXCEPT !.sess = run.sess + 1] IN
         /\ run' = [run EXCEPT !.sess = first.sess, !.prompt = first, !.out = "none",
                               !.term = "none", !.transition = FALSE]
         /\ shell' = Boots(first)
    /\ dir' = PrepareSignalDir
    /\ host' = [pc |-> "poll", got |-> NoTask]
    /\ eng' = "on" /\ abort' = "none" /\ signal' = "none"

Sessions == EngineExits \/ EngineAborted \/ PhaseEnds \/ Transitioned

Next == Shells \/ Drives \/ Sessions \/ ShellDies \/ Request \/ WatcherTick \/ Resume

\* The agent, the tests and the engine return: they run under the gate
\* retries and the wall-clock timers.  Nothing is assumed of requests,
\* crashes, the watcher or the user who resumes.
Spec == /\ Init /\ [][Next]_vars
        /\ WF_vars(Shells) /\ WF_vars(Drives) /\ WF_vars(Sessions)

-----------------------------------------------------------------------------
(* Properties. *)

\* The host judges a subtask on the report about the attempt it asked for,
\* never on one left by an earlier attempt or an earlier session
\* (pollSubtaskDone, prepareSubtaskSignalDir).
ResultIsOfTheRequest == host.pc \in {"handle", "verify"} => host.got = Current

\* While nothing has aborted the session, the agent works on what the host
\* waits for: a consumed prompt never comes back (subtask-next and its mv).
ShellFollowsHost ==
    abort = "none" /\ shell.pc \in {"run", "signal"} => shell.task = Current

\* The override that belongs to an attempt: none for the first attempt of a
\* session and for a retry.
Due(task) == IF task.sub \in Overrides /\ task.try = 1 /\ task # run.prompt
             THEN task.sub ELSE 0

\* A retries override is in force for the subtask it was written for, from
\* its first attempt, and for no other attempt (subtask-retries).
BudgetIsHandedOver ==
    abort = "none" /\ shell.pc = "run" =>
        shell.budget = Due(shell.task)

\* Host and shell never wait for each other with no file between them
\* (the deadlock the EXIT trap and wireEngineExitedAbort are there for).
NeverBothWaiting ==
    host.pc = "poll" /\ shell.pc = "wait" /\ abort = "none" =>
        dir.done # NoTask \/ dir.next # NoTask \/ dir.exit

\* A coding session ends, whatever happens to its container: Promise.all of
\* engine and driver settles.
SessionsEnd ==
    \A s \in 1 .. MaxSessions : run.sess = s ~> run.out # "none" \/ run.sess > s

\* Host, shell and files together implement the ordered, one-report-one-
\* judgement sequence of SubtaskSequence.
Work ==
    IF host.pc \in {"handle", "verify"} THEN IF host.got = Current THEN "reported" ELSE "none"
    ELSE IF dir.done = Current THEN "reported"
    ELSE IF shell.pc \in {"run", "signal"} /\ shell.task = Current THEN "busy"
    ELSE "none"

Sequence == INSTANCE SubtaskSequence WITH at <- run.cursor, tries <- run.tries, work <- Work

InSequence == Sequence!Spec

\* per-phase-config.md: after a controlled restart "the next pass boots a
\* fresh container".  A container that runs is not yet held to have exited.
FreshContainerMayWork == eng = "on" => abort # "exited"

-----------------------------------------------------------------------------
(* Inductive invariants (see SubtaskProtocol_proofs).                        *)

\* The driver has an attempt in hand.
HostBusy == host.pc \in {"handle", "verify", "retries", "prompt", "exit"}

\* The shell has an attempt in hand.
ShellBusy == shell.pc \in {"boot", "loop", "run", "signal"}

\* Exactly one of driver, shell, report and prompt holds the turn.  An aborted
\* session is over for the driver, whatever the shell still does.
TurnInv ==
    /\ eng = "ended" => abort # "none"
    /\ shell.pc = "wait" => shell.signaled
    /\ HostBusy => shell.pc \in {"wait", "dead"} /\ dir.done = NoTask /\ dir.next = NoTask
    /\ host.pc \in {"handle", "verify"} => host.got = Current
    /\ abort = "none" =>
        /\ ShellBusy => /\ host.pc = "poll" /\ shell.task = Current
                        /\ dir.done = NoTask /\ dir.next = NoTask
        /\ shell.pc \in {"run", "signal"} => ~shell.signaled
        /\ dir.done # NoTask => host.pc = "poll" /\ dir.done = Current /\ dir.next = NoTask
        /\ dir.next # NoTask => host.pc = "poll" /\ dir.next = Current
        /\ host.pc = "poll" /\ shell.pc = "wait" => dir.done # NoTask \/ dir.next # NoTask

\* The override file travels with the turn.
BudgetInv ==
    /\ run.prompt.sub <= run.cursor
    /\ host.pc \in {"handle", "verify", "retries"} => dir.retries = 0
    /\ host.pc = "retries" => run.tries = 1 /\ run.prompt.sub < run.cursor
    /\ host.pc = "prompt" => dir.retries = Due(Current)
    /\ abort = "none" =>
        /\ dir.done # NoTask => dir.retries = 0
        /\ dir.next # NoTask => dir.retries = Due(Current)
        /\ shell.pc = "boot" => shell.task = run.prompt
        /\ shell.pc = "loop" /\ ~shell.signaled => shell.task = run.prompt
        /\ shell.pc \in {"boot", "loop"} => dir.retries = Due(shell.task)
        /\ shell.pc = "run" => shell.budget = Due(shell.task)
        /\ shell.pc \in {"run", "signal"} => dir.retries = 0

=============================================================================
