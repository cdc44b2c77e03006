----------------------- MODULE SubtaskProtocol_proofs -----------------------
(***************************************************************************)
(* Proofs about SubtaskProtocol, for every number of subtasks, attempts    *)
(* and sessions, every choice of overrides and restarts, with every event. *)
(***************************************************************************)
EXTENDS SubtaskProtocol, TLAPS

LEMMA ConstantsTyped ==
    /\ N \in Nat \ {0} /\ MaxRuns \in Nat \ {0}
    /\ Overrides \subseteq 1 .. N
    /\ Restarts \subseteq 1 .. N
BY ProtocolAssumption DEF Subtasks

\* What a task is, without the set of tasks.
LEMMA TaskParts ==
    ASSUME NEW t \in Task
    PROVE  /\ t.sub \in 1 .. N /\ t.try \in Nat \ {0} /\ t.sess \in Nat
           /\ t # NoTask
BY ConstantsTyped DEF Task, NoTask, Subtasks

LEMMA CurrentTyped == ASSUME TypeOK PROVE Current \in Task
BY DEF TypeOK, Run, Current, Task

LEMMA BootsTyped == ASSUME NEW t \in Task PROVE Boots(t) \in Shell
BY ConstantsTyped DEF Boots, Shell

LEMMA ReportedTyped == ASSUME TypeOK PROVE Reported \in Dir
BY DEF TypeOK, Reported, Dir, Shell, MaybeTask

LEMMA NoFilesTyped == NoFiles \in Dir
BY ConstantsTyped DEF NoFiles, Dir, MaybeTask

-----------------------------------------------------------------------------
(* Types. *)

LEMMA ShellTyped == ASSUME TypeOK, Shells \/ ShellDies PROVE TypeOK'
<1> USE DEF TypeOK, Outside
<1>1. CASE ShellStarts
  BY <1>1 DEF ShellStarts, ShellTo, Shell
<1>2. CASE ShellBeginsSubtask
  <2>1. shell' \in Shell BY <1>2 DEF ShellBeginsSubtask, Shell, Dir
  <2>2. dir' \in Dir BY <1>2, ConstantsTyped DEF ShellBeginsSubtask, Dir
  <2> QED BY <1>2, <2>1, <2>2 DEF ShellBeginsSubtask
<1>3. CASE RunSubtask
  BY <1>3 DEF RunSubtask, Shell
<1>4. CASE WriteSubtaskDone
  BY <1>4, ReportedTyped DEF WriteSubtaskDone, Shell
<1>5. CASE ShellExits
  BY <1>5 DEF ShellExits, ShellTo, Shell
<1>6. CASE ShellTakesNext
  BY <1>6 DEF ShellTakesNext, Shell, Dir, MaybeTask
<1>7. CASE ShellDies
  BY <1>7, ReportedTyped DEF ShellDies, ShellTo, Shell
<1>8. \/ ShellStarts \/ ShellBeginsSubtask \/ RunSubtask \/ WriteSubtaskDone
      \/ ShellExits \/ ShellTakesNext \/ ShellDies
  BY DEF Shells
<1> HIDE DEF TypeOK
<1> QED BY <1>1, <1>2, <1>3, <1>4, <1>5, <1>6, <1>7, <1>8

LEMMA AdvancedTyped == ASSUME TypeOK, run.cursor < N PROVE Advanced \in Run
<1>1. run.cursor + 1 \in Subtasks
  <2>1. run.cursor \in 1 .. N BY DEF TypeOK, Run, Subtasks
  <2> QED BY <2>1, ConstantsTyped DEF Subtasks
<1>2. [run EXCEPT !.cursor = run.cursor + 1] \in Run BY <1>1 DEF TypeOK, Run
<1>3. ASSUME NEW r \in Run PROVE [r EXCEPT !.tries = 1] \in Run
  BY DEF Run
<1>4. [[run EXCEPT !.cursor = run.cursor + 1] EXCEPT !.tries = 1] \in Run
  BY <1>2, <1>3
<1> QED BY <1>4, Zenon DEF Advanced

LEMMA JudgeTyped == ASSUME TypeOK, Judge PROVE TypeOK'
<1> USE DEF TypeOK, HostTo, FirstAbort
<1>1. CASE PassedNext
  BY <1>1, AdvancedTyped DEF PassedNext, Host
<1>2. CASE PassedTransition
  <2>1. run' \in Run BY <1>2, AdvancedTyped DEF PassedTransition, Run
  <2> QED BY <1>2, <2>1 DEF PassedTransition, Host
<1>3. CASE PassedLast
  BY <1>3 DEF PassedLast, Host, Run
<1>4. CASE AttemptFailed
  <2>1. run.tries + 1 \in Nat \ {0} BY DEF Run
  <2>2. CASE run.tries + 1 > MaxRuns
    BY <1>4, <2>1, <2>2 DEF AttemptFailed, Host, Run
  <2>3. CASE ~(run.tries + 1 > MaxRuns)
    BY <1>4, <2>1, <2>3 DEF AttemptFailed, Host, Run
  <2> QED BY <2>2, <2>3
<1>5. CASE TestsAborted
  <2>1. run.tries + 1 \in Nat \ {0} BY DEF Run
  <2> QED BY <1>5, <2>1 DEF TestsAborted, Host, Run
<1>6. CASE HandlerThrows
  BY <1>6 DEF HandlerThrows, Host
<1> QED BY <1>1, <1>2, <1>3, <1>4, <1>5, <1>6 DEF Judge

LEMMA DrivesTyped == ASSUME TypeOK, Drives PROVE TypeOK'
<1> USE DEF TypeOK, HostTo, FirstAbort, Outside
<1>1. CASE PollSubtaskDone
  BY <1>1 DEF PollSubtaskDone, Host, Dir, MaybeTask
<1>2. CASE PollAborted
  BY <1>2 DEF PollAborted, Host
<1>3. CASE SyncControl
  BY <1>3 DEF SyncControl, Host
<1>4. CASE Judge
  BY <1>4, JudgeTyped
<1>5. CASE WriteRetriesOverride
  <2>1. dir' \in Dir BY <1>5, ConstantsTyped DEF WriteRetriesOverride, Dir, Run, Subtasks
  <2> QED BY <1>5, <2>1 DEF WriteRetriesOverride, Host
<1>6. CASE WriteNextPrompt
  BY <1>6, CurrentTyped DEF WriteNextPrompt, Host, Dir, MaybeTask
<1>7. CASE WriteExitSignal
  BY <1>7 DEF WriteExitSignal, Host, Dir
<1> QED BY <1>1, <1>2, <1>3, <1>4, <1>5, <1>6, <1>7 DEF Drives

LEMMA SessionsTyped ==
    ASSUME TypeOK, Sessions \/ Request \/ WatcherTick \/ Resume PROVE TypeOK'
<1> USE DEF TypeOK, FirstAbort
<1>1. CASE EngineExits
  BY <1>1 DEF EngineExits
<1>2. CASE EngineAborted
  BY <1>2, ReportedTyped DEF EngineAborted, ShellTo, Shell
<1>3. CASE PhaseEnds
  BY <1>3 DEF PhaseEnds, PhaseOutcome, Run
<1>4. CASE Transitioned
  <2>1. shell' \in Shell BY <1>4, BootsTyped DEF Transitioned, Run
  <2>2. host' \in Host BY <1>4 DEF Transitioned, Host, MaybeTask
  <2>3. run' \in Run
    <3>1. run.sess + 1 \in Nat BY DEF Run
    <3>2. [run EXCEPT !.sess = run.sess + 1] \in Run BY <3>1 DEF Run
    <3> QED BY <1>4, <3>2 DEF Transitioned, Run
  <2> QED BY <1>4, <2>1, <2>2, <2>3 DEF Transitioned
<1>5. CASE Request
  BY <1>5 DEF Request
<1>6. CASE WatcherTick
  BY <1>6 DEF WatcherTick
<1>7. CASE Resume
  <2> DEFINE first == [Current EXCEPT !.sess = run.sess + 1]
  <2>1. first \in Task BY CurrentTyped DEF Task, Run
  <2>2. /\ run' = [run EXCEPT !.sess = first.sess, !.prompt = first, !.out = "none",
                              !.term = "none", !.transition = FALSE]
        /\ shell' = Boots(first)
    BY <1>7 DEF Resume
  <2>3. run' \in Run
    <3>1. first.sess \in Nat BY <2>1 DEF Task
    <3> QED BY <2>1, <2>2, <3>1 DEF Run
  <2> QED BY <1>7, <2>1, <2>2, <2>3, BootsTyped, NoFilesTyped
          DEF Resume, PrepareSignalDir, Host, MaybeTask
<1> QED BY <1>1, <1>2, <1>3, <1>4, <1>5, <1>6, <1>7 DEF Sessions

\* Every reachable state is well typed.
THEOREM ProtocolTypes == Spec => []TypeOK
<1>1. Init => TypeOK
  <2> SUFFICES ASSUME Init PROVE TypeOK OBVIOUS
  <2>1. 1 \in Subtasks /\ 1 \in Nat \ {0} BY ConstantsTyped DEF Subtasks
  <2>2. run \in Run BY <2>1 DEF Init, Run, Task
  <2>3. Current \in Task BY <2>1 DEF Init, Current, Task
  <2> QED BY <2>2, <2>3, BootsTyped, NoFilesTyped DEF Init, TypeOK, Host, MaybeTask
<1>2. TypeOK /\ [Next]_vars => TypeOK'
  <2> SUFFICES ASSUME TypeOK, [Next]_vars PROVE TypeOK' OBVIOUS
  <2>1. CASE UNCHANGED vars BY <2>1 DEF vars, TypeOK
  <2> QED BY <2>1, ShellTyped, DrivesTyped, SessionsTyped DEF Next
<1> QED BY <1>1, <1>2, PTL DEF Spec

-----------------------------------------------------------------------------
(* The turn. *)

\* Init and the shell's own steps: the turn moves from the shell to its report
\* or from a prompt to the shell.
LEMMA TurnInitially == Init => TurnInv
<1> SUFFICES ASSUME Init PROVE TurnInv OBVIOUS
<1>1. /\ dir.done = NoTask /\ dir.next = NoTask /\ dir.exit = FALSE
      /\ shell.pc = "boot" /\ shell.task = Current /\ ~shell.signaled
      /\ host.pc = "poll" /\ eng = "on" /\ abort = "none"
  BY DEF Init, NoFiles, Boots
<1> QED BY <1>1 DEF TurnInv, HostBusy, ShellBusy

LEMMA ShellKeepsTurn == ASSUME TypeOK, TurnInv, Shells \/ ShellDies PROVE TurnInv'
<1>1. shell \in Shell /\ dir \in Dir /\ host \in Host BY DEF TypeOK
<1>2. Outside' = Outside /\ host' = host /\ Current' = Current
  BY DEF Shells, ShellStarts, ShellBeginsSubtask, RunSubtask, WriteSubtaskDone,
         ShellExits, ShellTakesNext, ShellDies, Outside, Current
<1>3. Current # NoTask BY CurrentTyped, TaskParts
<1> USE <1>1, <1>2 DEF TurnInv, HostBusy, ShellBusy, Outside
<1>a. CASE ShellStarts
  BY <1>a DEF ShellStarts, ShellTo, Shell
<1>b. CASE ShellBeginsSubtask
  BY <1>b DEF ShellBeginsSubtask, Shell, Dir
<1>c. CASE RunSubtask
  BY <1>c DEF RunSubtask, Shell
<1>d. CASE WriteSubtaskDone
  <2>1. /\ shell'.pc \in {"wait", "dead"} /\ shell'.signaled
        /\ dir'.next = dir.next
        /\ dir'.done = IF shell.signaled THEN dir.done ELSE shell.task
    BY <1>d DEF WriteSubtaskDone, Reported, Shell, Dir
  <2>2. shell.pc = "signal" BY <1>d DEF WriteSubtaskDone
  <2> QED BY <2>1, <2>2, <1>3
<1>e. CASE ShellExits
  BY <1>e DEF ShellExits, ShellTo, Shell
<1>f. CASE ShellTakesNext
  BY <1>f DEF ShellTakesNext, Shell, Dir
<1>g. CASE ShellDies
  <2>1. /\ shell'.pc = "dead" /\ dir'.next = dir.next
        /\ dir'.done = dir.done \/ (~shell.signaled /\ dir'.done = shell.task)
    BY <1>g DEF ShellDies, ShellTo, Reported, Shell, Dir
  <2>2. shell.pc # "dead" BY <1>g DEF ShellDies, Alive
  <2>3. shell.pc = "wait" \/ ShellBusy BY <2>2 DEF Shell
  <2> QED BY <2>1, <2>3, <1>3
<1>h. \/ ShellStarts \/ ShellBeginsSubtask \/ RunSubtask \/ WriteSubtaskDone
      \/ ShellExits \/ ShellTakesNext \/ ShellDies
  BY DEF Shells
<1> HIDE DEF TurnInv
<1> QED BY <1>a, <1>b, <1>c, <1>d, <1>e, <1>f, <1>g, <1>h

\* The driver takes the turn with a report and gives it back with a prompt.
LEMMA DrivesKeepTurn == ASSUME TypeOK, TurnInv, Drives PROVE TurnInv'
<1>1. shell \in Shell /\ dir \in Dir /\ host \in Host BY DEF TypeOK
<1>2. Current # NoTask BY CurrentTyped, TaskParts
<1>3. shell.pc = "wait" \/ shell.pc = "dead" \/ ShellBusy BY <1>1 DEF Shell, ShellBusy
<1> USE <1>1 DEF TurnInv, HostBusy, ShellBusy, Outside, HostTo
<1>a. CASE PollSubtaskDone
  <2>1. Current' = Current BY <1>a DEF PollSubtaskDone, Current
  <2>2. /\ host'.pc = "handle" /\ host'.got = dir.done
        /\ dir'.done = NoTask /\ dir'.next = dir.next
    BY <1>a DEF PollSubtaskDone, Dir
  <2> QED BY <1>a, <1>3, <2>1, <2>2 DEF PollSubtaskDone
<1>b. CASE PollAborted
  BY <1>b DEF PollAborted, Current, Host
<1>c. CASE SyncControl
  <2>1. /\ host'.pc \in {"verify", "over"} /\ host'.got = host.got
        /\ abort' = "none" => abort = "none"
        /\ Current' = Current
        /\ UNCHANGED <<shell, dir, eng>> /\ (abort # "none" => abort' # "none")
    BY <1>c DEF SyncControl, FirstAbort, Host, Current
  <2>2. host.pc = "handle" BY <1>c DEF SyncControl
  <2> QED BY <2>1, <2>2
<1>d. CASE Judge
  <2>1. /\ host.pc = "verify" /\ UNCHANGED <<shell, dir, eng>>
        /\ host'.pc \in {"retries", "prompt", "exit", "over"}
        /\ abort' = "none" => abort = "none"
        /\ abort # "none" => abort' # "none"
    BY <1>d DEF Judge, PassedNext, PassedTransition, PassedLast, AttemptFailed,
                TestsAborted, HandlerThrows, FirstAbort, Host
  <2> QED BY <2>1
<1>e. CASE WriteRetriesOverride
  <2>1. /\ host.pc = "retries" /\ host'.pc = "prompt"
        /\ dir'.done = dir.done /\ dir'.next = dir.next
        /\ UNCHANGED <<shell, eng, abort>>
    BY <1>e DEF WriteRetriesOverride, Host, Dir
  <2> QED BY <2>1
<1>f. CASE WriteNextPrompt
  <2>1. /\ host.pc = "prompt" /\ host'.pc = "poll"
        /\ dir'.done = dir.done /\ dir'.next = Current
        /\ UNCHANGED <<shell, eng, abort>> /\ Current' = Current
    BY <1>f DEF WriteNextPrompt, Host, Dir, Current
  <2> QED BY <2>1, <1>2
<1>g. CASE WriteExitSignal
  <2>1. /\ host.pc = "exit" /\ host'.pc = "over"
        /\ dir'.done = dir.done /\ dir'.next = dir.next
        /\ UNCHANGED <<shell, eng, abort>>
    BY <1>g DEF WriteExitSignal, Host, Dir
  <2> QED BY <2>1
<1> HIDE DEF TurnInv
<1> QED BY <1>a, <1>b, <1>c, <1>d, <1>e, <1>f, <1>g DEF Drives

\* Aborts end the turn; a resume begins a new one with clean files.
LEMMA SessionsKeepTurn ==
    ASSUME TypeOK, TurnInv, Sessions \/ Request \/ WatcherTick \/ Resume PROVE TurnInv'
<1>1. shell \in Shell /\ dir \in Dir /\ host \in Host BY DEF TypeOK
<1> USE <1>1 DEF TurnInv, HostBusy, ShellBusy
<1>a. CASE EngineExits
  BY <1>a DEF EngineExits, FirstAbort, Alive, Current
<1>b. CASE EngineAborted
  <2>1. /\ shell'.pc = "dead" /\ dir'.next = dir.next
        /\ dir'.done = dir.done \/ (~shell.signaled /\ dir'.done = shell.task)
    BY <1>b DEF EngineAborted, ShellTo, Reported, Shell, Dir
  <2>2. /\ UNCHANGED <<host, abort>> /\ abort # "none" /\ shell.pc # "dead"
        /\ Current' = Current
    BY <1>b DEF EngineAborted, Alive, Current
  <2> QED BY <2>1, <2>2
<1>c. CASE PhaseEnds
  <2>1. Current' = Current BY <1>c DEF PhaseEnds, Current, TypeOK, Run
  <2> QED BY <1>c, <2>1 DEF PhaseEnds
<1>d. CASE Transitioned
  <2>1. abort' # "none" /\ host'.pc = "poll" /\ shell'.pc = "boot"
    BY <1>d DEF Transitioned, BothEnded, Boots
  <2> QED BY <2>1
<1>e. CASE Request
  BY <1>e DEF Request, Current
<1>f. CASE WatcherTick
  BY <1>f DEF WatcherTick, Current, TypeOK
<1>g. CASE Resume
  <2> DEFINE first == [Current EXCEPT !.sess = run.sess + 1]
  <2>1. /\ dir'.done = NoTask /\ dir'.next = NoTask /\ host'.pc = "poll"
        /\ shell'.pc = "boot" /\ eng' = "on"
    BY <1>g DEF Resume, PrepareSignalDir, NoFiles, Boots
  <2>2. shell'.task = first BY <1>g DEF Resume, Boots
  <2>3. run'.cursor = run.cursor /\ run'.tries = run.tries /\ run'.sess = run.sess + 1
    BY <1>g DEF Resume, TypeOK, Run, Current
  <2>4. Current' = first BY <2>3 DEF Current
  <2> HIDE DEF first
  <2> QED BY <2>1, <2>2, <2>4
<1> HIDE DEF TurnInv
<1> QED BY <1>a, <1>b, <1>c, <1>d, <1>e, <1>f, <1>g DEF Sessions

LEMMA TurnHolds == Spec => []TurnInv
<1>1. TypeOK /\ TurnInv /\ [Next]_vars => TurnInv'
  <2> SUFFICES ASSUME TypeOK, TurnInv, [Next]_vars PROVE TurnInv' OBVIOUS
  <2>1. CASE UNCHANGED vars
    BY <2>1 DEF vars, TurnInv, HostBusy, ShellBusy, Current
  <2> QED BY <2>1, ShellKeepsTurn, DrivesKeepTurn, SessionsKeepTurn DEF Next
<1> QED BY <1>1, TurnInitially, ProtocolTypes, PTL DEF Spec

\* The host judges on the report it asked for, in every run of the protocol.
THEOREM ResultsMatch == Spec => []ResultIsOfTheRequest
<1>1. TurnInv => ResultIsOfTheRequest BY DEF TurnInv, ResultIsOfTheRequest
<1> QED BY <1>1, TurnHolds, PTL

\* The shell works on what the host waits for until something aborts them.
THEOREM ShellsFollow == Spec => []ShellFollowsHost
<1>1. TurnInv => ShellFollowsHost BY DEF TurnInv, ShellBusy, ShellFollowsHost
<1> QED BY <1>1, TurnHolds, PTL

\* Driver and shell never wait for each other with nothing between them.
THEOREM NoMutualWait == Spec => []NeverBothWaiting
<1>1. TurnInv => NeverBothWaiting BY DEF TurnInv, NeverBothWaiting
<1> QED BY <1>1, TurnHolds, PTL

-----------------------------------------------------------------------------
(* The budget. *)

\* A retry and the first attempt of a session have no override of their own.
LEMMA DueNone ==
    ASSUME NEW t, t.try # 1 \/ t = run.prompt PROVE Due(t) = 0
BY DEF Due

\* What a step leaves alone that BudgetInv mentions.
LEMMA BudgetStays ==
    ASSUME BudgetInv, UNCHANGED <<dir, shell, run>>,
           abort # "none" => abort' # "none",
           host'.pc = host.pc \/ host'.pc \in {"poll", "exit", "over"}
    PROVE  BudgetInv'
<1>1. Current' = Current /\ \A t : Due(t)' = Due(t) BY DEF Current, Due
<1> QED BY <1>1 DEF BudgetInv

LEMMA BudgetInitially == Init => BudgetInv
<1> SUFFICES ASSUME Init PROVE BudgetInv OBVIOUS
<1>1. /\ dir.done = NoTask /\ dir.next = NoTask /\ dir.retries = 0
      /\ shell.pc = "boot" /\ shell.task = run.prompt /\ host.pc = "poll"
      /\ run.cursor = 1 /\ run.prompt.sub = 1
  BY DEF Init, NoFiles, Boots, Current
<1>2. Due(shell.task) = 0 BY <1>1, DueNone
<1> QED BY <1>1, <1>2 DEF BudgetInv

\* The shell takes the override with the prompt, once.
LEMMA ShellKeepsBudget ==
    ASSUME TypeOK, TurnInv, BudgetInv, Shells \/ ShellDies PROVE BudgetInv'
<1>1. shell \in Shell /\ dir \in Dir /\ host \in Host BY DEF TypeOK
<1>2. /\ UNCHANGED <<abort, run, host>> /\ Current' = Current
      /\ \A t : Due(t)' = Due(t)
  BY DEF Shells, ShellStarts, ShellBeginsSubtask, RunSubtask, WriteSubtaskDone,
         ShellExits, ShellTakesNext, ShellDies, Outside, Current, Due
<1>3. TurnInv /\ BudgetInv OBVIOUS
<1> USE <1>1, <1>2 DEF BudgetInv
<1>a. CASE ShellStarts
  BY <1>a DEF ShellStarts, ShellTo, Shell
<1>b. CASE ShellBeginsSubtask
  <2>1. /\ shell.pc = "loop" /\ shell'.pc = "run" /\ shell'.task = shell.task
        /\ shell'.budget = dir.retries /\ ~shell'.signaled
        /\ dir'.done = dir.done /\ dir'.next = dir.next /\ dir'.retries = 0
    BY <1>b DEF ShellBeginsSubtask, Shell, Dir
  <2>2. abort = "none" => dir.next = NoTask /\ host.pc = "poll"
    BY <2>1 DEF TurnInv, ShellBusy
  <2>3. host.pc # "prompt"
    BY <2>1 DEF TurnInv, HostBusy
  <2> QED BY <2>1, <2>2, <2>3
<1>c. CASE RunSubtask
  BY <1>c DEF RunSubtask, Shell
<1>d. CASE WriteSubtaskDone
  <2>1. /\ shell.pc = "signal" /\ shell'.pc \in {"wait", "dead"}
        /\ dir'.next = dir.next /\ dir'.retries = dir.retries
    BY <1>d DEF WriteSubtaskDone, Reported, Shell, Dir
  <2> QED BY <2>1
<1>e. CASE ShellExits
  BY <1>e DEF ShellExits, ShellTo, Shell
<1>f. CASE ShellTakesNext
  <2>1. /\ shell.pc = "wait" /\ shell'.pc = "loop" /\ shell'.task = dir.next
        /\ shell'.signaled = shell.signaled /\ dir.next # NoTask
        /\ dir'.done = dir.done /\ dir'.next = NoTask /\ dir'.retries = dir.retries
    BY <1>f DEF ShellTakesNext, Shell, Dir
  <2>2. shell.signaled /\ (abort = "none" => dir.next = Current)
    BY <2>1 DEF TurnInv
  <2> QED BY <2>1, <2>2
<1>g. CASE ShellDies
  <2>1. /\ shell'.pc = "dead" /\ shell.pc # "dead"
        /\ dir'.next = dir.next /\ dir'.retries = dir.retries
        /\ dir'.done = dir.done \/ (~shell.signaled /\ dir'.done = shell.task)
    BY <1>g DEF ShellDies, ShellTo, Reported, Alive, Shell, Dir
  <2>2. ~shell.signaled /\ abort = "none" => dir.retries = 0
    <3> SUFFICES ASSUME ~shell.signaled, abort = "none" PROVE dir.retries = 0
      OBVIOUS
    <3>1. shell.pc # "wait" BY DEF TurnInv
    <3>2. CASE shell.pc \in {"boot", "loop"} BY <3>2, DueNone
    <3>3. CASE shell.pc \in {"run", "signal"} BY <3>3
    <3> QED BY <2>1, <3>1, <3>2, <3>3 DEF Shell
  <2> QED BY <2>1, <2>2
<1>h. \/ ShellStarts \/ ShellBeginsSubtask \/ RunSubtask \/ WriteSubtaskDone
      \/ ShellExits \/ ShellTakesNext \/ ShellDies
  BY DEF Shells
<1> HIDE DEF BudgetInv
<1> QED BY <1>a, <1>b, <1>c, <1>d, <1>e, <1>f, <1>g, <1>h

\* The driver writes the override of the subtask it advances to, and of no
\* retry.
LEMMA DrivesKeepBudget ==
    ASSUME TypeOK, TurnInv, BudgetInv, Drives PROVE BudgetInv'
<1>1. shell \in Shell /\ dir \in Dir /\ host \in Host /\ run \in Run BY DEF TypeOK
<1>2. run.cursor \in Nat /\ run.prompt.sub \in Nat /\ run.tries \in Nat \ {0}
  BY <1>1, ConstantsTyped, TaskParts DEF Run, Subtasks
<1>3. shell.pc = "wait" \/ shell.pc = "dead" \/ ShellBusy BY <1>1 DEF Shell, ShellBusy
<1>a. CASE PollSubtaskDone
  <2>1. /\ abort = "none" /\ dir.done # NoTask /\ host'.pc = "handle"
        /\ dir'.next = dir.next /\ dir'.retries = dir.retries /\ dir'.done = NoTask
        /\ UNCHANGED <<shell, abort, run>>
    BY <1>1, <1>a DEF PollSubtaskDone, Outside, Dir
  <2>2. Current' = Current /\ \A t : Due(t)' = Due(t) BY <2>1 DEF Current, Due
  <2> QED BY <2>1, <2>2 DEF BudgetInv
<1>b. CASE PollAborted
  BY <1>1, <1>b, BudgetStays DEF PollAborted, Outside, HostTo, Host
<1>c. CASE SyncControl
  <2>1. /\ host.pc = "handle" /\ host'.pc \in {"verify", "over"}
        /\ UNCHANGED <<dir, shell, run>> /\ (abort # "none" => abort' # "none")
    BY <1>1, <1>c DEF SyncControl, FirstAbort, HostTo, Host
  <2>2. Current' = Current /\ \A t : Due(t)' = Due(t) BY <2>1 DEF Current, Due
  <2> QED BY <2>1, <2>2 DEF BudgetInv
<1>d. CASE Judge
  <2>1. /\ host.pc = "verify" /\ dir.retries = 0
        /\ shell.pc \in {"wait", "dead"} /\ dir.done = NoTask /\ dir.next = NoTask
    BY <1>d DEF Judge, PassedNext, PassedTransition, PassedLast, AttemptFailed,
                TestsAborted, HandlerThrows, BudgetInv, TurnInv, HostBusy
  <2>2. UNCHANGED <<shell, dir>>
    BY <1>d DEF Judge, PassedNext, PassedTransition, PassedLast, AttemptFailed,
                TestsAborted, HandlerThrows
  <2>3. /\ run'.prompt = run.prompt /\ run'.cursor \in {run.cursor, run.cursor + 1}
        /\ host'.pc \in {"retries", "exit", "prompt", "over"}
        /\ host'.pc = "retries" => run'.cursor = run.cursor + 1 /\ run'.tries = 1
        /\ host'.pc = "prompt" => run'.tries = run.tries + 1
    BY <1>1, <1>d DEF Judge, PassedNext, PassedTransition, PassedLast, AttemptFailed,
                TestsAborted, HandlerThrows, Advanced, HostTo, Host, Run
  <2>4. host'.pc = "prompt" => Due(Current)' = 0
    BY <1>2, <2>3 DEF Due, Current
  <2>5. run.prompt.sub <= run.cursor BY DEF BudgetInv
  <2> QED BY <1>2, <2>1, <2>2, <2>3, <2>4, <2>5 DEF BudgetInv
<1>e. CASE WriteRetriesOverride
  <2>1. /\ host.pc = "retries" /\ host'.pc = "prompt" /\ UNCHANGED <<shell, abort, run>>
        /\ dir'.done = dir.done /\ dir'.next = dir.next
        /\ dir'.retries = IF run.cursor \in Overrides THEN run.cursor ELSE dir.retries
    BY <1>1, <1>e DEF WriteRetriesOverride, Outside, HostTo, Host, Dir
  <2>2. Current' = Current /\ \A t : Due(t)' = Due(t) BY <2>1 DEF Current, Due
  <2>3. /\ dir.retries = 0 /\ run.tries = 1 /\ run.prompt.sub < run.cursor
    BY <2>1 DEF BudgetInv
  <2>4. Current # run.prompt /\ Current.sub = run.cursor /\ Current.try = 1
    BY <1>2, <2>3 DEF Current
  <2>5. dir'.retries = Due(Current) BY <2>1, <2>3, <2>4 DEF Due
  <2>6. shell.pc \in {"wait", "dead"} /\ dir.done = NoTask /\ dir.next = NoTask
    BY <2>1 DEF TurnInv, HostBusy
  <2>7. run.prompt.sub <= run.cursor BY DEF BudgetInv
  <2> QED BY <2>1, <2>2, <2>5, <2>6, <2>7 DEF BudgetInv
<1>f. CASE WriteNextPrompt
  <2>1. /\ host.pc = "prompt" /\ host'.pc = "poll" /\ UNCHANGED <<shell, abort, run>>
        /\ dir'.done = dir.done /\ dir'.retries = dir.retries
    BY <1>1, <1>f DEF WriteNextPrompt, Outside, HostTo, Host, Dir
  <2>2. Current' = Current /\ \A t : Due(t)' = Due(t) BY <2>1 DEF Current, Due
  <2>3. dir.retries = Due(Current) /\ run.prompt.sub <= run.cursor
    BY <2>1 DEF BudgetInv
  <2>4. shell.pc \in {"wait", "dead"} /\ dir.done = NoTask
    BY <2>1 DEF TurnInv, HostBusy
  <2> QED BY <2>1, <2>2, <2>3, <2>4 DEF BudgetInv
<1>g. CASE WriteExitSignal
  <2>1. /\ host.pc = "exit" /\ host'.pc = "over" /\ UNCHANGED <<shell, abort, run>>
        /\ dir'.done = dir.done /\ dir'.next = dir.next /\ dir'.retries = dir.retries
    BY <1>1, <1>g DEF WriteExitSignal, Outside, HostTo, Host, Dir
  <2>2. Current' = Current /\ \A t : Due(t)' = Due(t) BY <2>1 DEF Current, Due
  <2> QED BY <2>1, <2>2 DEF BudgetInv
<1> QED BY <1>a, <1>b, <1>c, <1>d, <1>e, <1>f, <1>g DEF Drives

\* A new session starts from its own prompt, without an override.
LEMMA SessionsKeepBudget ==
    ASSUME TypeOK, TurnInv, BudgetInv, Sessions \/ Request \/ WatcherTick \/ Resume
    PROVE  BudgetInv'
<1>1. shell \in Shell /\ dir \in Dir /\ host \in Host /\ run \in Run BY DEF TypeOK
<1>2. run.cursor \in Nat /\ run.prompt.sub \in Nat
  BY <1>1, ConstantsTyped, TaskParts DEF Run, Subtasks
<1>a. CASE EngineExits
  BY <1>a, BudgetStays DEF EngineExits, FirstAbort
<1>b. CASE EngineAborted
  <2>1. /\ abort' # "none" /\ dir'.retries = dir.retries
        /\ UNCHANGED <<host, run>>
    BY <1>1, <1>b DEF EngineAborted, Reported, Dir
  <2>2. Current' = Current /\ \A t : Due(t)' = Due(t) BY <2>1 DEF Current, Due
  <2> QED BY <2>1, <2>2 DEF BudgetInv
<1>c. CASE PhaseEnds
  <2>1. /\ UNCHANGED <<dir, shell, host, abort>> /\ run'.prompt = run.prompt
        /\ run'.cursor = run.cursor /\ run'.tries = run.tries /\ run'.sess = run.sess
    BY <1>1, <1>c DEF PhaseEnds, Run
  <2>2. Current' = Current /\ \A t : Due(t)' = Due(t) BY <2>1 DEF Current, Due
  <2> QED BY <2>1, <2>2 DEF BudgetInv
<1>d. CASE Transitioned
  <2>1. /\ abort' # "none" /\ host'.pc = "poll" /\ run'.prompt = run.prompt
        /\ run'.cursor = run.cursor
    BY <1>1, <1>d DEF Transitioned, BothEnded, Run, TurnInv
  <2> QED BY <2>1 DEF BudgetInv
<1>e. CASE Request
  BY <1>e, BudgetStays DEF Request
<1>f. CASE WatcherTick
  BY <1>f, BudgetStays DEF WatcherTick
<1>g. CASE Resume
  <2> DEFINE first == [Current EXCEPT !.sess = run.sess + 1]
  <2>1. /\ dir'.done = NoTask /\ dir'.next = NoTask /\ dir'.retries = 0
        /\ host'.pc = "poll" /\ shell'.pc = "boot" /\ shell'.task = first
    BY <1>g DEF Resume, PrepareSignalDir, NoFiles, Boots
  <2>2. run'.prompt = first /\ run'.cursor = run.cursor /\ first.sub = run.cursor
    BY <1>1, <1>g DEF Resume, Run, Current
  <2> HIDE DEF first
  <2>3. Due(shell.task)' = 0 BY <2>1, <2>2 DEF Due
  <2> QED BY <1>2, <2>1, <2>2, <2>3 DEF BudgetInv
<1> QED BY <1>a, <1>b, <1>c, <1>d, <1>e, <1>f, <1>g DEF Sessions

\* A retries override is used by the attempt it was written for and no other.
THEOREM BudgetsAreHandedOver == Spec => []BudgetIsHandedOver
<1>1. TypeOK /\ TurnInv /\ BudgetInv /\ [Next]_vars => BudgetInv'
  <2> SUFFICES ASSUME TypeOK, TurnInv, BudgetInv, [Next]_vars PROVE BudgetInv' OBVIOUS
  <2>1. CASE UNCHANGED vars
    BY <2>1, BudgetStays DEF vars
  <2> QED BY <2>1, ShellKeepsBudget, DrivesKeepBudget, SessionsKeepBudget DEF Next
<1>2. BudgetInv => BudgetIsHandedOver BY DEF BudgetInv, BudgetIsHandedOver
<1> QED BY <1>1, <1>2, BudgetInitially, TurnHolds, ProtocolTypes, PTL DEF Spec

-----------------------------------------------------------------------------
(* The protocol implements SubtaskSequence. *)

LEMMA WorkValues == Work \in {"none", "busy", "reported"}
BY DEF Work

\* Away from a judgement the cursor stays, and then only one change of Work is
\* not a step of the sequence.
LEMMA PlaceStays ==
    ASSUME run'.cursor = run.cursor, run'.tries = run.tries,
           Work = "reported" => Work' # "busy"
    PROVE  [Sequence!Next]_Sequence!avars
<1>1. Work \in {"none", "busy", "reported"} /\ Work' \in {"none", "busy", "reported"}
  BY WorkValues DEF Work
<1> QED
  BY <1>1 DEF Sequence!Next, Sequence!Begin, Sequence!Report, Sequence!Drop, Sequence!avars

\* The shell does not begin again on a reported attempt: whoever holds the
\* report, the shell holds no turn.
LEMMA ShellMovesOn ==
    ASSUME TypeOK, TurnInv, Shells \/ ShellDies
    PROVE  [Sequence!Next]_Sequence!avars
<1>1. shell \in Shell /\ dir \in Dir BY DEF TypeOK
<1>2. UNCHANGED <<run, host>> /\ Current' = Current
  BY DEF Shells, ShellStarts, ShellBeginsSubtask, RunSubtask, WriteSubtaskDone,
         ShellExits, ShellTakesNext, ShellDies, Outside, Current
<1>3. CASE ShellBeginsSubtask \/ RunSubtask
  <2>1. shell.pc \in {"loop", "run"} /\ dir'.done = dir.done
    BY <1>1, <1>3 DEF ShellBeginsSubtask, RunSubtask, Dir
  <2>2. ~HostBusy BY <2>1 DEF TurnInv
  <2>3. Work = "reported" => Work' # "busy"
    BY <1>2, <2>1, <2>2 DEF Work, HostBusy
  <2> QED BY <1>2, <2>3, PlaceStays
<1>4. CASE ShellStarts \/ WriteSubtaskDone \/ ShellExits \/ ShellTakesNext \/ ShellDies
  <2>1. shell'.pc \in {"loop", "wait", "dead"}
    BY <1>1, <1>4 DEF ShellStarts, WriteSubtaskDone, ShellExits, ShellTakesNext,
                      ShellDies, ShellTo, Shell
  <2>2. Work' # "busy" BY <2>1 DEF Work
  <2> QED BY <1>2, <2>2, PlaceStays
<1> QED BY <1>3, <1>4 DEF Shells

\* A judgement is of the reported attempt, and leaves nothing under way.
LEMMA JudgeMovesOn ==
    ASSUME TypeOK, TurnInv, Judge
    PROVE  [Sequence!Next]_Sequence!avars
<1>1. shell \in Shell /\ dir \in Dir /\ host \in Host /\ run \in Run BY DEF TypeOK
<1>2. /\ host.pc = "verify" /\ UNCHANGED <<shell, dir>>
      /\ host'.pc \in {"retries", "exit", "prompt", "over"}
  BY <1>1 DEF Judge, PassedNext, PassedTransition, PassedLast, AttemptFailed,
              TestsAborted, HandlerThrows, HostTo, Host
<1>3. /\ host.got = Current /\ dir.done = NoTask
      /\ shell.pc \in {"wait", "dead"}
  BY <1>2 DEF TurnInv, HostBusy
<1>4. Work = "reported" BY <1>2, <1>3 DEF Work
<1>5. Work' = "none"
  <2>1. Current' # NoTask
    <3>1. TypeOK' BY JudgeTyped
    <3>2. Current' \in Task BY <3>1 DEF TypeOK, Run, Current, Task
    <3> QED BY <3>2, TaskParts
  <2> QED BY <1>2, <1>3, <2>1 DEF Work
<1>6. CASE PassedNext \/ PassedTransition
  <2>1. run.cursor < N /\ run'.cursor = run.cursor + 1 /\ run'.tries = 1
    BY <1>1, <1>6 DEF PassedNext, PassedTransition, Advanced, Run
  <2> QED BY <1>4, <1>5, <2>1 DEF Sequence!Next, Sequence!Pass
<1>7. CASE AttemptFailed \/ TestsAborted
  <2>1. run'.cursor = run.cursor /\ run'.tries = run.tries + 1
    BY <1>1, <1>7 DEF AttemptFailed, TestsAborted, Run
  <2> QED BY <1>4, <1>5, <2>1 DEF Sequence!Next, Sequence!Fail
<1>8. CASE PassedLast \/ HandlerThrows
  <2>1. run'.cursor = run.cursor /\ run'.tries = run.tries
    BY <1>1, <1>8 DEF PassedLast, HandlerThrows, Run
  <2> QED BY <1>5, <2>1, PlaceStays
<1> QED BY <1>6, <1>7, <1>8 DEF Judge

\* The other steps of the driver.
LEMMA DriveMovesOn ==
    ASSUME TypeOK, TurnInv, Drives
    PROVE  [Sequence!Next]_Sequence!avars
<1>1. shell \in Shell /\ dir \in Dir /\ host \in Host BY DEF TypeOK
<1>2. CASE PollSubtaskDone \/ PollAborted \/ SyncControl
  <2>1. UNCHANGED <<run, shell>> /\ Current' = Current
    BY <1>2 DEF PollSubtaskDone, PollAborted, SyncControl, Outside, Current
  <2>2. Work = "reported" => Work' # "busy"
    <3>1. CASE PollSubtaskDone
      <4>1. host'.pc = "handle" BY <3>1 DEF PollSubtaskDone
      <4> QED BY <4>1 DEF Work
    <3>2. CASE PollAborted
      <4>1. host.pc = "poll" /\ UNCHANGED dir BY <3>2 DEF PollAborted
      <4>2. host'.pc = "over" BY <1>1, <3>2 DEF PollAborted, HostTo, Host
      <4> QED BY <2>1, <4>1, <4>2 DEF Work
    <3>3. CASE SyncControl
      <4>1. host.pc = "handle" BY <3>3 DEF SyncControl
      <4>2. shell'.pc \in {"wait", "dead"} BY <2>1, <4>1 DEF TurnInv, HostBusy
      <4> QED BY <4>2 DEF Work
    <3> QED BY <1>2, <3>1, <3>2, <3>3
  <2> QED BY <2>1, <2>2, PlaceStays
<1>3. CASE WriteRetriesOverride \/ WriteNextPrompt \/ WriteExitSignal
  <2>1. HostBusy /\ UNCHANGED <<run, shell>>
    BY <1>3 DEF WriteRetriesOverride, WriteNextPrompt, WriteExitSignal, Outside, HostBusy
  <2>2. shell'.pc \in {"wait", "dead"} BY <2>1 DEF TurnInv
  <2>3. Work' # "busy" BY <2>2 DEF Work
  <2> QED BY <2>1, <2>3, PlaceStays
<1> QED BY <1>2, <1>3, JudgeMovesOn DEF Drives

\* Sessions end and begin without a judgement.
LEMMA SessionMovesOn ==
    ASSUME TypeOK, TurnInv, Sessions \/ Request \/ WatcherTick \/ Resume
    PROVE  [Sequence!Next]_Sequence!avars
<1>1. shell \in Shell /\ dir \in Dir /\ run \in Run BY DEF TypeOK
<1>2. run'.cursor = run.cursor /\ run'.tries = run.tries
  BY <1>1 DEF Sessions, EngineExits, EngineAborted, PhaseEnds, Transitioned, Request,
              WatcherTick, Resume, Run
<1>3. CASE EngineAborted \/ Transitioned \/ Resume
  <2>1. shell'.pc \in {"dead", "boot"}
    BY <1>1, <1>3 DEF EngineAborted, Transitioned, Resume, ShellTo, Boots, Shell
  <2>2. Work' # "busy" BY <2>1 DEF Work
  <2> QED BY <1>2, <2>2, PlaceStays
<1>4. CASE EngineExits \/ PhaseEnds \/ Request \/ WatcherTick
  <2>1. UNCHANGED <<dir, shell, host>> /\ run'.sess = run.sess
    BY <1>1, <1>4 DEF EngineExits, PhaseEnds, Request, WatcherTick, Run
  <2>2. Current' = Current BY <1>2, <2>1 DEF Current
  <2>3. Work' = Work BY <2>1, <2>2 DEF Work
  <2> QED BY <1>2, <2>3, PlaceStays
<1> QED BY <1>3, <1>4 DEF Sessions

\* Driver, shell, files and sessions together do what SubtaskSequence says:
\* subtasks in order, every judgement once and after its own report.
THEOREM ProtocolImplementsSequence == Spec => InSequence
<1>1. Init => Sequence!Init
  <2> SUFFICES ASSUME Init PROVE Sequence!Init OBVIOUS
  <2>1. /\ dir.done = NoTask /\ shell.pc = "boot" /\ host.pc = "poll"
        /\ run.cursor = 1 /\ run.tries = 1 /\ run.sess = 1
    BY DEF Init, NoFiles, Boots
  <2>2. Current # NoTask BY <2>1 DEF Current, NoTask
  <2>3. Work = "none" BY <2>1, <2>2 DEF Work
  <2> QED BY <2>1, <2>3 DEF Sequence!Init
<1>2. TypeOK /\ TurnInv /\ [Next]_vars => [Sequence!Next]_Sequence!avars
  <2> SUFFICES ASSUME TypeOK, TurnInv, [Next]_vars
               PROVE  [Sequence!Next]_Sequence!avars
    OBVIOUS
  <2>1. CASE UNCHANGED vars
    BY <2>1 DEF vars, Work, Current, Sequence!avars
  <2> QED BY <2>1, ShellMovesOn, DriveMovesOn, SessionMovesOn DEF Next
<1> QED BY <1>1, <1>2, TurnHolds, ProtocolTypes, PTL DEF Spec, InSequence, Sequence!Spec

=============================================================================
