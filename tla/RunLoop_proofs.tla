--------------------------- MODULE RunLoop_proofs ---------------------------
(***************************************************************************)
(* Proofs about RunLoop, for every number of subtasks, phases, attempts,   *)
(* processes and commits, with every event.                                *)
(***************************************************************************)
EXTENDS RunLoop, SequenceTheorems, FiniteSetTheorems, TLAPS

LEMMA ConstantsTyped ==
    /\ N \in Nat \ {0} /\ MaxProcs \in Nat /\ MaxCommits \in Nat
    /\ NoPhase \notin Phases
    /\ PhaseOf \in [Subtasks -> Phases \union {NoPhase}]
    /\ Restarts \subseteq Subtasks
    /\ 1 \in Subtasks
BY LoopAssumption DEF Subtasks

-----------------------------------------------------------------------------
(* The progress of a run, field by field. *)

LEMMA CommitsSet == ASSUME NEW m \in Progress, NEW c \in Seq(Commits)
                    PROVE  [m EXCEPT !.commits = c] \in Progress
BY DEF Progress

LEMMA AppliedSet == ASSUME NEW m \in Progress, NEW n \in Nat
                    PROVE  [m EXCEPT !.applied = n] \in Progress
BY DEF Progress

LEMMA CursorSet == ASSUME NEW m \in Progress, NEW i \in Subtasks
                   PROVE  [m EXCEPT !.cursor = i] \in Progress
BY DEF Progress

LEMMA TriesSet == ASSUME NEW m \in Progress, NEW t \in [Subtasks -> Nat]
                  PROVE  [m EXCEPT !.tries = t] \in Progress
BY DEF Progress

LEMMA BudgetSet == ASSUME NEW m \in Progress, NEW b \in [Phases -> Nat]
                   PROVE  [m EXCEPT !.budget = b] \in Progress
BY DEF Progress

LEMMA TransitionSet == ASSUME NEW m \in Progress, NEW i \in 0 .. N
                       PROVE  [m EXCEPT !.transition = i] \in Progress
BY DEF Progress

LEMMA BasedSet == ASSUME NEW m \in Progress, NEW b \in SUBSET Phases
                  PROVE  [m EXCEPT !.based = b] \in Progress
BY DEF Progress

LEMMA FreshTyped == Fresh \in Progress
BY ConstantsTyped DEF Fresh, Progress, NoTries, NoBudget

LEMMA BasedTyped == ASSUME NEW m \in Progress PROVE Based(m) \in Progress
<1>1. CASE PhaseOf[m.cursor] # NoPhase /\ IsImpl(m.cursor)
  <2>1. PhaseOf[m.cursor] \in Phases BY <1>1, ConstantsTyped DEF Progress
  <2>2. m.based \union {PhaseOf[m.cursor]} \in SUBSET Phases BY <2>1 DEF Progress
  <2>3. [m EXCEPT !.based = m.based \union {PhaseOf[m.cursor]}] \in Progress BY <2>2, BasedSet
  <2> QED BY <1>1, <2>3 DEF Based
<1>2. CASE ~(PhaseOf[m.cursor] # NoPhase /\ IsImpl(m.cursor))
  BY <1>2 DEF Based
<1> QED BY <1>1, <1>2

LEMMA CountedTyped == ASSUME NEW m \in Progress PROVE Counted(m) \in Progress
<1>1. CASE PhaseOf[m.cursor] = NoPhase
  BY <1>1 DEF Counted
<1>2. CASE PhaseOf[m.cursor] # NoPhase
  <2> DEFINE p == PhaseOf[m.cursor]
             b == [m.budget EXCEPT ![p] = @ + 1]
  <2>1. p \in Phases BY <1>2, ConstantsTyped DEF Progress
  <2>2. b \in [Phases -> Nat] BY <2>1 DEF Progress
  <2>3. [m EXCEPT !.budget = b] \in Progress BY <2>2, BudgetSet
  <2>4. Counted(m) = [m EXCEPT !.budget = b] BY <1>2 DEF Counted, Progress
  <2> QED BY <2>3, <2>4
<1> QED BY <1>1, <1>2

LEMMA TriedTyped == ASSUME NEW m \in Progress PROVE Tried(m) \in Progress
<1> DEFINE t == [m.tries EXCEPT ![m.cursor] = @ + 1]
<1>1. t \in [Subtasks -> Nat] BY DEF Progress
<1>2. [m EXCEPT !.tries = t] \in Progress BY <1>1, TriesSet
<1>3. Tried(m) = [m EXCEPT !.tries = t] BY DEF Tried, Progress
<1> QED BY <1>2, <1>3

\* What a step that advances, counts or summarises leaves alone.
LEMMA CountedFields == ASSUME NEW m \in Progress
    PROVE  /\ Counted(m).cursor = m.cursor /\ Counted(m).based = m.based
           /\ Counted(m).transition = m.transition /\ Counted(m).commits = m.commits
           /\ Counted(m).applied = m.applied
BY DEF Counted, Progress

LEMMA TriedFields == ASSUME NEW m \in Progress
    PROVE  /\ Tried(m).cursor = m.cursor /\ Tried(m).based = m.based
           /\ Tried(m).transition = m.transition /\ Tried(m).commits = m.commits
           /\ Tried(m).applied = m.applied
BY DEF Tried, Progress

LEMMA BasedFields == ASSUME NEW m \in Progress
    PROVE  /\ Based(m).cursor = m.cursor /\ m.based \subseteq Based(m).based
           /\ Based(m).transition = m.transition /\ Based(m).commits = m.commits
           /\ Based(m).applied = m.applied
BY DEF Based, Progress

-----------------------------------------------------------------------------
(* Histories. *)

LEMMA UptoTyped == ASSUME NEW S, NEW s \in Seq(S), NEW n \in Int, n <= Len(s)
                   PROVE  /\ Upto(s, n) \in Seq(S)
                          /\ n \in Nat => Len(Upto(s, n)) = n
<1>1. \A i \in 1 .. n : s[i] \in S OBVIOUS
<1>2. /\ SubSeq(s, 1, n) \in Seq(S)
      /\ Len(SubSeq(s, 1, n)) = IF 1 <= n THEN n - 1 + 1 ELSE 0
  BY <1>1, SubSeqProperties
<1> QED BY <1>2 DEF Upto

LEMMA AfterTyped == ASSUME NEW S, NEW s \in Seq(S), NEW n \in Nat
                    PROVE  /\ After(s, n) \in Seq(S) /\ Len(After(s, n)) \in Nat
<1>1. \A i \in n + 1 .. Len(s) : s[i] \in S OBVIOUS
<1>2. SubSeq(s, n + 1, Len(s)) \in Seq(S) BY <1>1, SubSeqProperties
<1> QED BY <1>2 DEF After

LEMMA ScriptsTyped == ASSUME NEW i PROVE ScriptsOf(i) \subseteq Subtasks
BY ConstantsTyped DEF ScriptsOf

-----------------------------------------------------------------------------
(* Types: the type invariant, and that a session never starts behind the   *)
(* history it works on.                                                    *)

PreIsPast == pc # "closing" => ses.pre <= Len(box.head)

Typed == TypeOK /\ PreIsPast

\* What an abort is, whoever was first.
LEMMA AbortTyped == ASSUME NEW r \in Session, NEW a \in {"pause", "stop", "timeout", "exited"}
                    PROVE  [r EXCEPT !.abort = FirstAbort(r.abort, a)] \in Session
BY DEF Session, FirstAbort

LEMMA OutTyped == ASSUME NEW r \in Session, NEW o \in {"success", "failed", "stopped", "paused"}
                  PROVE  [r EXCEPT !.out = o] \in Session
BY DEF Session

LEMMA TermTyped == ASSUME NEW r \in Session, NEW t \in {"success", "failed"}
                   PROVE  [r EXCEPT !.term = t] \in Session
BY DEF Session

LEMMA MovingTyped == ASSUME NEW r \in Session, NEW b \in BOOLEAN
                     PROVE  [r EXCEPT !.moving = b] \in Session
BY DEF Session

LEMMA RoundTyped == ASSUME NEW r \in Session, NEW n \in Nat
                    PROVE  [r EXCEPT !.round = n] \in Session
BY DEF Session

LEMMA TestedTyped == ASSUME NEW r \in Session, NEW t \in SUBSET Commits
                     PROVE  [r EXCEPT !.tested = t] \in Session
BY DEF Session

LEMMA PreTyped == ASSUME NEW r \in Session, NEW n \in Nat
                  PROVE  [r EXCEPT !.pre = n] \in Session
BY DEF Session

LEMMA NoSessionTyped == NoSession \in Session
BY DEF NoSession, Session

\* The sandbox directory.
LEMMA HeadSet == ASSUME NEW b \in Box, NEW h \in Seq(Commits)
                 PROVE  [b EXCEPT !.head = h] \in Box
BY DEF Box

LEMMA FileSet == ASSUME NEW b \in Box, NEW f \in Seq(Commits)
                 PROVE  [b EXCEPT !.flushed = TRUE, !.file = f] \in Box
BY DEF Box

LEMMA CountSet == ASSUME NEW b \in Box, NEW n \in Nat
                  PROVE  [b EXCEPT !.count = n] \in Box
BY DEF Box

LEMMA ScriptsSet == ASSUME NEW b \in Box, NEW t \in SUBSET Subtasks
                    PROVE  [b EXCEPT !.scripts = t] \in Box
BY DEF Box

LEMMA NewBoxTyped == ASSUME NEW c \in Seq(Commits)
                     PROVE  NewBox(c) \in Box /\ NewBox(c).head = c
BY DEF NewBox, Box

LEMMA NoBoxTyped == NoBox \in Box
<1>1. <<>> \in Seq(Commits) OBVIOUS
<1>2. NewBox(<<>>) \in Box BY <1>1, NewBoxTyped
<1> QED BY <1>2 DEF NoBox, Box

\* A save stores the progress in memory or what was stored.
LEMMA SavedTyped == ASSUME NEW m \in Progress, art \in Progress, art' \in Saved(m)
                    PROVE  art' \in Progress /\ art' \in {m, art}
BY DEF Saved

-----------------------------------------------------------------------------
(* The steps before a session and in one.                                  *)

LEMMA BeforeTyped ==
    ASSUME Typed, PreRoundSync \/ CompleteRestart \/ SetupThrows \/ Boot
    PROVE  Typed'
<1> USE DEF Typed, TypeOK, PreIsPast, World, Goto, InSession, Handling, Locations
<1>1. CASE PreRoundSync
  <2>1. ses' \in Session /\ ses'.pre = ses.pre
    BY <1>1 DEF PreRoundSync, OutcomeOf, Session
  <2> QED BY <1>1, <2>1 DEF PreRoundSync
<1>2. CASE CompleteRestart
  <2>1. box' \in Box /\ box'.head = box.head
    BY <1>2, ScriptsTyped DEF CompleteRestart, Refreshed, Box
  <2>2. [mem EXCEPT !.transition = 0] \in Progress BY ConstantsTyped, TransitionSet
  <2>3. mem' \in Progress /\ art' \in Progress
    BY <1>2, <2>2, SavedTyped DEF CompleteRestart, Remember
  <2>4. ses' \in Session /\ ses'.pre = ses.pre BY <1>2 DEF CompleteRestart, Session
  <2> QED BY <1>2, <2>1, <2>3, <2>4 DEF CompleteRestart
<1>3. CASE SetupThrows
  BY <1>3, OutTyped DEF SetupThrows, Throw
<1>4. CASE Boot
  BY <1>4, SavedTyped DEF Boot, Remember
<1> HIDE DEF Typed
<1> QED BY <1>1, <1>2, <1>3, <1>4

LEMMA SessionTyped ==
    ASSUME Typed, AgentCommits \/ Abort \/ AgentReports \/ SessionDrains
    PROVE  Typed'
<1> USE DEF Typed, TypeOK, PreIsPast, World, Goto, InSession, Handling, Locations
<1>1. CASE AgentCommits
  <2>1. made' \in Commits /\ made' = made + 1 BY <1>1, ConstantsTyped DEF AgentCommits, Commits
  <2>2. Append(box.head, made') \in Seq(Commits) /\ Len(Append(box.head, made')) = Len(box.head) + 1
    BY <2>1, AppendProperties DEF Box
  <2>3. box' \in Box /\ box'.head = Append(box.head, made')
    BY <1>1, <2>1, <2>2 DEF AgentCommits, Box
  <2>4. ses.pre \in Nat /\ Len(box.head) \in Nat BY DEF Session, Box
  <2> QED BY <1>1, <2>1, <2>2, <2>3, <2>4 DEF AgentCommits, Commits
<1>2. CASE Abort
  <2>1. ses' \in Session /\ ses'.pre = ses.pre BY <1>2 DEF Abort, Session
  <2> QED BY <1>2, <2>1 DEF Abort
<1>3. CASE AgentReports
  BY <1>3, CountedTyped DEF AgentReports
<1>4. CASE SessionDrains
  BY <1>4 DEF SessionDrains
<1> HIDE DEF Typed
<1> QED BY <1>1, <1>2, <1>3, <1>4

-----------------------------------------------------------------------------
(* The steps of onSubtaskComplete.                                         *)

LEMMA HistoriesTyped ==
    ASSUME Typed, pc # "closing"
    PROVE  /\ Round \in Seq(Commits) /\ Len(Round) \in Nat
           /\ mem.commits \o Round \in Seq(Commits)
           /\ WithoutRound \in Seq(Commits)
           /\ Upto(box.head, ses.pre) \in Seq(Commits)
           /\ Len(Upto(box.head, ses.pre)) = ses.pre
           /\ Len(box.head) \in Nat /\ ses.pre \in Nat /\ ses.pre <= Len(box.head)
<1> USE DEF Typed, TypeOK, PreIsPast
<1>1. box.head \in Seq(Commits) /\ mem.commits \in Seq(Commits) /\ ses.pre \in Nat /\ ses.round \in Nat
  BY DEF Box, Progress, Session
<1>2. Len(box.head) \in Nat /\ Len(mem.commits) \in Nat BY <1>1, LenProperties
<1>3. Round \in Seq(Commits) /\ Len(Round) \in Nat BY <1>1, AfterTyped DEF Round
<1>4. mem.commits \o Round \in Seq(Commits) BY <1>1, <1>3, ConcatProperties
<1>5. Len(mem.commits) - ses.round \in Int /\ Len(mem.commits) - ses.round <= Len(mem.commits)
  BY <1>1, <1>2
<1>6. WithoutRound \in Seq(Commits) BY <1>1, <1>5, UptoTyped DEF WithoutRound
<1>7. /\ Upto(box.head, ses.pre) \in Seq(Commits) /\ Len(Upto(box.head, ses.pre)) = ses.pre
  BY <1>1, UptoTyped
<1> QED BY <1>1, <1>2, <1>3, <1>4, <1>6, <1>7

LEMMA JudgeTyped ==
    ASSUME Typed, Sync \/ Violates \/ ResetRound \/ NoChanges \/ AppendRound
    PROVE  Typed'
<1> USE DEF Typed, TypeOK, PreIsPast, World, Goto, InSession, Handling, Locations
<1>1. CASE Sync
  <2>1. ses' \in Session /\ ses'.pre = ses.pre BY <1>1 DEF Sync, FirstAbort, Session
  <2>2. art' \in Progress BY <1>1 DEF Sync
  <2> QED BY <1>1, <2>1, <2>2 DEF Sync
<1>2. CASE Violates
  <2>1. mem' \in Progress /\ art' \in Progress
    BY <1>2, TriedTyped, SavedTyped DEF Violates, Remember
  <2> QED BY <1>2, <2>1 DEF Violates
<1>3. CASE ResetRound
  <2>1. pc # "closing" BY <1>3 DEF ResetRound
  <2>2. box' \in Box /\ box'.head = Upto(box.head, ses.pre)
    BY <1>3, <2>1, HistoriesTyped, HeadSet DEF ResetRound, Box
  <2> QED BY <1>3, <2>1, <2>2, HistoriesTyped DEF ResetRound
<1>4. CASE NoChanges
  <2>1. mem' \in Progress /\ art' \in Progress
    BY <1>4, TriedTyped, SavedTyped DEF NoChanges, Remember
  <2>2. ses' \in Session /\ ses'.pre = ses.pre BY <1>4 DEF NoChanges, Session
  <2> QED BY <1>4, <2>1, <2>2 DEF NoChanges
<1>5. CASE AppendRound
  <2>1. pc # "closing" BY <1>5 DEF AppendRound
  <2>2. mem' \in Progress BY <1>5, <2>1, HistoriesTyped, CommitsSet DEF AppendRound
  <2>3. box' \in Box /\ box'.head = box.head
    BY <1>5, <2>1, HistoriesTyped, FileSet DEF AppendRound, Box
  <2>4. ses' \in Session /\ ses'.pre = ses.pre
    BY <1>5, <2>1, HistoriesTyped DEF AppendRound, Session
  <2> QED BY <1>5, <2>2, <2>3, <2>4 DEF AppendRound
<1> HIDE DEF Typed
<1> QED BY <1>1, <1>2, <1>3, <1>4, <1>5

LEMMA RangeTyped == ASSUME NEW S, NEW s \in Seq(S) PROVE Range(s) \subseteq S
BY DEF Range

LEMMA TestsTyped ==
    ASSUME Typed, Verify \/ Bypass \/ TestsPass \/ TestsFail \/ TestsThrow
    PROVE  Typed'
<1> USE DEF Typed, TypeOK, PreIsPast, World, Goto, InSession, Handling, Locations
<1>0. Range(box.head) \subseteq Commits BY RangeTyped DEF Box
<1>1. CASE Verify
  BY <1>1, SavedTyped DEF Verify
<1>2. CASE Bypass
  <2>1. ses' \in Session /\ ses'.pre = ses.pre BY <1>0, <1>2 DEF Bypass, Session
  <2> QED BY <1>2, <2>1 DEF Bypass
<1>3. CASE TestsPass
  <2>1. ses' \in Session /\ ses'.pre = ses.pre BY <1>0, <1>3 DEF TestsPass, Session
  <2> QED BY <1>3, <2>1 DEF TestsPass
<1>4. CASE TestsFail
  <2>1. mem' \in Progress /\ art' \in Progress
    BY <1>4, TriedTyped, SavedTyped DEF TestsFail, Remember
  <2> QED BY <1>4, <2>1 DEF TestsFail
<1>5. CASE TestsThrow
  <2>1. ses' \in Session /\ ses'.pre = ses.pre BY <1>5 DEF TestsThrow, FirstAbort, Session
  <2> QED BY <1>5, <2>1 DEF TestsThrow
<1> HIDE DEF Typed
<1> QED BY <1>1, <1>2, <1>3, <1>4, <1>5

LEMMA VerdictTyped ==
    ASSUME Typed, DiscardRound \/ GiveUp \/ Pass \/ Budget
    PROVE  Typed'
<1> USE DEF Typed, TypeOK, PreIsPast, World, Goto, InSession, Handling, Locations
<1>1. CASE DiscardRound
  <2>1. pc # "closing" BY <1>1 DEF DiscardRound
  <2>2. mem' \in Progress BY <1>1, <2>1, HistoriesTyped, CommitsSet DEF DiscardRound
  <2>3. [box EXCEPT !.flushed = TRUE, !.file = WithoutRound] \in Box
    BY <2>1, HistoriesTyped, FileSet
  <2>4. box' \in Box /\ box'.head = box.head
    BY <1>1, <2>3 DEF DiscardRound, Box
  <2>5. ses' \in Session /\ ses'.pre = ses.pre BY <1>1 DEF DiscardRound, Session
  <2> QED BY <1>1, <2>1, <2>2, <2>4, <2>5, HistoriesTyped DEF DiscardRound
<1>2. CASE GiveUp
  <2>1. pc # "closing" BY <1>2 DEF GiveUp
  <2>2. mem' \in Progress BY <1>2, <2>1, HistoriesTyped, CommitsSet DEF GiveUp
  <2>3. box' \in Box /\ box'.head = box.head
    BY <1>2, <2>1, HistoriesTyped, FileSet DEF GiveUp, Box
  <2>4. ses' \in Session /\ ses'.pre = ses.pre BY <1>2 DEF GiveUp, FirstAbort, Session
  <2> QED BY <1>2, <2>2, <2>3, <2>4 DEF GiveUp
<1>3. CASE Pass
  <2>1. mem' \in Progress /\ art' \in Progress
    BY <1>3, TriedTyped, SavedTyped DEF Pass, Remember
  <2>2. Range(box.head) \subseteq Commits BY RangeTyped DEF Box
  <2>3. proof' \in [Subtasks -> SUBSET Commits] BY <1>3, <2>2 DEF Pass
  <2> QED BY <1>3, <2>1, <2>3 DEF Pass
<1>4. CASE Budget
  <2>1. ses' \in Session /\ ses'.pre = ses.pre BY <1>4 DEF Budget, FirstAbort, Session
  <2> QED BY <1>4, <2>1 DEF Budget
<1> HIDE DEF Typed
<1> QED BY <1>1, <1>2, <1>3, <1>4

-----------------------------------------------------------------------------
(* The next subtask.                                                       *)

LEMMA ExtractTyped == ASSUME Typed, HostExtract
                      PROVE  host' \in Seq(Commits) /\ Applied \in Nat
<1> USE DEF Typed, TypeOK
<1>1. mem.commits \in Seq(Commits) /\ mem.applied \in Nat /\ Len(mem.commits) \in Nat
  BY LenProperties DEF Progress
<1>2. After(mem.commits, mem.applied) \in Seq(Commits) BY <1>1, AfterTyped
<1>3. host \o After(mem.commits, mem.applied) \in Seq(Commits) BY <1>2, ConcatProperties
<1> QED BY <1>1, <1>3 DEF HostExtract, Applied

\* The cursor moves; what else is known of the run stays.
NextProgress == Based([mem EXCEPT !.cursor = @ + 1, !.applied = Applied])

LEMMA NextTyped ==
    ASSUME Typed, HostExtract, mem.cursor < N
    PROVE  /\ mem.cursor + 1 \in Subtasks /\ mem.cursor \in Subtasks
           /\ NextProgress \in Progress
           /\ NextProgress.cursor = mem.cursor + 1
           /\ NextProgress.transition = mem.transition
           /\ NextProgress.commits = mem.commits
           /\ mem.based \subseteq NextProgress.based
<1> DEFINE moved == [mem EXCEPT !.cursor = @ + 1, !.applied = Applied]
<1>1. mem.cursor \in Subtasks /\ mem.cursor + 1 \in Subtasks
  <2>1. mem.cursor \in Subtasks BY DEF Typed, TypeOK, Progress
  <2> QED BY <2>1, ConstantsTyped DEF Subtasks
<1>2. [mem EXCEPT !.cursor = mem.cursor + 1] \in Progress BY <1>1, CursorSet DEF Typed, TypeOK
<1>3. [[mem EXCEPT !.cursor = mem.cursor + 1] EXCEPT !.applied = Applied] \in Progress
  BY <1>2, AppliedSet, ExtractTyped
<1>4. moved \in Progress BY <1>3, Zenon
<1>5. /\ moved.cursor = mem.cursor + 1 /\ moved.transition = mem.transition
      /\ moved.commits = mem.commits /\ moved.based = mem.based
  BY DEF Typed, TypeOK, Progress
<1>6. NextProgress = Based(moved) BY DEF NextProgress
<1> HIDE DEF moved
<1> QED BY <1>1, <1>4, <1>5, <1>6, BasedTyped, BasedFields

LEMMA AdvanceTyped == ASSUME Typed, Advance PROVE Typed'
<1> USE DEF TypeOK, PreIsPast, InSession, Handling, Locations
<1>1. HostExtract /\ mem.cursor < N /\ pc = "advance" BY DEF Advance
<1>2. NextProgress \in Progress /\ NextProgress.cursor \in 0 .. N
  BY <1>1, NextTyped, ConstantsTyped DEF Subtasks
<1>3. [NextProgress EXCEPT !.transition = NextProgress.cursor] \in Progress
  BY <1>2, TransitionSet
<1>4. mem' \in Progress /\ art' \in Progress
  BY <1>2, <1>3, Zenon DEF Advance, NextProgress, Typed, SaveOrThrow
<1>5. box' \in Box /\ box'.head = box.head
  <2>1. Len(mem.commits) \in Nat BY LenProperties DEF Typed, Progress
  <2>2. box' = [box EXCEPT !.count = IF host' # host THEN Len(mem.commits) ELSE box.count]
    BY DEF Advance
  <2>3. (IF host' # host THEN Len(mem.commits) ELSE box.count) \in Nat BY <2>1 DEF Typed, Box
  <2> QED BY <2>2, <2>3, CountSet DEF Typed, Box
<1>6. Rebase \in Session /\ Rebase.pre = Len(box.head)
  BY LenProperties DEF Rebase, Typed, Session, Box
<1>7. ses' \in Session /\ ses'.pre = Len(box.head)
  <2>1. CASE ses' = Rebase BY <2>1, <1>6
  <2>2. CASE ses' = [Rebase EXCEPT !.moving = TRUE]
    BY <2>2, <1>6, MovingTyped DEF Session
  <2>3. CASE ses' = [Rebase EXCEPT !.abort = FirstAbort(@, "stop")]
    BY <2>3, <1>6, AbortTyped DEF Session
  <2> QED BY <2>1, <2>2, <2>3 DEF Advance
<1>8. pc' \in {"work", "drained"} BY DEF Advance, Goto
<1>9. harm' \subseteq {"commits", "budget", "doubled", "boundary"} BY DEF Advance, Typed
<1>10. host' \in Seq(Commits) BY <1>1, ExtractTyped
<1>11. UNCHANGED <<mode, st, made, procs, proof>> BY DEF Advance
<1>12. Len(box.head) \in Nat BY LenProperties DEF Typed, Box
<1>13. TypeOK' BY <1>4, <1>5, <1>7, <1>8, <1>9, <1>10, <1>11 DEF Typed
<1>14. PreIsPast' BY <1>5, <1>7, <1>12
<1> QED BY <1>13, <1>14 DEF Typed

LEMMA FinishTyped == ASSUME Typed, Finish PROVE Typed'
<1> USE DEF TypeOK, PreIsPast, InSession, Handling, Locations
<1>1. HostExtract /\ pc = "advance" BY DEF Finish
<1>2. mem' \in Progress BY <1>1, ExtractTyped, AppliedSet DEF Finish, Typed
<1>3. box' \in Box /\ box'.head = box.head
  <2>1. Len(mem.commits) \in Nat BY LenProperties DEF Typed, Progress
  <2>2. box' = [box EXCEPT !.count = IF host' # host THEN Len(mem.commits) ELSE box.count]
    BY DEF Finish
  <2>3. (IF host' # host THEN Len(mem.commits) ELSE box.count) \in Nat BY <2>1 DEF Typed, Box
  <2> QED BY <2>2, <2>3, CountSet DEF Typed, Box
<1>4. ses' \in Session /\ ses'.pre = ses.pre BY DEF Finish, Typed, Session
<1>5. host' \in Seq(Commits) BY <1>1, ExtractTyped
<1> QED BY <1>1, <1>2, <1>3, <1>4, <1>5 DEF Finish, Goto, Typed

-----------------------------------------------------------------------------
(* After a session.                                                        *)

LEMMA EndedTyped == ASSUME Typed
                    PROVE  /\ Ended \in Session /\ Ended.pre = ses.pre /\ Ended.term = ses.term
                           /\ Ended.moving = ses.moving
BY DEF Typed, TypeOK, Ended, FirstAbort, Session

LEMMA DrainTyped ==
    ASSUME Typed, DrainsFinished \/ DrainsAborted \/ DrainsOver
    PROVE  Typed'
<1> USE DEF TypeOK, PreIsPast, World, Goto, InSession, Handling, Locations
<1>1. CASE DrainsFinished
  <2>1. ses.term \in {"success", "failed"} BY <1>1 DEF DrainsFinished, Typed, Session
  <2>2. ses' \in Session /\ ses'.pre = ses.pre
    BY <1>1, <2>1, EndedTyped, OutTyped DEF DrainsFinished, Session
  <2>3. box' \in Box /\ (pc' # "closing" => box' = box)
    BY <1>1, NoBoxTyped DEF DrainsFinished, Typed
  <2> QED BY <1>1, <2>2, <2>3 DEF DrainsFinished, Typed
<1>2. CASE DrainsAborted
  <2>1. box.head \in Seq(Commits) /\ ses.since \in Nat /\ mem.commits \in Seq(Commits)
    BY DEF Typed, Box, Session, Progress
  <2>2. After(box.head, ses.since) \in Seq(Commits) BY <2>1, AfterTyped
  <2>3. mem.commits \o After(box.head, ses.since) \in Seq(Commits)
    BY <2>1, <2>2, ConcatProperties
  <2>4. mem' \in Progress BY <1>2, <2>3, CommitsSet DEF DrainsAborted, Typed
  <2>5. OutcomeOf[ses.abort] \in {"paused", "stopped", "failed"}
    BY <1>2 DEF DrainsAborted, OutcomeOf
  <2>6. ses' \in Session /\ ses'.pre = ses.pre
    BY <1>2, <2>5 DEF DrainsAborted, Typed, Session
  <2>7. harm' \subseteq {"commits", "budget", "doubled", "boundary"}
    BY <1>2 DEF DrainsAborted, Typed
  <2> QED BY <1>2, <2>4, <2>6, <2>7 DEF DrainsAborted, Typed
<1>3. CASE DrainsOver
  <2>1. ses' \in Session /\ ses'.pre = ses.pre
    BY <1>3, EndedTyped, OutTyped DEF DrainsOver, Session
  <2> QED BY <1>3, <2>1 DEF DrainsOver, Typed
<1> QED BY <1>1, <1>2, <1>3

LEMMA ExitTyped == ASSUME NoSession' = NoSession, Exit, box' \in Box
                   PROVE  /\ mem' \in Progress /\ ses' \in Session /\ pc' = "off"
                          /\ PreIsPast'
<1>1. mem' \in Progress /\ ses' \in Session /\ pc' = "off" /\ ses'.pre = 0
  BY FreshTyped, NoSessionTyped DEF Exit, NoSession
<1>2. Len(box'.head) \in Nat BY LenProperties DEF Box
<1> QED BY <1>1, <1>2 DEF PreIsPast

LEMMA CloseTyped ==
    ASSUME Typed, ApplyToHost \/ Close
    PROVE  Typed'
<1> USE DEF TypeOK, World, Goto, InSession, Handling, Locations
<1>1. CASE ApplyToHost
  <2>1. ses' \in Session /\ ses'.pre = ses.pre
    BY <1>1 DEF ApplyToHost, Throw, Typed, Session
  <2>2. box' \in Box /\ pc' = "closing" BY <1>1, NoBoxTyped DEF ApplyToHost, Throw, Typed
  <2> QED BY <1>1, <2>1, <2>2 DEF ApplyToHost, Typed, PreIsPast
<1>2. CASE Close
  <2>1. box' \in Box BY <1>2, NoBoxTyped DEF Close, Typed
  <2>2. /\ mem' \in Progress /\ ses' \in Session /\ pc' = "off" /\ PreIsPast'
    BY <1>2, <2>1, ExitTyped DEF Close, NoSession
  <2>3. art' \in Progress /\ st' \in {"starting", "running", "paused", "failed", "completed"}
    BY <1>2 DEF Close, FinalStatus, Typed
  <2> QED BY <1>2, <2>1, <2>2, <2>3 DEF Close, Typed
<1> QED BY <1>1, <1>2

-----------------------------------------------------------------------------
(* Processes that end early, and the next process.                         *)

LEMMA KeptTyped ==
    ASSUME Typed
    PROVE  /\ Kept \in Progress /\ Kept.cursor = art.cursor /\ Kept.based = art.based
           /\ Kept.transition = 0
<1> DEFINE c == IF box.flushed THEN box.file ELSE <<>>
           n == IF box.count # 0 THEN box.count ELSE art.applied
<1>1. art \in Progress /\ c \in Seq(Commits) /\ n \in Nat
  BY DEF Typed, TypeOK, Box, Progress
<1>2. NoBudget \in [Phases -> Nat] /\ 0 \in 0 .. N BY ConstantsTyped DEF NoBudget
<1> HIDE DEF c, n
<1>3. [art EXCEPT !.commits = c] \in Progress BY <1>1, CommitsSet
<1>4. [[art EXCEPT !.commits = c] EXCEPT !.applied = n] \in Progress BY <1>1, <1>3, AppliedSet
<1>5. [[[art EXCEPT !.commits = c] EXCEPT !.applied = n] EXCEPT !.budget = NoBudget] \in Progress
  BY <1>2, <1>4, BudgetSet
<1>6. [[[[art EXCEPT !.commits = c] EXCEPT !.applied = n] EXCEPT !.budget = NoBudget]
          EXCEPT !.transition = 0] \in Progress
  BY <1>2, <1>5, TransitionSet
<1>7. Kept = [[[[art EXCEPT !.commits = c] EXCEPT !.applied = n] EXCEPT !.budget = NoBudget]
                 EXCEPT !.transition = 0]
  BY <1>1 DEF Kept, c, n, Progress
<1>8. Kept.cursor = art.cursor /\ Kept.based = art.based /\ Kept.transition = 0
  BY <1>1 DEF Kept, Progress
<1> QED BY <1>6, <1>7, <1>8

LEMMA EarlyTyped ==
    ASSUME Typed, Interrupt \/ Crash \/ ForceStop
    PROVE  Typed'
<1> USE DEF TypeOK, World, InSession, Handling, Locations
<1>1. CASE Interrupt
  <2>1. box' \in Box BY <1>1, NoBoxTyped DEF Interrupt
  <2>2. /\ mem' \in Progress /\ ses' \in Session /\ pc' = "off" /\ PreIsPast'
    BY <1>1, <2>1, ExitTyped DEF Interrupt, NoSession
  <2>3. art' \in Progress /\ st' \in {"starting", "running", "paused", "failed", "completed"}
    BY <1>1, KeptTyped DEF Interrupt, Typed
  <2>4. harm' \subseteq {"commits", "budget", "doubled", "boundary"}
    BY <1>1 DEF Interrupt, Typed
  <2> QED BY <1>1, <2>1, <2>2, <2>3, <2>4 DEF Interrupt, Typed
<1>2. CASE Crash
  <2>1. box' \in Box BY <1>2, NoBoxTyped DEF Crash
  <2>2. /\ mem' \in Progress /\ ses' \in Session /\ pc' = "off" /\ PreIsPast'
    BY <1>2, <2>1, ExitTyped DEF Crash, NoSession
  <2> QED BY <1>2, <2>1, <2>2 DEF Crash, Typed
<1>3. CASE ForceStop
  BY <1>3 DEF ForceStop, Typed, PreIsPast
<1> QED BY <1>1, <1>2, <1>3

\* The artifact as a new process stores it.
Begun == [art EXCEPT !.tries = NoTries, !.budget = NoBudget, !.transition = 0]

LEMMA BegunTyped ==
    ASSUME art \in Progress
    PROVE  /\ Begun \in Progress /\ Begun.cursor = art.cursor /\ Begun.based = art.based
<1>1. NoTries \in [Subtasks -> Nat] /\ NoBudget \in [Phases -> Nat] /\ 0 \in 0 .. N
  BY ConstantsTyped DEF NoTries, NoBudget
<1>2. [art EXCEPT !.tries = NoTries] \in Progress BY <1>1, TriesSet
<1>3. [[art EXCEPT !.tries = NoTries] EXCEPT !.budget = NoBudget] \in Progress
  BY <1>1, <1>2, BudgetSet
<1>4. [[[art EXCEPT !.tries = NoTries] EXCEPT !.budget = NoBudget] EXCEPT !.transition = 0] \in Progress
  BY <1>1, <1>3, TransitionSet
<1>5. Begun = [[[art EXCEPT !.tries = NoTries] EXCEPT !.budget = NoBudget] EXCEPT !.transition = 0]
  BY DEF Begun, Progress
<1>6. Begun.cursor = art.cursor /\ Begun.based = art.based BY DEF Begun, Progress
<1> QED BY <1>4, <1>5, <1>6

LEMMA BeginTyped ==
    ASSUME Typed, NEW sandbox \in Box, Begin(sandbox)
    PROVE  Typed'
<1> USE DEF TypeOK, Locations
<1>1. art' \in Progress BY BegunTyped DEF Begin, Begun, Typed
<1>2. mem' \in Progress BY BasedTyped DEF Begin, Typed
<1>3. Len(sandbox.head) \in Nat BY LenProperties DEF Box
<1>4. ses' \in Session /\ ses'.pre = Len(sandbox.head)
  BY <1>3, NoSessionTyped DEF Begin, Session, NoSession
<1>5. box' = sandbox /\ pc' = "presync" /\ st' = "running" /\ procs' = procs + 1
  BY DEF Begin, Goto
<1> QED BY <1>1, <1>2, <1>3, <1>4, <1>5 DEF Begin, Typed, PreIsPast

LEMMA NextProcessTyped ==
    ASSUME Typed, Start \/ StartThrows \/ Resume \/ ResumeRebuilds
    PROVE  Typed'
<1>1. art.commits \in Seq(Commits) /\ box \in Box
  BY DEF Typed, TypeOK, Progress
<1>2. NewBox(art.commits) \in Box BY <1>1, NewBoxTyped
<1>3. CASE Start BY <1>2, <1>3, BeginTyped DEF Start
<1>4. CASE StartThrows BY <1>4 DEF StartThrows, Typed, TypeOK, PreIsPast
<1>5. CASE Resume BY <1>1, <1>5, BeginTyped DEF Resume
<1>6. CASE ResumeRebuilds
  <2>1. [box EXCEPT !.scripts = {}] \in Box BY <1>1, ScriptsSet
  <2> QED BY <1>2, <1>6, <2>1, BeginTyped DEF ResumeRebuilds
<1> QED BY <1>3, <1>4, <1>5, <1>6

-----------------------------------------------------------------------------
(* Every step preserves the types.                                         *)

LEMMA InitTyped == Init => Typed
<1> SUFFICES ASSUME Init PROVE Typed OBVIOUS
<1>1. <<>> \in Seq(Commits) /\ Len(<<>>) = 0 OBVIOUS
<1>2. box \in Box /\ box.head = <<>> BY <1>1, NewBoxTyped DEF Init
<1>3. mem \in Progress /\ art \in Progress BY FreshTyped, BasedTyped DEF Init
<1>4. ses \in Session /\ ses.pre = 0 BY NoSessionTyped DEF Init, NoSession
<1> QED BY <1>1, <1>2, <1>3, <1>4, ConstantsTyped
        DEF Init, Typed, TypeOK, PreIsPast, Locations, Commits

LEMMA StepTyped == Typed /\ [Next]_vars => Typed'
<1> SUFFICES ASSUME Typed, [Next]_vars PROVE Typed' OBVIOUS
<1>1. CASE UNCHANGED vars BY <1>1 DEF Typed, TypeOK, PreIsPast, vars
<1>2. CASE Driver
  BY <1>2, BeforeTyped, SessionTyped, JudgeTyped, TestsTyped, VerdictTyped, AdvanceTyped,
     FinishTyped, DrainTyped, CloseTyped DEF Driver
<1>3. CASE AgentCommits \/ Abort BY <1>3, SessionTyped
<1>4. CASE Interrupt \/ Crash \/ ForceStop BY <1>4, EarlyTyped
<1>5. CASE Start \/ StartThrows \/ Resume \/ ResumeRebuilds BY <1>5, NextProcessTyped
<1> QED BY <1>1, <1>2, <1>3, <1>4, <1>5 DEF Next

LEMMA AlwaysTyped == Spec => []Typed
BY InitTyped, StepTyped, PTL DEF Spec

\* Every reachable state of runIterativeLoop and of what it leaves on disk is
\* well typed: no cursor beyond the subtasks, no round that starts behind the
\* history it is cut from.
THEOREM TypeCorrect == Spec => []TypeOK
<1>1. Typed => TypeOK BY DEF Typed
<1> QED BY AlwaysTyped, <1>1, PTL

-----------------------------------------------------------------------------
(* The inductive invariant of cursor, transition, phase bases and scripts. *)

Working == {"work"} \union Handling
Live == InSession \union {"presync", "recover", "boot", "refresh"}

\* What a process knows is never behind what is stored.
Ahead == pc # "off" => art.cursor <= mem.cursor

\* Only a session that has ended moves to a new container.
MovingOnly == ses.moving => pc \in {"drained", "refresh", "applying", "closing"}

\* The phases of the subtasks done have their base.
Grounded(m) == \A i \in Subtasks :
                  i < m.cursor /\ PhaseOf[i] # NoPhase => PhaseOf[i] \in m.based
BasesStay == Grounded(art) /\ (pc # "off" => Grounded(mem))
HasBase == pc \in Live /\ PhaseOf[mem.cursor] # NoPhase => PhaseOf[mem.cursor] \in mem.based

\* No container starts, and no agent works, while a transition is pending.
NothingPending == pc \in Working \union {"boot"} => mem.transition = 0

RunsAreRunning == pc # "off" => st = "running"

\* The scripts in the sandbox are the run's own, those of the subtask, or about
\* to be replaced.
Right(m) == box.scripts = {} \/ box.scripts = ScriptsOf(m.cursor) \/ m.transition # 0
ScriptsFollow ==
    "boundary" \notin harm =>
        /\ pc # "off" => Right(mem)
        /\ pc = "off" /\ st = "paused" => Right(art)

Inv == /\ Ahead /\ MovingOnly /\ TransitionOnDisk /\ BasesStay /\ HasBase
       /\ NothingPending /\ RunsAreRunning /\ ScriptsFollow

\* A step that changes neither the cursor nor what goes with it.
Known(m) == <<m.cursor, m.based, m.transition>>

Steady ==
    /\ pc # "off" /\ pc' # "off"
    /\ Known(mem') = Known(mem)
    /\ Known(art') = Known(art) \/ Known(art') = Known(mem)
    /\ ses'.moving => ses.moving /\ art' = art
                      /\ pc' \in {"drained", "refresh", "applying", "closing"}
    /\ box'.scripts = box.scripts \/ box'.scripts = {}
    /\ st' = st /\ harm \subseteq harm'
    /\ pc' \in Working \union {"boot"} => pc \in Working \union {"boot"} \/ mem.transition = 0
    /\ pc' \in Live => pc \in Live
    /\ pc' = "refresh" => pc = "drained" /\ ses.moving /\ art' = art

LEMMA SteadyKeeps == ASSUME Typed, Inv, Steady PROVE Inv'
<1>1. /\ mem'.cursor = mem.cursor /\ mem'.based = mem.based /\ mem'.transition = mem.transition
  BY DEF Steady, Known
<1>2. \/ art'.cursor = art.cursor /\ art'.based = art.based /\ art'.transition = art.transition
      \/ art'.cursor = mem.cursor /\ art'.based = mem.based /\ art'.transition = mem.transition
  BY DEF Steady, Known
<1>3. mem.cursor \in Nat /\ art.cursor \in Nat
  <2>1. mem \in Progress /\ art \in Progress BY DEF Typed, TypeOK
  <2>2. mem.cursor \in Subtasks /\ art.cursor \in Subtasks BY <2>1 DEF Progress
  <2> QED BY <2>2 DEF Subtasks
<1>4. Ahead' BY <1>1, <1>2, <1>3 DEF Inv, Ahead, Steady
<1>5. MovingOnly' BY DEF Steady, MovingOnly
<1>6. TransitionOnDisk'
  <2>1. CASE pc' = "refresh" BY <1>1, <2>1 DEF Inv, TransitionOnDisk, Steady
  <2>2. CASE pc' = "drained" /\ ses'.moving
    <3>1. ses.moving /\ art' = art /\ pc \in Live BY <2>2 DEF Steady, Live, InSession
    <3>2. pc \in {"drained", "refresh"}
      BY <3>1 DEF Inv, MovingOnly, Live, InSession, Handling
    <3> QED BY <1>1, <3>1, <3>2 DEF Inv, TransitionOnDisk
  <2> QED BY <2>1, <2>2 DEF TransitionOnDisk
<1>7. BasesStay'
  <2>1. Grounded(mem) /\ Grounded(art) BY DEF Inv, BasesStay, Steady
  <2>2. Grounded(mem') /\ Grounded(art') BY <1>1, <1>2, <2>1 DEF Grounded
  <2> QED BY <2>2 DEF BasesStay, Grounded
<1>8. HasBase' BY <1>1 DEF Inv, HasBase, Steady, Live, InSession, Handling
<1>9. NothingPending' BY <1>1 DEF Inv, NothingPending, Steady
<1>10. RunsAreRunning' BY DEF Inv, RunsAreRunning, Steady
<1>11. ScriptsFollow'
  <2>1. SUFFICES ASSUME "boundary" \notin harm' PROVE Right(mem)'
    BY DEF ScriptsFollow, Steady
  <2>2. Right(mem) BY <2>1 DEF Inv, ScriptsFollow, Steady
  <2>3. ScriptsOf(mem'.cursor) = ScriptsOf(mem.cursor) BY <1>1
  <2> QED BY <1>1, <2>2, <2>3 DEF Right, Steady, ScriptsOf
<1> QED BY <1>4, <1>5, <1>6, <1>7, <1>8, <1>9, <1>10, <1>11 DEF Inv

\* The fields that Steady compares.
LEMMA SameKnown ==
    ASSUME NEW m \in Progress
    PROVE  /\ Known(Counted(m)) = Known(m) /\ Known(Tried(m)) = Known(m)
           /\ \A c \in Seq(Commits) : Known([m EXCEPT !.commits = c]) = Known(m)
           /\ \A n \in Nat : Known([m EXCEPT !.applied = n]) = Known(m)
<1>1. Known(Counted(m)) = Known(m) BY CountedFields DEF Known
<1>2. Known(Tried(m)) = Known(m) BY TriedFields DEF Known
<1>3. \A c \in Seq(Commits) : Known([m EXCEPT !.commits = c]) = Known(m) BY DEF Known, Progress
<1>4. \A n \in Nat : Known([m EXCEPT !.applied = n]) = Known(m) BY DEF Known, Progress
<1> QED BY <1>1, <1>2, <1>3, <1>4

LEMMA SavedKnown ==
    ASSUME NEW m \in Progress, art' \in Saved(m)
    PROVE  art' = m \/ art' = art
BY DEF Saved

LEMMA BeforeSteady ==
    ASSUME Typed, Inv, PreRoundSync \/ SetupThrows \/ Boot
    PROVE  Steady
<1> USE DEF Steady, World, Goto, Live, InSession, Handling, Working, Known
<1>0. ses \in Session BY DEF Typed, TypeOK
<1>1. CASE PreRoundSync
  <2>1. ~ses.moving /\ ~ses'.moving BY <1>0, <1>1 DEF PreRoundSync, Inv, MovingOnly, Session
  <2> QED BY <1>1, <2>1 DEF PreRoundSync
<1>2. CASE SetupThrows
  <2>1. ses'.moving = ses.moving BY <1>0, <1>2 DEF SetupThrows, Throw, Session
  <2> QED BY <1>2, <2>1 DEF SetupThrows, Throw
<1>3. CASE Boot
  <2>1. ~ses.moving BY <1>3 DEF Boot, Inv, MovingOnly
  <2>2. mem.transition = 0 BY <1>3 DEF Boot, Inv, NothingPending
  <2> QED BY <1>3, <2>1, <2>2, SavedKnown DEF Boot, Remember, Typed, TypeOK
<1> QED BY <1>1, <1>2, <1>3

LEMMA SessionSteady ==
    ASSUME Typed, Inv, AgentCommits \/ Abort \/ AgentReports \/ SessionDrains
    PROVE  Steady
<1> USE DEF Steady, World, Goto, Live, InSession, Handling, Working
<1>0. ses \in Session /\ box \in Box /\ mem \in Progress BY DEF Typed, TypeOK
<1>1. CASE AgentCommits
  <2>1. box'.scripts = box.scripts BY <1>0, <1>1 DEF AgentCommits, Box
  <2>2. ~ses.moving BY <1>1 DEF AgentCommits, Inv, MovingOnly
  <2> QED BY <1>1, <2>1, <2>2 DEF AgentCommits
<1>2. CASE Abort
  <2>1. ses'.moving = ses.moving BY <1>0, <1>2 DEF Abort, Session
  <2>2. ses.moving => pc \in {"drained", "refresh", "applying", "closing"}
    BY DEF Inv, MovingOnly
  <2> QED BY <1>2, <2>1, <2>2 DEF Abort
<1>3. CASE AgentReports
  <2>1. Known(mem') = Known(mem) BY <1>0, <1>3, SameKnown DEF AgentReports
  <2>2. ~ses.moving BY <1>3 DEF AgentReports, Inv, MovingOnly
  <2> QED BY <1>3, <2>1, <2>2 DEF AgentReports
<1>4. CASE SessionDrains
  BY <1>4 DEF SessionDrains
<1> QED BY <1>1, <1>2, <1>3, <1>4

LEMMA JudgeSteady ==
    ASSUME Typed, Inv, Sync \/ Violates \/ ResetRound \/ NoChanges \/ AppendRound
    PROVE  Steady
<1> USE DEF Steady, World, Goto, Live, InSession, Handling, Working
<1>0. ses \in Session /\ box \in Box /\ mem \in Progress /\ art \in Progress BY DEF Typed, TypeOK
<1>1. pc \in {"sync", "judge", "undo"}
  BY DEF Sync, Violates, ResetRound, NoChanges, AppendRound
<1>2. ~ses.moving BY <1>1 DEF Inv, MovingOnly
<1>3. ~ses'.moving
  BY <1>0, <1>2 DEF Sync, Violates, ResetRound, NoChanges, AppendRound, Session
<1>4. box'.scripts = box.scripts
  BY <1>0 DEF Sync, Violates, ResetRound, NoChanges, AppendRound, Box
<1>5. CASE Sync BY <1>1, <1>3, <1>4, <1>5 DEF Sync
<1>6. CASE Violates \/ NoChanges
  <2>1. mem' = Tried(mem) /\ art' \in Saved(Tried(mem)) /\ pc = "judge"
    BY <1>6 DEF Violates, NoChanges, Remember
  <2>2. Known(mem') = Known(mem) /\ (Known(art') = Known(art) \/ Known(art') = Known(mem))
    BY <1>0, <2>1, SameKnown, TriedTyped, SavedKnown
  <2>3. UNCHANGED World /\ pc' \in {"undo", "drained", "budget"}
    BY <1>6 DEF Violates, NoChanges
  <2> QED BY <1>3, <1>4, <2>1, <2>2, <2>3
<1>7. CASE ResetRound BY <1>1, <1>3, <1>4, <1>7 DEF ResetRound
<1>8. CASE AppendRound
  <2>1. pc # "closing" BY <1>1
  <2>2. Known(mem') = Known(mem)
    BY <1>0, <1>8, <2>1, HistoriesTyped, SameKnown DEF AppendRound
  <2> QED BY <1>1, <1>3, <1>4, <1>8, <2>2 DEF AppendRound
<1> QED BY <1>5, <1>6, <1>7, <1>8

LEMMA TestsSteady ==
    ASSUME Typed, Inv, Verify \/ Bypass \/ TestsPass \/ TestsFail \/ TestsThrow
    PROVE  Steady
<1> USE DEF Steady, World, Goto, Live, InSession, Handling, Working
<1>0. ses \in Session /\ mem \in Progress /\ art \in Progress BY DEF Typed, TypeOK
<1>1. pc \in {"verify", "testing"} BY DEF Verify, Bypass, TestsPass, TestsFail, TestsThrow
<1>2. ~ses.moving BY <1>1 DEF Inv, MovingOnly
<1>3. ~ses'.moving
  BY <1>0, <1>2 DEF Verify, Bypass, TestsPass, TestsFail, TestsThrow, Session
<1>4. box' = box /\ UNCHANGED World /\ pc' \in InSession
  BY DEF Verify, Bypass, TestsPass, TestsFail, TestsThrow
<1>5. Known(mem') = Known(mem) /\ (Known(art') = Known(art) \/ Known(art') = Known(mem))
  <2>1. CASE Verify BY <1>0, <2>1, SavedKnown DEF Verify
  <2>2. CASE TestsFail
    <3>1. mem' = Tried(mem) /\ art' \in Saved(Tried(mem)) BY <2>2 DEF TestsFail, Remember
    <3> QED BY <1>0, <3>1, SameKnown, TriedTyped, SavedKnown
  <2>3. CASE Bypass \/ TestsPass \/ TestsThrow BY <2>3 DEF Bypass, TestsPass, TestsThrow
  <2> QED BY <2>1, <2>2, <2>3
<1> QED BY <1>1, <1>3, <1>4, <1>5

LEMMA VerdictSteady ==
    ASSUME Typed, Inv, DiscardRound \/ GiveUp \/ Pass \/ Budget \/ Finish
    PROVE  Steady
<1> USE DEF Steady, World, Goto, Live, InSession, Handling, Working
<1>0. ses \in Session /\ box \in Box /\ mem \in Progress /\ art \in Progress BY DEF Typed, TypeOK
<1>1. pc \in {"exhausted", "aborted", "passed", "complete", "budget", "advance"}
  BY DEF DiscardRound, GiveUp, Pass, Budget, Finish
<1>2. ~ses.moving BY <1>1 DEF Inv, MovingOnly
<1>3. ~ses'.moving
  BY <1>0, <1>2 DEF DiscardRound, GiveUp, Pass, Budget, Finish, Session
<1>4. box'.scripts = box.scripts
  BY <1>0 DEF DiscardRound, GiveUp, Pass, Budget, Finish, Box
<1>5. st' = st /\ harm' = harm /\ pc' \in {"budget", "undo", "drained", "advance", "work"}
  BY DEF DiscardRound, GiveUp, Pass, Budget, Finish
<1>6. pc # "closing" /\ pc \in Working BY <1>1
<1>7. Known(mem') = Known(mem) /\ (Known(art') = Known(art) \/ Known(art') = Known(mem))
  <2>1. CASE Pass
    <3>1. mem' = Tried(mem) /\ art' \in Saved(Tried(mem)) BY <2>1 DEF Pass, Remember
    <3> QED BY <1>0, <3>1, SameKnown, TriedTyped, SavedKnown
  <2>2. CASE DiscardRound \/ GiveUp
    <3>1. art' = art /\ mem' = [mem EXCEPT !.commits = WithoutRound]
      BY <2>2 DEF DiscardRound, GiveUp
    <3>2. WithoutRound \in Seq(Commits) BY <1>6, HistoriesTyped
    <3> QED BY <1>0, <3>1, <3>2, SameKnown
  <2>3. CASE Budget BY <2>3 DEF Budget
  <2>4. CASE Finish
    <3>1. art' = art /\ mem' = [mem EXCEPT !.applied = Applied] /\ HostExtract
      BY <2>4 DEF Finish
    <3> QED BY <1>0, <3>1, ExtractTyped, SameKnown
  <2> QED BY <2>1, <2>2, <2>3, <2>4
<1> QED BY <1>1, <1>3, <1>4, <1>5, <1>6, <1>7

LEMMA DrainSteady ==
    ASSUME Typed, Inv, DrainsFinished \/ DrainsAborted \/ DrainsOver
    PROVE  Steady
<1> USE DEF Steady, World, Goto, Live, InSession, Handling, Working
<1>0. ses \in Session /\ box \in Box /\ mem \in Progress /\ art \in Progress BY DEF Typed, TypeOK
<1>1. Ended.moving = ses.moving /\ Ended \in Session BY EndedTyped
<1>2. CASE DrainsFinished
  <2>1. ses'.moving = ses.moving BY <1>1, <1>2 DEF DrainsFinished, Session
  <2>2. box'.scripts = box.scripts \/ box'.scripts = {}
    BY <1>2 DEF DrainsFinished, NoBox, NewBox
  <2> QED BY <1>2, <2>1, <2>2 DEF DrainsFinished
<1>3. CASE DrainsAborted
  <2>1. ~ses'.moving BY <1>0, <1>3 DEF DrainsAborted, Session
  <2>2. Known(mem') = Known(mem) BY <1>0, <1>3 DEF DrainsAborted, Known, Progress
  <2> QED BY <1>3, <2>1, <2>2 DEF DrainsAborted
<1>4. CASE DrainsOver
  <2>1. ses'.moving = ses.moving BY <1>1, <1>4 DEF DrainsOver, Session
  <2> QED BY <1>4, <2>1 DEF DrainsOver
<1> QED BY <1>2, <1>3, <1>4

LEMMA ApplySteady ==
    ASSUME Typed, Inv, ApplyToHost
    PROVE  Steady
<1> USE DEF Steady, World, Goto, Live, InSession, Handling, Working
<1>0. ses \in Session /\ box \in Box /\ mem \in Progress /\ art \in Progress BY DEF Typed, TypeOK
<1>1. ses'.moving = ses.moving BY <1>0 DEF ApplyToHost, Throw, Session
<1>2. box'.scripts = box.scripts \/ box'.scripts = {} BY DEF ApplyToHost, NoBox, NewBox
<1> QED BY <1>1, <1>2 DEF ApplyToHost, Throw

-----------------------------------------------------------------------------
(* The steps that do change them.                                          *)

\* A new process, and one that goes to the next subtask, record the base of a
\* phase whose implementation they come to; a later row of the phase has it.
LEMMA BasedHasBase ==
    ASSUME NEW m \in Progress, Grounded(m)
    PROVE  /\ Grounded(Based(m))
           /\ PhaseOf[m.cursor] # NoPhase => PhaseOf[m.cursor] \in Based(m).based
<1>1. Based(m).cursor = m.cursor /\ m.based \subseteq Based(m).based BY BasedFields
<1>2. Grounded(Based(m)) BY <1>1 DEF Grounded
<1>3. ASSUME PhaseOf[m.cursor] # NoPhase PROVE PhaseOf[m.cursor] \in Based(m).based
  <2>1. CASE IsImpl(m.cursor)
    <3>1. Based(m) = [m EXCEPT !.based = @ \union {PhaseOf[m.cursor]}]
      BY <1>3, <2>1 DEF Based
    <3> QED BY <3>1 DEF Progress
  <2>2. CASE ~IsImpl(m.cursor)
    <3>1. PICK j \in Subtasks : PhaseOf[j] = PhaseOf[m.cursor] /\ ~(m.cursor <= j)
      BY <2>2 DEF IsImpl
    <3>2. j < m.cursor BY <3>1, ConstantsTyped DEF Subtasks, Progress
    <3>3. PhaseOf[m.cursor] \in m.based BY <1>3, <3>1, <3>2 DEF Grounded
    <3> QED BY <1>1, <3>3
  <2> QED BY <2>1, <2>2
<1> QED BY <1>2, <1>3

LEMMA PartsTyped ==
    ASSUME Typed
    PROVE  /\ mem \in Progress /\ art \in Progress /\ ses \in Session /\ box \in Box
           /\ mem.cursor \in Nat /\ art.cursor \in Nat
<1>1. mem \in Progress /\ art \in Progress /\ ses \in Session /\ box \in Box
  BY DEF Typed, TypeOK
<1>2. mem.cursor \in Subtasks /\ art.cursor \in Subtasks BY <1>1 DEF Progress
<1> QED BY <1>1, <1>2, ConstantsTyped DEF Subtasks

LEMMA CompleteRestartKeeps == ASSUME Typed, Inv, CompleteRestart PROVE Inv'
<1> DEFINE m == [mem EXCEPT !.transition = 0]
<1>0. /\ mem \in Progress /\ art \in Progress /\ ses \in Session /\ box \in Box
      /\ mem.cursor \in Nat /\ art.cursor \in Nat
  BY PartsTyped
<1>1. mem' = m /\ (art' = m \/ art' = art)
  BY DEF CompleteRestart, Remember, Saved
<1>2. m.cursor = mem.cursor /\ m.based = mem.based /\ m.transition = 0
  BY <1>0 DEF Progress
<1>3. pc \in {"recover", "refresh"} /\ pc' = "boot" /\ ~ses'.moving
      /\ box'.scripts = ScriptsOf(mem.cursor) /\ UNCHANGED World
  BY <1>0 DEF CompleteRestart, Goto, Session, Box, Refreshed
<1>4. Ahead /\ BasesStay /\ HasBase /\ RunsAreRunning BY DEF Inv
<1> HIDE DEF m
<1>5. Ahead' BY <1>0, <1>1, <1>2, <1>3, <1>4 DEF Ahead
<1>6. MovingOnly' /\ TransitionOnDisk' BY <1>3 DEF MovingOnly, TransitionOnDisk
<1>7. BasesStay'
  <2>1. Grounded(m) /\ Grounded(art) BY <1>2, <1>3, <1>4 DEF BasesStay, Grounded
  <2> QED BY <1>1, <2>1 DEF BasesStay, Grounded
<1>8. HasBase' BY <1>1, <1>2, <1>3, <1>4 DEF HasBase, Live
<1>9. NothingPending' BY <1>1, <1>2 DEF NothingPending
<1>10. RunsAreRunning' BY <1>3, <1>4 DEF RunsAreRunning, World
<1>11. ScriptsFollow' BY <1>1, <1>2, <1>3 DEF ScriptsFollow, Right, ScriptsOf
<1> QED BY <1>5, <1>6, <1>7, <1>8, <1>9, <1>10, <1>11 DEF Inv

\* A subtask that needs no fresh container has the scripts of the one before.
LEMMA SameScripts ==
    ASSUME NEW i \in Subtasks, i + 1 \in Subtasks, i + 1 \notin Restarts
    PROVE  ScriptsOf(i + 1) = ScriptsOf(i)
<1>1. i \in Nat /\ i >= 1 BY ConstantsTyped DEF Subtasks
<1>2. \A j \in Restarts \union {1} : j \in Nat /\ j # i + 1 /\ (j <= i + 1 <=> j <= i)
  BY <1>1, ConstantsTyped DEF Subtasks
<1> QED BY <1>2 DEF ScriptsOf

LEMMA AdvanceKeeps == ASSUME Typed, Inv, Advance PROVE Inv'
<1> DEFINE next == NextProgress
           flag == [next EXCEPT !.transition = next.cursor]
<1>0. /\ mem \in Progress /\ art \in Progress /\ ses \in Session /\ box \in Box
      /\ mem.cursor \in Nat /\ art.cursor \in Nat
  BY PartsTyped
<1>1. HostExtract /\ mem.cursor < N /\ pc = "advance" /\ st' = st BY DEF Advance
<1>2. /\ mem.cursor + 1 \in Subtasks /\ mem.cursor \in Subtasks /\ next \in Progress
      /\ next.cursor = mem.cursor + 1 /\ next.transition = mem.transition
      /\ mem.based \subseteq next.based
  BY <1>1, NextTyped
<1>3. \/ /\ next.cursor \notin Restarts
         /\ mem' = next /\ art' = art /\ ses' = Rebase /\ pc' = "work" /\ harm' = harm
      \/ /\ next.cursor \in Restarts
         /\ mem' = flag /\ art' = flag /\ ses' = [Rebase EXCEPT !.moving = TRUE]
         /\ pc' = "drained" /\ harm' = harm
      \/ /\ mem' = next /\ art' = art /\ ses' = [Rebase EXCEPT !.abort = FirstAbort(@, "stop")]
         /\ pc' = "drained" /\ harm' = harm \union {"boundary"}
  BY Zenon DEF Advance, NextProgress, SaveOrThrow, Goto
<1>4. flag.cursor = next.cursor /\ flag.based = next.based /\ flag.transition = next.cursor
  BY <1>2 DEF Progress
<1>5. mem.transition = 0 /\ ~ses.moving
  BY <1>1 DEF Inv, NothingPending, Working, Handling, MovingOnly
<1>6. Rebase.moving = ses.moving /\ Rebase \in Session
  BY <1>0, LenProperties DEF Rebase, Session, Box
<1>7. box'.scripts = box.scripts BY <1>0 DEF Advance, Box
<1>8. Ahead /\ BasesStay /\ HasBase /\ RunsAreRunning /\ ScriptsFollow BY DEF Inv
<1>9. /\ Grounded(art) /\ Grounded(next)
      /\ PhaseOf[next.cursor] # NoPhase => PhaseOf[next.cursor] \in next.based
  <2> DEFINE moved == [mem EXCEPT !.cursor = @ + 1, !.applied = Applied]
  <2>1. Applied \in Nat BY <1>1, ExtractTyped
  <2>2. moved.cursor = mem.cursor + 1 /\ moved.based = mem.based BY <1>0 DEF Progress
  <2>3. moved \in Progress
    <3>1. [mem EXCEPT !.cursor = mem.cursor + 1] \in Progress BY <1>0, <1>2, CursorSet
    <3>2. [[mem EXCEPT !.cursor = mem.cursor + 1] EXCEPT !.applied = Applied] \in Progress
      BY <2>1, <3>1, AppliedSet
    <3> QED BY <3>2, Zenon
  <2>4. Grounded(moved)
    <3>1. Grounded(mem) BY <1>1, <1>8 DEF BasesStay
    <3>2. PhaseOf[mem.cursor] # NoPhase => PhaseOf[mem.cursor] \in mem.based
      BY <1>1, <1>8 DEF HasBase, Live, InSession, Handling
    <3>3. ASSUME NEW i \in Subtasks, i < mem.cursor + 1, PhaseOf[i] # NoPhase
          PROVE  PhaseOf[i] \in mem.based
      <4>1. i < mem.cursor \/ i = mem.cursor BY <1>0, <3>3, ConstantsTyped DEF Subtasks
      <4> QED BY <3>1, <3>2, <3>3, <4>1 DEF Grounded
    <3> QED BY <2>2, <3>3 DEF Grounded
  <2>5. next = Based(moved) BY DEF NextProgress
  <2>6. moved.cursor = next.cursor BY <1>2, <2>2
  <2> HIDE DEF moved, next
  <2> QED BY <1>8, <2>3, <2>4, <2>5, <2>6, BasedHasBase DEF BasesStay
<1> HIDE DEF next, flag
<1>10. Ahead' BY <1>0, <1>1, <1>2, <1>3, <1>4, <1>8 DEF Ahead
<1>11. MovingOnly' BY <1>3, <1>5, <1>6 DEF MovingOnly, Session
<1>12. TransitionOnDisk' BY <1>3, <1>4, <1>5, <1>6 DEF TransitionOnDisk, Session
<1>13. BasesStay' BY <1>3, <1>4, <1>9 DEF BasesStay, Grounded
<1>14. HasBase' BY <1>3, <1>4, <1>9 DEF HasBase
<1>15. NothingPending' BY <1>2, <1>3, <1>5 DEF NothingPending, Working, Handling
<1>16. RunsAreRunning' BY <1>1, <1>3, <1>8 DEF RunsAreRunning
<1>17. ScriptsFollow'
  <2>1. CASE "boundary" \in harm' BY <2>1 DEF ScriptsFollow
  <2>2. CASE "boundary" \notin harm'
    <3>1. pc' # "off" BY <1>3
    <3>2. Right(mem) BY <1>1, <1>3, <1>8, <2>2 DEF ScriptsFollow
    <3>3. box.scripts = {} \/ box.scripts = ScriptsOf(mem.cursor) BY <1>5, <3>2 DEF Right
    <3>4. CASE mem' = flag
      <4>1. mem'.transition # 0 BY <1>0, <1>2, <1>4, <3>4
      <4> QED BY <3>1, <4>1 DEF ScriptsFollow, Right
    <3>5. CASE mem' = next /\ next.cursor \notin Restarts
      <4>1. ScriptsOf(next.cursor) = ScriptsOf(mem.cursor) BY <1>2, <3>5, SameScripts
      <4> QED BY <1>7, <3>1, <3>3, <3>5, <4>1 DEF ScriptsFollow, Right
    <3> QED BY <1>3, <2>2, <3>4, <3>5
  <2> QED BY <2>1, <2>2
<1> QED BY <1>10, <1>11, <1>12, <1>13, <1>14, <1>15, <1>16, <1>17 DEF Inv

\* A process that ends leaves what is stored.
LEMMA ExitKeeps ==
    ASSUME Exit, Grounded(art'),
           st' = "paused" /\ "boundary" \notin harm' => Right(art)'
    PROVE  Inv'
<1>1. pc' = "off" /\ ~ses'.moving BY DEF Exit, NoSession
<1>2. BasesStay' BY <1>1 DEF BasesStay, Grounded
<1>3. ScriptsFollow' BY <1>1 DEF ScriptsFollow
<1>4. Ahead' /\ MovingOnly' /\ TransitionOnDisk' /\ HasBase' /\ NothingPending' /\ RunsAreRunning'
  BY <1>1 DEF Ahead, MovingOnly, TransitionOnDisk, HasBase, NothingPending, RunsAreRunning,
              Live, InSession, Handling, Working
<1> QED BY <1>2, <1>3, <1>4 DEF Inv

LEMMA CloseKeeps == ASSUME Typed, Inv, Close PROVE Inv'
<1>1. /\ pc = "closing" /\ Exit /\ harm' = harm
      /\ \/ art' = mem /\ st' = FinalStatus
         \/ art' = art /\ st' = st
      /\ box' = IF ses.out = "paused" THEN box ELSE NoBox
  BY DEF Close
<1>2. st = "running" BY <1>1 DEF Inv, RunsAreRunning
<1>3. Grounded(art') BY <1>1 DEF Inv, BasesStay, Grounded
<1>4. ASSUME st' = "paused", "boundary" \notin harm' PROVE Right(art)'
  <2>1. art' = mem /\ FinalStatus = "paused" BY <1>1, <1>2, <1>4
  <2>2. ses.out = "paused" BY <2>1 DEF FinalStatus
  <2>3. box' = box BY <1>1, <2>2
  <2>4. Right(mem) BY <1>1, <1>4 DEF Inv, ScriptsFollow
  <2> QED BY <2>1, <2>3, <2>4 DEF Right, ScriptsOf
<1> QED BY <1>1, <1>3, <1>4, ExitKeeps

LEMMA EarlyKeeps == ASSUME Typed, Inv, Interrupt \/ Crash \/ ForceStop PROVE Inv'
<1>1. CASE Interrupt
  <2>1. Exit /\ pc # "off" BY <1>1 DEF Interrupt
  <2>2. Grounded(art') BY <1>1, KeptTyped DEF Interrupt, Inv, BasesStay, Grounded
  <2>3. st' # "paused" BY <1>1, <2>1 DEF Interrupt, Inv, RunsAreRunning
  <2> QED BY <2>1, <2>2, <2>3, ExitKeeps
<1>2. CASE Crash
  <2>1. Exit /\ pc # "off" BY <1>2 DEF Crash
  <2>2. Grounded(art') BY <1>2 DEF Crash, Inv, BasesStay, Grounded
  <2>3. st' # "paused" BY <1>2, <2>1 DEF Crash, World, Inv, RunsAreRunning
  <2> QED BY <2>1, <2>2, <2>3, ExitKeeps
<1>3. CASE ForceStop
  BY <1>3 DEF ForceStop, Inv, Ahead, MovingOnly, TransitionOnDisk, BasesStay, Grounded, HasBase,
              NothingPending, RunsAreRunning, ScriptsFollow
<1> QED BY <1>1, <1>2, <1>3

\* Whatever sandbox it takes, as long as its scripts are right.
LEMMA BeginKeeps ==
    ASSUME Typed, Inv, NEW sandbox \in Box, Begin(sandbox),
           "boundary" \notin harm =>
               \/ sandbox.scripts = {} \/ sandbox.scripts = ScriptsOf(art.cursor)
               \/ art.transition # 0
    PROVE  Inv'
<1>1. /\ pc' = "presync" /\ box' = sandbox /\ st' = "running" /\ harm' = harm
      /\ art' = Begun /\ mem' = Based(art)
      /\ ~ses'.moving
  BY DEF Begin, Goto, Begun, NoSession
<1>2. art \in Progress /\ art.cursor \in Nat BY PartsTyped
<1>3. Begun.cursor = art.cursor /\ Begun.based = art.based BY <1>2, BegunTyped
<1>4. /\ Based(art).cursor = art.cursor /\ Based(art).transition = art.transition
      /\ art.based \subseteq Based(art).based
  BY <1>2, BasedFields
<1>5. Grounded(art) BY DEF Inv, BasesStay
<1>6. /\ Grounded(Based(art))
      /\ PhaseOf[art.cursor] # NoPhase => PhaseOf[art.cursor] \in Based(art).based
  BY <1>2, <1>5, BasedHasBase
<1>7. mem'.cursor = art.cursor /\ mem'.transition = art.transition
  BY <1>1, <1>4
<1>8. Ahead' BY <1>1, <1>2, <1>3, <1>7 DEF Ahead
<1>9. MovingOnly' /\ TransitionOnDisk' /\ NothingPending' /\ RunsAreRunning'
  BY <1>1 DEF MovingOnly, TransitionOnDisk, NothingPending, RunsAreRunning, Working, Handling
<1>10. BasesStay'
  <2>1. Grounded(art') BY <1>1, <1>3, <1>5 DEF Grounded
  <2>2. Grounded(mem') BY <1>1, <1>5, <1>6
  <2> QED BY <2>1, <2>2 DEF BasesStay, Grounded
<1>11. HasBase' BY <1>1, <1>4, <1>6 DEF HasBase
<1>12. ScriptsFollow' BY <1>1, <1>7 DEF ScriptsFollow, Right, ScriptsOf
<1> QED BY <1>8, <1>9, <1>10, <1>11, <1>12 DEF Inv

LEMMA NextProcessKeeps ==
    ASSUME Typed, Inv, Start \/ StartThrows \/ Resume \/ ResumeRebuilds
    PROVE  Inv'
<1>1. art \in Progress /\ box \in Box BY PartsTyped
<1>2. art.commits \in Seq(Commits) BY <1>1 DEF Progress
<1>3. NewBox(art.commits) \in Box /\ NewBox(art.commits).scripts = {}
  BY <1>2, NewBoxTyped DEF NewBox
<1>4. CASE Start BY <1>3, <1>4, BeginKeeps DEF Start
<1>5. CASE StartThrows
  BY <1>5 DEF StartThrows, Inv, Ahead, MovingOnly, TransitionOnDisk, BasesStay, Grounded, HasBase,
              NothingPending, RunsAreRunning, ScriptsFollow
<1>6. CASE Resume
  <2>1. "boundary" \notin harm => Right(art) BY <1>6 DEF Resume, Inv, ScriptsFollow
  <2> QED BY <1>1, <1>6, <2>1, BeginKeeps DEF Resume, Right
<1>7. CASE ResumeRebuilds
  <2>1. [box EXCEPT !.scripts = {}] \in Box /\ [box EXCEPT !.scripts = {}].scripts = {}
    BY <1>1, ScriptsSet DEF Box
  <2> QED BY <1>3, <1>7, <2>1, BeginKeeps DEF ResumeRebuilds
<1> QED BY <1>4, <1>5, <1>6, <1>7

-----------------------------------------------------------------------------
(* Every step preserves the invariant.                                     *)

\* All steps of a process but the three that change what Steady compares.
LEMMA DriverSteady ==
    ASSUME Typed, Inv, Driver \/ AgentCommits \/ Abort
    PROVE  Steady \/ CompleteRestart \/ Advance \/ Close
BY BeforeSteady, SessionSteady, JudgeSteady, TestsSteady, VerdictSteady, DrainSteady, ApplySteady
   DEF Driver

LEMMA InitInv == Init => Inv
<1> SUFFICES ASSUME Init PROVE Inv OBVIOUS
<1>1. /\ pc = "presync" /\ st = "running" /\ art = Fresh /\ mem = Based(Fresh)
      /\ ~ses.moving /\ box.scripts = {}
  BY DEF Init, NoSession, NewBox
<1>2. Fresh \in Progress /\ Fresh.cursor = 1 /\ Fresh.transition = 0
  BY FreshTyped DEF Fresh
<1>3. Based(Fresh).cursor = 1 BY <1>2, BasedFields
<1>4. Grounded(Fresh) BY <1>2, ConstantsTyped DEF Grounded, Subtasks
<1>5. /\ Grounded(Based(Fresh))
      /\ PhaseOf[1] # NoPhase => PhaseOf[1] \in Based(Fresh).based
  BY <1>2, <1>4, BasedHasBase
<1>6. Ahead BY <1>1, <1>2, <1>3 DEF Ahead
<1>7. BasesStay /\ HasBase BY <1>1, <1>3, <1>4, <1>5 DEF BasesStay, HasBase
<1>8. MovingOnly /\ TransitionOnDisk /\ NothingPending /\ RunsAreRunning /\ ScriptsFollow
  BY <1>1 DEF MovingOnly, TransitionOnDisk, NothingPending, RunsAreRunning, ScriptsFollow,
              Right, Working, Handling
<1> QED BY <1>6, <1>7, <1>8 DEF Inv

LEMMA StepInv == Typed /\ Inv /\ [Next]_vars => Inv'
<1> SUFFICES ASSUME Typed, Inv, [Next]_vars PROVE Inv' OBVIOUS
<1>1. CASE UNCHANGED vars
  BY <1>1 DEF vars, Inv, Ahead, MovingOnly, TransitionOnDisk, BasesStay, Grounded, HasBase,
              NothingPending, RunsAreRunning, ScriptsFollow, Right, ScriptsOf
<1>2. CASE Driver \/ AgentCommits \/ Abort
  BY <1>2, DriverSteady, SteadyKeeps, CompleteRestartKeeps, AdvanceKeeps, CloseKeeps
<1>3. CASE Interrupt \/ Crash \/ ForceStop BY <1>3, EarlyKeeps
<1>4. CASE Start \/ StartThrows \/ Resume \/ ResumeRebuilds BY <1>4, NextProcessKeeps
<1> QED BY <1>1, <1>2, <1>3, <1>4 DEF Next

LEMMA AlwaysInv == Spec => [](Typed /\ Inv)
<1>1. Init => Typed /\ Inv BY InitTyped, InitInv
<1>2. (Typed /\ Inv) /\ [Next]_vars => (Typed /\ Inv)' BY StepTyped, StepInv
<1> QED BY <1>1, <1>2, PTL DEF Spec

-----------------------------------------------------------------------------
(* What follows for the run. *)

\* tryStartTransition: while a controlled restart is under way, the stored
\* artifact says so and has the new cursor, whatever has been paused, aborted,
\* has failed or has not been saved on the way.
THEOREM RestartsAreRecoverable == Spec => []TransitionOnDisk
<1>1. Typed /\ Inv => TransitionOnDisk BY DEF Inv
<1> QED BY <1>1, AlwaysInv, PTL

\* recordPhaseBaseRefIfImpl: a critic always finds the base of its phase, in the
\* process that ran the implementation and in every later one.
THEOREM CriticsHaveTheirBase == Spec => []CriticHasBase
<1>1. Typed /\ Inv => CriticHasBase BY DEF Inv, HasBase, CriticHasBase, Live
<1> QED BY <1>1, AlwaysInv, PTL

\* completeControlledRestart: a container that was not started with the run's
\* own scripts was started with those of the subtask it works on, after any
\* history of restarts, pauses and crashes without a failed transition save.
THEOREM ScriptsAreFresh == Spec => []FreshScripts
<1>1. Typed /\ Inv => FreshScripts
  <2> SUFFICES ASSUME Inv, pc \in Working, box.scripts # {}, "boundary" \notin harm
               PROVE  box.scripts = ScriptsOf(mem.cursor)
    BY DEF FreshScripts, Working
  <2>1. Right(mem) BY DEF Inv, ScriptsFollow, Working, Handling
  <2>2. mem.transition = 0 BY DEF Inv, NothingPending
  <2> QED BY <2>1, <2>2 DEF Right
<1> QED BY <1>1, AlwaysInv, PTL

LEMMA StepForward == Typed /\ Inv /\ [Next]_vars => art'.cursor >= art.cursor
<1> SUFFICES ASSUME Typed, Inv, [Next]_vars PROVE art'.cursor >= art.cursor OBVIOUS
<1>0. art \in Progress /\ mem \in Progress /\ art.cursor \in Nat /\ mem.cursor \in Nat
  BY PartsTyped
<1>1. pc # "off" => art.cursor <= mem.cursor BY DEF Inv, Ahead
<1>2. CASE art' = art BY <1>0, <1>2
<1>3. CASE Driver \/ AgentCommits \/ Abort
  <2>1. CASE Steady BY <1>0, <1>1, <2>1 DEF Steady, Known
  <2>2. CASE CompleteRestart
    <3>1. [mem EXCEPT !.transition = 0].cursor = mem.cursor BY <1>0 DEF Progress
    <3>2. pc # "off" BY <2>2 DEF CompleteRestart
    <3>3. art' = art \/ art' = [mem EXCEPT !.transition = 0]
      BY <2>2 DEF CompleteRestart, Remember, Saved
    <3>4. art'.cursor = art.cursor \/ art'.cursor = mem.cursor BY <3>1, <3>3
    <3> QED BY <1>0, <1>1, <3>2, <3>4
  <2>3. CASE Advance
    <3>1. HostExtract /\ mem.cursor < N /\ pc = "advance" BY <2>3 DEF Advance
    <3>2. NextProgress \in Progress /\ NextProgress.cursor = mem.cursor + 1 BY <3>1, NextTyped
    <3>3. [NextProgress EXCEPT !.transition = NextProgress.cursor].cursor = mem.cursor + 1
      BY <3>2 DEF Progress
    <3>4. art' = art \/ art' = [NextProgress EXCEPT !.transition = NextProgress.cursor]
      BY <2>3, Zenon DEF Advance, SaveOrThrow, NextProgress
    <3>5. art'.cursor = art.cursor \/ art'.cursor = mem.cursor + 1 BY <3>3, <3>4
    <3> QED BY <1>0, <1>1, <3>1, <3>5
  <2>4. CASE Close BY <1>0, <1>1, <2>4 DEF Close
  <2> QED BY <1>3, <2>1, <2>2, <2>3, <2>4, DriverSteady
<1>4. CASE Interrupt
  <2>1. Kept.cursor = art.cursor BY KeptTyped
  <2> QED BY <1>0, <1>4, <2>1 DEF Interrupt
<1>5. CASE \E sandbox : Begin(sandbox)
  <2>1. art' = Begun BY <1>5 DEF Begin, Begun
  <2> QED BY <1>0, <2>1, BegunTyped
<1>6. CASE UNCHANGED vars \/ Crash \/ ForceStop \/ StartThrows
  BY <1>0, <1>6 DEF vars, Crash, ForceStop, StartThrows
<1>7. Start \/ Resume \/ ResumeRebuilds => \E sandbox : Begin(sandbox)
  BY DEF Start, Resume, ResumeRebuilds
<1> QED BY <1>3, <1>4, <1>5, <1>6, <1>7 DEF Next

\* The index of the active subtask in the stored artifact never goes back: what
\* is recorded as passed is not run again, however the processes end.
THEOREM CursorAdvances == Spec => CursorNeverGoesBack
<1>1. (Typed /\ Inv) /\ [Next]_vars => [art'.cursor >= art.cursor]_vars BY StepForward
<1> QED BY <1>1, AlwaysInv, PTL DEF Spec, CursorNeverGoesBack

-----------------------------------------------------------------------------
(* Histories and ledgers as sequences of commits: what a prefix, the rest  *)
(* and a concatenation hold, and when they hold nothing twice.             *)

LEMMA UptoAfter ==
    ASSUME NEW S, NEW s \in Seq(S), NEW n \in Nat, n <= Len(s)
    PROVE  /\ Upto(s, n) \in Seq(S) /\ Len(Upto(s, n)) = n
           /\ \A i \in 1 .. n : Upto(s, n)[i] = s[i]
           /\ After(s, n) \in Seq(S) /\ Len(After(s, n)) = Len(s) - n
           /\ \A i \in 1 .. Len(s) - n : After(s, n)[i] = s[n + i]
<1>0. Len(s) \in Nat BY LenProperties
<1>1. \A i \in 1 .. n : s[i] \in S OBVIOUS
<1>2. /\ SubSeq(s, 1, n) \in Seq(S)
      /\ Len(SubSeq(s, 1, n)) = IF 1 <= n THEN n - 1 + 1 ELSE 0
      /\ \A i \in 1 .. n - 1 + 1 : SubSeq(s, 1, n)[i] = s[1 + i - 1]
  BY <1>1, SubSeqProperties
<1>3. \A i \in n + 1 .. Len(s) : s[i] \in S OBVIOUS
<1>4. /\ SubSeq(s, n + 1, Len(s)) \in Seq(S)
      /\ Len(SubSeq(s, n + 1, Len(s))) = IF n + 1 <= Len(s) THEN Len(s) - (n + 1) + 1 ELSE 0
      /\ \A i \in 1 .. Len(s) - (n + 1) + 1 : SubSeq(s, n + 1, Len(s))[i] = s[n + 1 + i - 1]
  BY <1>0, <1>3, SubSeqProperties
<1>5. \A i \in 1 .. n : Upto(s, n)[i] = s[i] BY <1>2 DEF Upto
<1>6. \A i \in 1 .. Len(s) - n : After(s, n)[i] = s[n + i] BY <1>0, <1>4 DEF After
<1>7. Len(After(s, n)) = Len(s) - n BY <1>0, <1>4 DEF After
<1>8. Len(Upto(s, n)) = n BY <1>2 DEF Upto
<1> QED BY <1>2, <1>4, <1>5, <1>6, <1>7, <1>8 DEF Upto, After

\* The members of a sequence by their places.
LEMMA RangeOf ==
    ASSUME NEW S, NEW s \in Seq(S)
    PROVE  Range(s) = {s[i] : i \in 1 .. Len(s)} /\ Range(s) \subseteq S
BY LenProperties DEF Range

LEMMA RangeEmpty == Range(<<>>) = {}
BY DEF Range

LEMMA RangeSome ==
    ASSUME NEW S, NEW s \in Seq(S), s # <<>>
    PROVE  Range(s) # {}
<1>1. Len(s) \in Nat \ {0} BY EmptySeq
<1>2. s[1] \in Range(s) BY <1>1, RangeOf
<1> QED BY <1>2

LEMMA RangeConcat ==
    ASSUME NEW S, NEW s \in Seq(S), NEW t \in Seq(S)
    PROVE  Range(s \o t) = Range(s) \union Range(t)
<1> DEFINE c == s \o t
<1>1. /\ c \in Seq(S) /\ Len(c) = Len(s) + Len(t) /\ Len(s) \in Nat /\ Len(t) \in Nat
      /\ \A i \in 1 .. Len(s) + Len(t) : c[i] = IF i <= Len(s) THEN s[i] ELSE t[i - Len(s)]
  BY ConcatProperties, LenProperties
<1> HIDE DEF c
<1>2. /\ Range(c) = {c[i] : i \in 1 .. Len(c)} /\ Range(s) = {s[i] : i \in 1 .. Len(s)}
      /\ Range(t) = {t[i] : i \in 1 .. Len(t)}
  BY <1>1, RangeOf
<1>3. ASSUME NEW x \in Range(c) PROVE x \in Range(s) \union Range(t)
  <2>1. PICK i \in 1 .. Len(c) : x = c[i] BY <1>2
  <2>2. CASE i <= Len(s)
    <3>1. i \in 1 .. Len(s) /\ x = s[i] BY <1>1, <2>1, <2>2
    <3> QED BY <1>2, <3>1
  <2>3. CASE ~(i <= Len(s))
    <3>1. i - Len(s) \in 1 .. Len(t) /\ x = t[i - Len(s)] BY <1>1, <2>1, <2>3
    <3> QED BY <1>2, <3>1
  <2> QED BY <2>2, <2>3
<1>4. ASSUME NEW x \in Range(s) PROVE x \in Range(c)
  <2>1. PICK i \in 1 .. Len(s) : x = s[i] BY <1>2
  <2>2. i \in 1 .. Len(c) /\ x = c[i] BY <1>1, <2>1
  <2> QED BY <1>2, <2>2
<1>5. ASSUME NEW x \in Range(t) PROVE x \in Range(c)
  <2>1. PICK i \in 1 .. Len(t) : x = t[i] BY <1>2
  <2>2. PICK j \in 1 .. Len(c) : j = i + Len(s) BY <1>1
  <2>3. ~(j <= Len(s)) /\ j - Len(s) = i BY <1>1, <2>2
  <2>4. c[j] = t[j - Len(s)] BY <1>1, <2>3
  <2> QED BY <1>2, <2>1, <2>3, <2>4
<1> QED BY <1>3, <1>4, <1>5 DEF c

LEMMA RangeUpto ==
    ASSUME NEW S, NEW s \in Seq(S), NEW n \in Nat, n <= Len(s)
    PROVE  /\ Range(Upto(s, n)) = {s[i] : i \in 1 .. n}
           /\ Range(Upto(s, n)) \subseteq Range(s)
<1>1. /\ Upto(s, n) \in Seq(S) /\ Len(Upto(s, n)) = n
      /\ \A i \in 1 .. n : Upto(s, n)[i] = s[i]
  BY UptoAfter
<1>2. Range(Upto(s, n)) = {Upto(s, n)[i] : i \in 1 .. n} BY <1>1, RangeOf
<1>3. Range(Upto(s, n)) = {s[i] : i \in 1 .. n} BY <1>1, <1>2
<1>4. Len(s) \in Nat /\ Range(s) = {s[i] : i \in 1 .. Len(s)} BY RangeOf, LenProperties
<1> QED BY <1>3, <1>4

\* Two prefixes: the shorter is in the longer.
LEMMA UptoGrows ==
    ASSUME NEW S, NEW s \in Seq(S), NEW m \in Nat, NEW n \in Nat, m <= n, n <= Len(s)
    PROVE  Range(Upto(s, m)) \subseteq Range(Upto(s, n))
<1>1. m <= Len(s) BY LenProperties
<1>2. Range(Upto(s, m)) = {s[i] : i \in 1 .. m} BY <1>1, RangeUpto
<1>3. Range(Upto(s, n)) = {s[i] : i \in 1 .. n} BY RangeUpto
<1> QED BY <1>2, <1>3

\* A sequence is its prefix and the rest.
LEMMA SplitAt ==
    ASSUME NEW S, NEW s \in Seq(S), NEW n \in Nat, n <= Len(s)
    PROVE  /\ Upto(s, n) \o After(s, n) = s
           /\ Range(s) = Range(Upto(s, n)) \union Range(After(s, n))
<1> DEFINE u == Upto(s, n)
           a == After(s, n)
<1>1. /\ u \in Seq(S) /\ Len(u) = n /\ \A i \in 1 .. n : u[i] = s[i]
      /\ a \in Seq(S) /\ Len(a) = Len(s) - n /\ \A i \in 1 .. Len(s) - n : a[i] = s[n + i]
  BY UptoAfter
<1>2. Len(s) \in Nat BY LenProperties
<1> HIDE DEF u, a
<1>3. /\ u \o a \in Seq(S) /\ Len(u \o a) = Len(u) + Len(a)
      /\ \A i \in 1 .. Len(u) + Len(a) : (u \o a)[i] = IF i <= Len(u) THEN u[i] ELSE a[i - Len(u)]
  BY <1>1, ConcatProperties
<1>4. Len(u \o a) = Len(s) BY <1>1, <1>2, <1>3
<1>5. ASSUME NEW i \in 1 .. Len(s) PROVE (u \o a)[i] = s[i]
  <2>1. (u \o a)[i] = IF i <= n THEN u[i] ELSE a[i - n] BY <1>1, <1>2, <1>3
  <2>2. CASE i <= n BY <1>1, <2>1, <2>2
  <2>3. CASE ~(i <= n)
    <3>1. i - n \in 1 .. Len(s) - n /\ n + (i - n) = i BY <1>2, <2>3
    <3>2. a[i - n] = s[n + (i - n)] BY <1>1, <3>1
    <3> QED BY <2>1, <2>3, <3>1, <3>2
  <2> QED BY <2>2, <2>3
<1>6. u \o a = s BY <1>3, <1>4, <1>5, SeqEqual
<1>7. Range(u \o a) = Range(u) \union Range(a) BY <1>1, RangeConcat
<1> QED BY <1>6, <1>7 DEF u, a

LEMMA UptoAll == ASSUME NEW S, NEW s \in Seq(S) PROVE Upto(s, Len(s)) = s
BY SubSeqFull DEF Upto

\* What has been appended is what comes after.
LEMMA UptoConcat ==
    ASSUME NEW S, NEW s \in Seq(S), NEW t \in Seq(S), NEW n \in Nat, n <= Len(s)
    PROVE  Upto(s \o t, n) = Upto(s, n)
<1>1. /\ s \o t \in Seq(S) /\ Len(s \o t) = Len(s) + Len(t)
      /\ \A i \in 1 .. Len(s) + Len(t) : (s \o t)[i] = IF i <= Len(s) THEN s[i] ELSE t[i - Len(s)]
  BY ConcatProperties
<1>2. Len(s) \in Nat /\ Len(t) \in Nat BY LenProperties
<1>3. n <= Len(s \o t) BY <1>1, <1>2
<1>4. /\ Upto(s \o t, n) \in Seq(S) /\ Len(Upto(s \o t, n)) = n
      /\ \A i \in 1 .. n : Upto(s \o t, n)[i] = (s \o t)[i]
  BY <1>1, <1>3, UptoAfter
<1>5. /\ Upto(s, n) \in Seq(S) /\ Len(Upto(s, n)) = n
      /\ \A i \in 1 .. n : Upto(s, n)[i] = s[i]
  BY UptoAfter
<1>6. \A i \in 1 .. n : Upto(s \o t, n)[i] = Upto(s, n)[i] BY <1>1, <1>2, <1>4, <1>5
<1> QED BY <1>4, <1>5, <1>6, SeqEqual

LEMMA UptoUpto ==
    ASSUME NEW S, NEW s \in Seq(S), NEW m \in Nat, NEW n \in Nat, m <= n, n <= Len(s)
    PROVE  Upto(Upto(s, n), m) = Upto(s, m)
<1>1. Upto(s, n) \in Seq(S) /\ After(s, n) \in Seq(S) /\ Len(Upto(s, n)) = n BY UptoAfter
<1>2. Upto(Upto(s, n) \o After(s, n), m) = Upto(Upto(s, n), m) BY <1>1, UptoConcat
<1> QED BY <1>2, SplitAt

LEMMA UptoAppend ==
    ASSUME NEW S, NEW s \in Seq(S), NEW x \in S, NEW n \in Nat, n <= Len(s)
    PROVE  Upto(Append(s, x), n) = Upto(s, n)
<1>1. Append(s, x) = s \o <<x>> /\ <<x>> \in Seq(S) BY AppendIsConcat
<1> QED BY <1>1, UptoConcat

LEMMA RangeAppend ==
    ASSUME NEW S, NEW s \in Seq(S), NEW x \in S
    PROVE  Range(Append(s, x)) = Range(s) \union {x}
<1>1. Append(s, x) = s \o <<x>> /\ <<x>> \in Seq(S) BY AppendIsConcat
<1>2. Range(<<x>>) = {x} BY DEF Range
<1>3. Range(s \o <<x>>) = Range(s) \union Range(<<x>>) BY <1>1, RangeConcat
<1> QED BY <1>1, <1>2, <1>3

\* Nothing twice, by the places.
LEMMA OnceBy ==
    ASSUME NEW S, NEW s \in Seq(S)
    PROVE  IsInjective(s) <=> \A i, j \in 1 .. Len(s) : s[i] = s[j] => i = j
BY LenProperties DEF IsInjective

LEMMA OnceEmpty == IsInjective(<<>>)
BY DEF IsInjective

\* A prefix, and the rest, of a sequence without repetition has none, and the
\* two have nothing in common.
LEMMA OnceParts ==
    ASSUME NEW S, NEW s \in Seq(S), NEW n \in Nat, n <= Len(s), IsInjective(s)
    PROVE  /\ IsInjective(Upto(s, n)) /\ IsInjective(After(s, n))
           /\ Range(Upto(s, n)) \intersect Range(After(s, n)) = {}
<1> DEFINE u == Upto(s, n)
           a == After(s, n)
<1>0. Len(s) \in Nat BY LenProperties
<1>1. /\ u \in Seq(S) /\ Len(u) = n /\ \A i \in 1 .. n : u[i] = s[i]
      /\ a \in Seq(S) /\ Len(a) = Len(s) - n /\ \A i \in 1 .. Len(s) - n : a[i] = s[n + i]
  BY UptoAfter
<1>2. \A i, j \in 1 .. Len(s) : s[i] = s[j] => i = j BY OnceBy
<1> HIDE DEF u, a
<1>3. \A i, j \in 1 .. n : u[i] = u[j] => i = j BY <1>0, <1>1, <1>2
<1>4. ASSUME NEW i \in 1 .. Len(s) - n, NEW j \in 1 .. Len(s) - n, a[i] = a[j] PROVE i = j
  <2>1. PICK k \in 1 .. Len(s) : k = n + i BY <1>0
  <2>2. PICK l \in 1 .. Len(s) : l = n + j BY <1>0
  <2>3. s[k] = s[l] BY <1>1, <1>4, <2>1, <2>2
  <2> QED BY <1>0, <1>2, <2>1, <2>2, <2>3
<1>5. ASSUME NEW x \in Range(u), x \in Range(a) PROVE FALSE
  <2>1. PICK i \in 1 .. n : x = u[i] BY <1>1, RangeOf
  <2>2. PICK j \in 1 .. Len(s) - n : x = a[j] BY <1>1, <1>5, RangeOf
  <2>3. PICK k \in 1 .. Len(s) : k = n + j BY <1>0
  <2>4. i \in 1 .. Len(s) /\ i # k BY <1>0, <2>3
  <2>5. u[i] = s[i] /\ a[j] = s[n + j] BY <1>1
  <2>6. s[i] = s[k] BY <2>1, <2>2, <2>3, <2>5
  <2> QED BY <1>2, <2>4, <2>6
<1>6. IsInjective(u) /\ IsInjective(a) BY <1>1, <1>3, <1>4, OnceBy
<1> QED BY <1>5, <1>6 DEF u, a

\* Two sequences without repetition and with nothing in common make one.
LEMMA OnceConcat ==
    ASSUME NEW S, NEW s \in Seq(S), NEW t \in Seq(S), IsInjective(s), IsInjective(t),
           Range(s) \intersect Range(t) = {}
    PROVE  IsInjective(s \o t)
<1> DEFINE c == s \o t
<1>1. /\ c \in Seq(S) /\ Len(c) = Len(s) + Len(t) /\ Len(s) \in Nat /\ Len(t) \in Nat
      /\ \A i \in 1 .. Len(s) + Len(t) : c[i] = IF i <= Len(s) THEN s[i] ELSE t[i - Len(s)]
  BY ConcatProperties, LenProperties
<1> HIDE DEF c
<1>2. \A i, j \in 1 .. Len(s) : s[i] = s[j] => i = j BY OnceBy
<1>3. \A i, j \in 1 .. Len(t) : t[i] = t[j] => i = j BY OnceBy
<1>4. /\ Range(s) = {s[i] : i \in 1 .. Len(s)}
      /\ Range(t) = {t[i] : i \in 1 .. Len(t)}
  BY RangeOf
<1>5. ASSUME NEW i \in 1 .. Len(c), NEW j \in 1 .. Len(c), c[i] = c[j], i <= Len(s), ~(j <= Len(s))
      PROVE  FALSE
  <2>1. i \in 1 .. Len(s) /\ c[i] = s[i] BY <1>1, <1>5
  <2>2. PICK k \in 1 .. Len(t) : k = j - Len(s) BY <1>1, <1>5
  <2>3. c[j] = t[k] BY <1>1, <1>5, <2>2
  <2>4. s[i] \in Range(s) /\ s[i] \in Range(t) BY <1>4, <1>5, <2>1, <2>2, <2>3
  <2> QED BY <2>4
<1>6. ASSUME NEW i \in 1 .. Len(c), NEW j \in 1 .. Len(c), c[i] = c[j] PROVE i = j
  <2>1. CASE i <= Len(s) /\ j <= Len(s)
    <3>1. i \in 1 .. Len(s) /\ j \in 1 .. Len(s) /\ s[i] = s[j] BY <1>1, <1>6, <2>1
    <3> QED BY <1>2, <3>1
  <2>2. CASE ~(i <= Len(s)) /\ ~(j <= Len(s))
    <3>1. PICK k \in 1 .. Len(t) : k = i - Len(s) BY <1>1, <2>2
    <3>2. PICK l \in 1 .. Len(t) : l = j - Len(s) BY <1>1, <2>2
    <3>3. c[i] = t[k] /\ c[j] = t[l] BY <1>1, <2>2, <3>1, <3>2
    <3>4. k = l BY <1>3, <1>6, <3>3
    <3> QED BY <1>1, <3>1, <3>2, <3>4
  <2>3. CASE i <= Len(s) /\ ~(j <= Len(s)) BY <1>5, <1>6, <2>3
  <2>4. CASE ~(i <= Len(s)) /\ j <= Len(s) BY <1>5, <1>6, <2>4
  <2> QED BY <2>1, <2>2, <2>3, <2>4
<1>7. IsInjective(c) BY <1>1, <1>6, OnceBy
<1> QED BY <1>7 DEF c

LEMMA OnceAppend ==
    ASSUME NEW S, NEW s \in Seq(S), NEW x \in S, IsInjective(s), x \notin Range(s)
    PROVE  IsInjective(Append(s, x))
<1>1. Append(s, x) = s \o <<x>> /\ <<x>> \in Seq(S) BY AppendIsConcat
<1>2. IsInjective(<<x>>) BY DEF IsInjective
<1>3. Range(<<x>>) = {x} BY DEF Range
<1> QED BY <1>1, <1>2, <1>3, OnceConcat

-----------------------------------------------------------------------------
(* The inductive invariant of ledger, history and host: which commits the  *)
(* process counts, which are in the sandbox, which are on disk and which   *)
(* are on the host, by where the process is.                               *)

\* What was in the sandbox when the round began.
Base == Upto(box.head, ses.pre)

\* No round is open; a round is open; a round has been taken into the ledger.
Clean == {"presync", "recover", "boot", "refresh", "budget"}
Open == {"work", "sync", "judge", "undo"}
Taken == {"verify", "testing", "passed", "complete", "exhausted", "aborted", "advance"}

\* Between rounds the history holds the commits of the ledger; within a round
\* what it held before; and a session that drains has lost nothing of either.
HistoryIsLedger ==
    /\ pc \in Clean => ses.pre = Len(box.head)
    /\ pc \in Clean \union Taken \union {"applying"} => Range(mem.commits) = Range(box.head)
    /\ pc \in Open => Range(mem.commits) = Range(Base)
    /\ pc \in Taken => /\ ses.round <= Len(mem.commits) /\ Range(WithoutRound) = Range(Base)
                       /\ box.flushed /\ box.file = mem.commits
    /\ pc = "drained" =>
          /\ Range(Base) \subseteq Range(mem.commits)
          /\ Range(mem.commits) \subseteq Range(box.head)
          /\ ses.term = "success" \/ ses.moving => Range(mem.commits) = Range(box.head)
          /\ ses.moving => ses.pre = Len(box.head)
    /\ pc = "closing" /\ ses.out = "paused" => Range(mem.commits) = Range(box.head)
    /\ pc = "off" /\ st = "paused" => Range(art.commits) = Range(box.head)
    /\ pc \notin {"off", "closing"} => ses.since <= ses.pre
    /\ ses.term # "none" => pc \in {"drained", "applying", "closing"}

\* No commit twice: never in a history, and in a ledger only after an abort has
\* kept what the ledger had.
MadeBy(s, n) == Range(s) \subseteq 1 .. n
OnceEach ==
    /\ IsInjective(box.head)
    /\ MadeBy(box.head, made) /\ MadeBy(art.commits, made)
    /\ MadeBy(mem.commits, made) /\ MadeBy(box.file, made)
    /\ "doubled" \notin harm =>
          IsInjective(mem.commits) /\ IsInjective(art.commits) /\ IsInjective(box.file)

\* The commits of the subtasks before the cursor are wherever the cursor may be
\* stored with: in the artifact, in memory, in run-commits.json.
Covers(earned, cursor, s) == \A i \in 1 .. (cursor - 1) : earned[i] \subseteq Range(s)
Whole ==
    "commits" \notin harm =>
        /\ Covers(proof, art.cursor, art.commits)
        /\ Covers(proof, mem.cursor, mem.commits)
        /\ pc \notin {"off", "closing"} => Covers(proof, mem.cursor, Base)
        /\ pc = "advance" => proof[mem.cursor] \subseteq Range(box.head)
        /\ box.flushed =>
              /\ pc # "off" => Covers(proof, mem.cursor, box.file)
              /\ pc = "off" /\ st = "paused" => Covers(proof, art.cursor, box.file)

\* What the tests last passed on is what is in the sandbox.
TestedIsHead ==
    /\ mode = "staging" /\ (pc \in {"passed", "advance"} \/ (pc = "drained" /\ ses.term = "success"))
          => ses.tested = Range(box.head)
    /\ pc = "complete" => mode = "sandbox"
    /\ pc = "applying" => Range(mem.commits) = ses.tested

\* The first n commits of s are on the host h.
On(h, n, s) == n <= Len(s) /\ Range(Upto(s, n)) \subseteq Range(h)
OnHost ==
    harm = {} =>
        /\ On(host, art.applied, art.commits)
        /\ On(host, mem.applied, mem.commits)
        /\ pc \in Taken => mem.applied <= Len(WithoutRound)
        /\ pc # "off" => /\ art.applied <= mem.applied /\ box.count <= mem.applied
                         /\ box.flushed => On(host, mem.applied, box.file)
        /\ pc = "off" /\ st = "paused" => /\ box.count <= art.applied
                                          /\ box.flushed => On(host, art.applied, box.file)
        /\ ~box.flushed => box.count = 0

Books == HistoryIsLedger /\ OnceEach /\ Whole /\ TestedIsHead /\ OnHost

\* The types of all that the invariant speaks of.
LEMMA BooksTyped ==
    ASSUME Typed
    PROVE  /\ mem.commits \in Seq(Commits) /\ art.commits \in Seq(Commits)
           /\ box.head \in Seq(Commits) /\ box.file \in Seq(Commits)
           /\ Len(mem.commits) \in Nat /\ Len(art.commits) \in Nat
           /\ Len(box.head) \in Nat /\ Len(box.file) \in Nat
           /\ mem.applied \in Nat /\ art.applied \in Nat /\ box.count \in Nat
           /\ mem.cursor \in Nat /\ art.cursor \in Nat
           /\ ses.pre \in Nat /\ ses.since \in Nat /\ ses.round \in Nat
           /\ (pc # "closing" => ses.pre <= Len(box.head))
<1>1. mem \in Progress /\ art \in Progress /\ ses \in Session /\ box \in Box
      /\ mem.cursor \in Nat /\ art.cursor \in Nat
  BY PartsTyped
<1>2. /\ mem.commits \in Seq(Commits) /\ art.commits \in Seq(Commits)
      /\ box.head \in Seq(Commits) /\ box.file \in Seq(Commits)
  BY <1>1 DEF Progress, Box
<1>3. /\ Len(mem.commits) \in Nat /\ Len(art.commits) \in Nat
      /\ Len(box.head) \in Nat /\ Len(box.file) \in Nat
  BY <1>2, LenProperties
<1>4. mem.applied \in Nat /\ art.applied \in Nat /\ box.count \in Nat
  BY <1>1 DEF Progress, Box
<1>5. ses.pre \in Nat /\ ses.since \in Nat /\ ses.round \in Nat BY <1>1 DEF Session
<1>6. pc # "closing" => ses.pre <= Len(box.head) BY DEF Typed, PreIsPast
<1> QED BY <1>1, <1>2, <1>3, <1>4, <1>5, <1>6

\* Where nothing is left of a round its base is the whole history.
LEMMA BaseIsHead ==
    ASSUME Typed, ses.pre = Len(box.head)
    PROVE  Base = box.head
BY BooksTyped, UptoAll DEF Base

LEMMA BaseInHead ==
    ASSUME Typed, pc # "closing"
    PROVE  Range(Base) \subseteq Range(box.head)
BY BooksTyped, RangeUpto DEF Base

LEMMA BaseTyped ==
    ASSUME Typed, pc # "closing"
    PROVE  /\ Base \in Seq(Commits) /\ Len(Base) = ses.pre
           /\ ses.pre \in Nat /\ ses.pre <= Len(box.head)
<1>1. ses.pre \in Nat /\ ses.pre <= Len(box.head) /\ box.head \in Seq(Commits) BY BooksTyped
<1> QED BY <1>1, UptoAfter DEF Base

LEMMA WithoutInLedger ==
    ASSUME Typed, ses.round <= Len(mem.commits)
    PROVE  /\ WithoutRound \in Seq(Commits)
           /\ Len(WithoutRound) = Len(mem.commits) - ses.round
           /\ Range(WithoutRound) \subseteq Range(mem.commits)
<1>1. PICK n \in Nat : n = Len(mem.commits) - ses.round BY BooksTyped
<1>2. n <= Len(mem.commits) BY <1>1, BooksTyped
<1>3. WithoutRound = Upto(mem.commits, n) BY <1>1 DEF WithoutRound
<1>4. mem.commits \in Seq(Commits) BY BooksTyped
<1>5. Upto(mem.commits, n) \in Seq(Commits) /\ Len(Upto(mem.commits, n)) = n
  BY <1>2, <1>4, UptoAfter
<1>6. Range(Upto(mem.commits, n)) \subseteq Range(mem.commits) BY <1>2, <1>4, RangeUpto
<1> QED BY <1>1, <1>3, <1>5, <1>6

-----------------------------------------------------------------------------
(* The steps that only move on, count, save or signal.                     *)

\* What the books are kept in.
SameBooks ==
    /\ mem'.commits = mem.commits /\ mem'.applied = mem.applied /\ mem'.cursor = mem.cursor
    /\ \/ art'.commits = art.commits /\ art'.applied = art.applied /\ art'.cursor = art.cursor
       \/ art'.commits = mem.commits /\ art'.applied = mem.applied /\ art'.cursor = mem.cursor
    /\ box'.head = box.head /\ box'.flushed = box.flushed /\ box'.file = box.file
    /\ box'.count = box.count
    /\ ses'.pre = ses.pre /\ ses'.since = ses.since /\ ses'.round = ses.round
    /\ ses'.tested = ses.tested
    /\ mode' = mode /\ host' = host /\ made' = made /\ proof' = proof /\ harm' = harm

\* From where such a step may go where.
QuietMove ==
    /\ pc \notin {"off", "closing"} /\ pc' # "off"
    /\ pc' \in Clean => \/ pc \in Clean
                        \/ pc = "drained" /\ ses.moving
                        \/ pc = "judge" /\ box.head = <<>>
    /\ pc' \in Open => pc \in Open \union {"boot", "budget"}
    /\ pc' \in Taken => pc \in Taken
    /\ pc' \in {"passed", "complete", "advance"} => pc' = pc
    /\ pc' = "applying" => pc = "drained" /\ mode = "staging" /\ ses.term = "success"
    /\ pc' = "drained" => pc \in Open \union {"budget", "testing", "drained"}
    /\ pc' = "drained" /\ ses'.term = "success" =>
          \/ pc = "drained" /\ ses.term = "success"
          \/ mode = "sandbox" /\ box.head = <<>>
    /\ pc' = "drained" /\ ses'.moving => pc = "drained" /\ ses.moving
    /\ pc' = "closing" /\ ses'.out = "paused" => pc \in Clean
    /\ ses'.term # "none" => pc' \in {"drained", "applying", "closing"}

Quiet == SameBooks /\ QuietMove

LEMMA QuietLedger == ASSUME Typed, HistoryIsLedger, Quiet PROVE HistoryIsLedger'
<1> USE DEF Clean, Open, Taken
<1>1. Base' = Base BY DEF Quiet, SameBooks, Base, Upto
<1>2. WithoutRound' = WithoutRound BY DEF Quiet, SameBooks, WithoutRound, Upto
<1>3. /\ mem'.commits = mem.commits /\ box'.head = box.head /\ box'.flushed = box.flushed
      /\ box'.file = box.file /\ ses'.pre = ses.pre /\ ses'.since = ses.since
      /\ ses'.round = ses.round /\ pc \notin {"off", "closing"} /\ pc' # "off"
  BY DEF Quiet, SameBooks, QuietMove
<1>4. Range(Base) \subseteq Range(box.head) BY <1>3, BaseInHead
<1>5. pc \in Clean => Base = box.head BY BaseIsHead DEF HistoryIsLedger
<1>6. box.head = <<>> => ses.pre = Len(box.head) /\ Range(box.head) = {}
  BY <1>3, BooksTyped, EmptySeq, RangeEmpty
<1>7. pc \in Taken => Range(WithoutRound) \subseteq Range(mem.commits)
  BY WithoutInLedger DEF HistoryIsLedger
<1>8. (pc' \in Clean => ses'.pre = Len(box'.head))
  BY <1>3, <1>6 DEF HistoryIsLedger, Quiet, QuietMove
<1>9. pc' \in Clean => Range(mem'.commits) = Range(box'.head)
  <2>1. CASE pc \in Clean \/ (pc = "drained" /\ ses.moving)
    BY <1>3, <2>1 DEF HistoryIsLedger
  <2>2. CASE pc = "judge" /\ box.head = <<>>
    <3>1. Range(mem.commits) = Range(Base) BY <2>2 DEF HistoryIsLedger
    <3>2. Range(Base) = {} /\ Range(box.head) = {} BY <1>4, <1>6, <2>2
    <3> QED BY <1>3, <3>1, <3>2
  <2> QED BY <2>1, <2>2 DEF Quiet, QuietMove
<1>10. pc' \in Taken \union {"applying"} => Range(mem'.commits) = Range(box'.head)
  BY <1>3 DEF HistoryIsLedger, Quiet, QuietMove
<1>11. pc' \in Open => Range(mem'.commits) = Range(Base')
  BY <1>1, <1>3, <1>5 DEF HistoryIsLedger, Quiet, QuietMove
<1>12. pc' \in Taken => /\ ses'.round <= Len(mem'.commits) /\ Range(WithoutRound') = Range(Base')
                        /\ box'.flushed /\ box'.file = mem'.commits
  BY <1>1, <1>2, <1>3 DEF HistoryIsLedger, Quiet, QuietMove
<1>13. ASSUME pc' = "drained"
       PROVE  /\ Range(Base') \subseteq Range(mem'.commits)
              /\ Range(mem'.commits) \subseteq Range(box'.head)
              /\ ses'.term = "success" \/ ses'.moving => Range(mem'.commits) = Range(box'.head)
              /\ ses'.moving => ses'.pre = Len(box'.head)
  <2>1. pc \in Open \union {"budget", "testing", "drained"} BY <1>13 DEF Quiet, QuietMove
  <2>2. Range(Base) \subseteq Range(mem.commits) /\ Range(mem.commits) \subseteq Range(box.head)
    BY <1>4, <1>5, <1>7, <2>1 DEF HistoryIsLedger
  <2>3. ses'.term = "success" \/ ses'.moving => Range(mem.commits) = Range(box.head)
    BY <1>6, <1>13, <2>2 DEF HistoryIsLedger, Quiet, QuietMove
  <2>4. ses'.moving => ses.pre = Len(box.head) BY <1>13 DEF HistoryIsLedger, Quiet, QuietMove
  <2> QED BY <1>1, <1>3, <2>2, <2>3, <2>4
<1>14. pc' = "closing" /\ ses'.out = "paused" => Range(mem'.commits) = Range(box'.head)
  BY <1>3 DEF HistoryIsLedger, Quiet, QuietMove
<1>15. pc' \notin {"off", "closing"} => ses'.since <= ses'.pre
  BY <1>3 DEF HistoryIsLedger
<1>16. ses'.term # "none" => pc' \in {"drained", "applying", "closing"} BY DEF Quiet, QuietMove
<1> QED BY <1>3, <1>8, <1>9, <1>10, <1>11, <1>12, <1>13, <1>14, <1>15, <1>16 DEF HistoryIsLedger

LEMMA QuietKeeps == ASSUME Typed, Ahead, Books, Quiet PROVE Books'
<1> USE DEF Clean, Open, Taken
<1>0. HistoryIsLedger /\ OnceEach /\ Whole /\ TestedIsHead /\ OnHost BY DEF Books
<1>1. HistoryIsLedger' BY <1>0, QuietLedger
<1>2. OnceEach' BY <1>0 DEF OnceEach, MadeBy, Quiet, SameBooks
<1>3. Whole'
  <2>1. Base' = Base BY DEF Quiet, SameBooks, Base, Upto
  <2> QED BY <1>0, <2>1 DEF Whole, Covers, Quiet, SameBooks, QuietMove
<1>4. TestedIsHead'
  <2>1. pc' = "applying" => Range(mem.commits) = ses.tested
    BY <1>0 DEF HistoryIsLedger, TestedIsHead, Quiet, QuietMove
  <2> QED BY <1>0, <2>1 DEF TestedIsHead, Quiet, SameBooks, QuietMove
<1>5. OnHost'
  <2>1. WithoutRound' = WithoutRound BY DEF Quiet, SameBooks, WithoutRound, Upto
  <2>2. mem.applied \in Nat /\ mem.applied <= mem.applied BY BooksTyped
  <2> QED BY <1>0, <2>1, <2>2 DEF OnHost, On, Quiet, SameBooks, QuietMove
<1> QED BY <1>1, <1>2, <1>3, <1>4, <1>5 DEF Books

\* A save takes what is in memory or leaves what is stored.
SavedBooks(m) ==
    /\ m.commits = mem.commits /\ m.applied = mem.applied /\ m.cursor = mem.cursor
    /\ \/ art'.commits = art.commits /\ art'.applied = art.applied /\ art'.cursor = art.cursor
       \/ art'.commits = mem.commits /\ art'.applied = mem.applied /\ art'.cursor = mem.cursor

LEMMA SaveKeepsBooks ==
    ASSUME Typed, NEW m, m \in {mem, Tried(mem), [mem EXCEPT !.transition = 0]}, art' \in Saved(m)
    PROVE  SavedBooks(m)
<1>1. mem \in Progress BY PartsTyped
<1>2. m.commits = mem.commits /\ m.applied = mem.applied /\ m.cursor = mem.cursor
  BY <1>1, TriedFields DEF Progress
<1>3. art' = m \/ art' = art BY DEF Saved
<1> QED BY <1>2, <1>3 DEF SavedBooks

LEMMA BeforeQuiet ==
    ASSUME Typed, Inv, HistoryIsLedger, PreRoundSync \/ CompleteRestart \/ SetupThrows \/ Boot
    PROVE  Quiet
<1> USE DEF Quiet, SameBooks, QuietMove, World, Goto, Clean, Open, Taken
<1>0. mem \in Progress /\ art \in Progress /\ ses \in Session /\ box \in Box BY PartsTyped
<1>1. CASE PreRoundSync
  <2>1. ses.term = "none" BY <1>1 DEF PreRoundSync, HistoryIsLedger
  <2>2. /\ ses'.pre = ses.pre /\ ses'.since = ses.since /\ ses'.round = ses.round
        /\ ses'.tested = ses.tested /\ ses'.term = ses.term
    BY <1>0, <1>1 DEF PreRoundSync, Session
  <2> QED BY <1>1, <2>1, <2>2 DEF PreRoundSync
<1>2. CASE CompleteRestart
  <2>1. ses.term = "none" BY <1>2 DEF CompleteRestart, HistoryIsLedger
  <2>2. /\ ses'.pre = ses.pre /\ ses'.since = ses.since /\ ses'.round = ses.round
        /\ ses'.tested = ses.tested /\ ses'.term = ses.term
    BY <1>0, <1>2 DEF CompleteRestart, Session
  <2>3. SavedBooks([mem EXCEPT !.transition = 0]) /\ mem' = [mem EXCEPT !.transition = 0]
    BY <1>2, SaveKeepsBooks DEF CompleteRestart, Remember
  <2>4. /\ box'.head = box.head /\ box'.flushed = box.flushed /\ box'.file = box.file
        /\ box'.count = box.count
    BY <1>0, <1>2 DEF CompleteRestart, Box
  <2> QED BY <1>2, <2>1, <2>2, <2>3, <2>4 DEF CompleteRestart, SavedBooks
<1>3. CASE SetupThrows
  <2>1. ses.term = "none" BY <1>3 DEF SetupThrows, HistoryIsLedger
  <2>2. /\ ses'.pre = ses.pre /\ ses'.since = ses.since /\ ses'.round = ses.round
        /\ ses'.tested = ses.tested /\ ses'.term = ses.term
    BY <1>0, <1>3 DEF SetupThrows, Throw, Session
  <2> QED BY <1>3, <2>1, <2>2 DEF SetupThrows, Throw
<1>4. CASE Boot
  <2>1. ses.term = "none" BY <1>4 DEF Boot, HistoryIsLedger
  <2>2. SavedBooks(mem) /\ mem' = mem BY <1>4, SaveKeepsBooks DEF Boot, Remember
  <2> QED BY <1>4, <2>1, <2>2 DEF Boot, SavedBooks
<1> QED BY <1>1, <1>2, <1>3, <1>4

LEMMA SessionQuiet ==
    ASSUME Typed, Inv, HistoryIsLedger, Abort \/ AgentReports \/ SessionDrains
    PROVE  Quiet
<1> USE DEF Quiet, SameBooks, QuietMove, World, Goto, Clean, Open, Taken
<1>0. mem \in Progress /\ art \in Progress /\ ses \in Session /\ box \in Box BY PartsTyped
<1>1. CASE Abort
  <2>1. pc \in InSession BY <1>1 DEF Abort
  <2>2. ses.term # "none" => pc \in {"drained", "applying", "closing"} BY DEF HistoryIsLedger
  <2>3. /\ ses'.pre = ses.pre /\ ses'.since = ses.since /\ ses'.round = ses.round
        /\ ses'.tested = ses.tested /\ ses'.term = ses.term /\ ses'.moving = ses.moving
    BY <1>0, <1>1 DEF Abort, Session
  <2> QED BY <1>1, <2>1, <2>2, <2>3 DEF Abort, InSession, Handling
<1>2. CASE AgentReports
  <2>1. ses.term = "none" BY <1>2 DEF AgentReports, HistoryIsLedger
  <2> QED BY <1>0, <1>2, <2>1, CountedFields DEF AgentReports
<1>3. CASE SessionDrains
  <2>1. ses.term = "none" BY <1>3 DEF SessionDrains, HistoryIsLedger
  <2>2. ~ses.moving BY <1>3 DEF SessionDrains, Inv, MovingOnly
  <2> QED BY <1>3, <2>1, <2>2 DEF SessionDrains
<1> QED BY <1>1, <1>2, <1>3

LEMMA JudgeQuiet ==
    ASSUME Typed, Inv, HistoryIsLedger, Sync \/ Violates \/ NoChanges
    PROVE  Quiet
<1> USE DEF Quiet, SameBooks, QuietMove, World, Goto, Clean, Open, Taken
<1>0. mem \in Progress /\ art \in Progress /\ ses \in Session /\ box \in Box BY PartsTyped
<1>1. pc \in {"sync", "judge"} BY DEF Sync, Violates, NoChanges
<1>2. ses.term = "none" /\ ~ses.moving BY <1>1 DEF HistoryIsLedger, Inv, MovingOnly
<1>3. CASE Sync
  <2>1. /\ ses'.pre = ses.pre /\ ses'.since = ses.since /\ ses'.round = ses.round
        /\ ses'.tested = ses.tested /\ ses'.term = ses.term /\ ses'.moving = ses.moving
    BY <1>0, <1>3 DEF Sync, Session
  <2> QED BY <1>2, <1>3, <2>1 DEF Sync
<1>4. CASE Violates
  <2>1. SavedBooks(Tried(mem)) /\ mem' = Tried(mem)
    BY <1>4, SaveKeepsBooks DEF Violates, Remember
  <2> QED BY <1>2, <1>4, <2>1 DEF Violates, SavedBooks
<1>5. CASE NoChanges
  <2>1. SavedBooks(Tried(mem)) /\ mem' = Tried(mem)
    BY <1>5, SaveKeepsBooks DEF NoChanges, Remember
  <2>2. /\ ses'.pre = ses.pre /\ ses'.since = ses.since /\ ses'.round = ses.round
        /\ ses'.tested = ses.tested /\ ses'.moving = ses.moving
        /\ ses'.term = ses.term \/ (mode = "sandbox" /\ pc' = "drained")
    BY <1>0, <1>5 DEF NoChanges, Session
  <2>3. pc = "judge" /\ box.head = <<>> /\ pc' \in {"drained", "budget"} /\ box' = box
        /\ UNCHANGED World
    BY <1>5 DEF NoChanges
  <2> QED BY <1>2, <2>1, <2>2, <2>3 DEF SavedBooks
<1> QED BY <1>3, <1>4, <1>5

LEMMA TestsQuiet ==
    ASSUME Typed, Inv, HistoryIsLedger, Verify \/ TestsFail \/ TestsThrow \/ Budget
    PROVE  Quiet
<1> USE DEF Quiet, SameBooks, QuietMove, World, Goto, Clean, Open, Taken
<1>0. mem \in Progress /\ art \in Progress /\ ses \in Session /\ box \in Box BY PartsTyped
<1>1. pc \in {"verify", "testing", "budget"} BY DEF Verify, TestsFail, TestsThrow, Budget
<1>2. ses.term = "none" /\ ~ses.moving BY <1>1 DEF HistoryIsLedger, Inv, MovingOnly
<1>3. CASE Verify
  <2>1. SavedBooks(mem) BY <1>3, SaveKeepsBooks DEF Verify
  <2> QED BY <1>2, <1>3, <2>1 DEF Verify, SavedBooks
<1>4. CASE TestsFail
  <2>1. SavedBooks(Tried(mem)) /\ mem' = Tried(mem)
    BY <1>4, SaveKeepsBooks DEF TestsFail, Remember
  <2> QED BY <1>2, <1>4, <2>1 DEF TestsFail, SavedBooks
<1>5. CASE TestsThrow
  <2>1. /\ ses'.pre = ses.pre /\ ses'.since = ses.since /\ ses'.round = ses.round
        /\ ses'.tested = ses.tested /\ ses'.term = ses.term /\ ses'.moving = ses.moving
    BY <1>0, <1>5 DEF TestsThrow, Session
  <2> QED BY <1>2, <1>5, <2>1 DEF TestsThrow
<1>6. CASE Budget
  <2>1. /\ ses'.pre = ses.pre /\ ses'.since = ses.since /\ ses'.round = ses.round
        /\ ses'.tested = ses.tested /\ ses'.moving = ses.moving
        /\ (ses'.term = ses.term \/ (ses'.term = "failed" /\ pc' = "drained"))
    BY <1>0, <1>6 DEF Budget, Session
  <2> QED BY <1>2, <1>6, <2>1 DEF Budget
<1> QED BY <1>3, <1>4, <1>5, <1>6

\* A session that has ended, its sandbox kept.
LEMMA DrainQuiet ==
    ASSUME Typed, Inv, HistoryIsLedger,
           DrainsFinished \/ DrainsOver \/ ApplyToHost, box' = box
    PROVE  Quiet
<1> USE DEF Quiet, SameBooks, QuietMove, World, Goto, Clean, Open, Taken
<1>0. mem \in Progress /\ art \in Progress /\ ses \in Session /\ box \in Box BY PartsTyped
<1>1. CASE DrainsFinished
  <2>1. /\ ses'.pre = ses.pre /\ ses'.since = ses.since /\ ses'.round = ses.round
        /\ ses'.tested = ses.tested /\ ses'.moving = ses.moving /\ ses'.out = ses.term
        /\ ses'.term = ses.term
    BY <1>0, <1>1 DEF DrainsFinished, Ended, Session
  <2>2. ses.term \in {"none", "success", "failed"} BY <1>0 DEF Session
  <2> QED BY <1>1, <2>1, <2>2 DEF DrainsFinished
<1>2. CASE DrainsOver
  <2>1. /\ ses'.pre = ses.pre /\ ses'.since = ses.since /\ ses'.round = ses.round
        /\ ses'.tested = ses.tested /\ ses'.term = ses.term
        /\ (pc' = "closing" => ses'.out = "failed")
    BY <1>0, <1>2 DEF DrainsOver, Ended, Session
  <2> QED BY <1>2, <2>1 DEF DrainsOver
<1>3. CASE ApplyToHost
  <2>1. /\ ses'.pre = ses.pre /\ ses'.since = ses.since /\ ses'.round = ses.round
        /\ ses'.tested = ses.tested /\ ses'.out \in {"success", "failed"}
    BY <1>0, <1>3 DEF ApplyToHost, Throw, Session
  <2> QED BY <1>3, <2>1 DEF ApplyToHost, Throw
<1> QED BY <1>1, <1>2, <1>3

-----------------------------------------------------------------------------
(* The steps that change the books: in the round.                          *)

LEMMA AgentCommitsBooks == ASSUME Typed, Inv, Books, AgentCommits PROVE Books'
<1> USE DEF Clean, Open, Taken
<1>0. HistoryIsLedger /\ OnceEach /\ Whole /\ TestedIsHead /\ OnHost BY DEF Books
<1>1. /\ pc = "work" /\ pc' = "work" /\ made' = made + 1 /\ made < MaxCommits
      /\ box'.head = Append(box.head, made + 1) /\ box'.flushed = box.flushed
      /\ box'.file = box.file /\ box'.count = box.count
      /\ UNCHANGED <<mode, st, art, mem, host, ses, proof, harm>>
  BY PartsTyped DEF AgentCommits, Box
<1>2. made \in Nat /\ made + 1 \in Commits BY <1>1, ConstantsTyped DEF Typed, TypeOK, Commits
<1>3. Base' = Base BY <1>1, <1>2, BooksTyped, UptoAppend DEF Base
<1>4. WithoutRound' = WithoutRound BY <1>1 DEF WithoutRound, Upto
<1>5. HistoryIsLedger' BY <1>0, <1>1, <1>3, <1>4 DEF HistoryIsLedger
<1>6. OnceEach'
  <2>1. made + 1 \notin Range(box.head) BY <1>0, <1>2 DEF OnceEach, MadeBy
  <2>2. IsInjective(Append(box.head, made + 1))
    BY <1>0, <1>2, <2>1, BooksTyped, OnceAppend DEF OnceEach
  <2>3. Range(Append(box.head, made + 1)) = Range(box.head) \union {made + 1}
    BY <1>2, BooksTyped, RangeAppend
  <2>4. \A s : MadeBy(s, made) => MadeBy(s, made + 1) BY <1>2 DEF MadeBy
  <2>5. MadeBy(Append(box.head, made + 1), made + 1)
    BY <1>0, <1>2, <2>3 DEF OnceEach, MadeBy
  <2> QED BY <1>0, <1>1, <2>2, <2>4, <2>5 DEF OnceEach
<1>7. Whole' BY <1>0, <1>1, <1>3 DEF Whole, Covers
<1>8. TestedIsHead' BY <1>1 DEF TestedIsHead
<1>9. OnHost' BY <1>0, <1>1, <1>4 DEF OnHost, On
<1> QED BY <1>5, <1>6, <1>7, <1>8, <1>9 DEF Books

LEMMA ResetRoundBooks == ASSUME Typed, Inv, Books, ResetRound PROVE Books'
<1> USE DEF Clean, Open, Taken
<1>0. HistoryIsLedger /\ OnceEach /\ Whole /\ TestedIsHead /\ OnHost BY DEF Books
<1>1. /\ pc = "undo" /\ pc' = "budget"
      /\ box'.head = Base /\ box'.flushed = box.flushed
      /\ box'.file = box.file /\ box'.count = box.count
      /\ UNCHANGED <<mode, st, art, mem, host, ses, made, proof, harm>>
  BY PartsTyped DEF ResetRound, Box, Goto, World, Base
<1>2. /\ Base \in Seq(Commits) /\ Len(Base) = ses.pre /\ ses.pre \in Nat
      /\ ses.pre <= Len(box.head)
  BY <1>1, BaseTyped
<1>3. Base' = Base
  <2>1. Base' = Upto(Base, ses.pre) BY <1>1 DEF Base
  <2> QED BY <1>2, <2>1, UptoAll
<1>4. HistoryIsLedger' BY <1>0, <1>1, <1>2, <1>3 DEF HistoryIsLedger
<1>5. OnceEach'
  <2>1. IsInjective(Base) BY <1>0, <1>2, BooksTyped, OnceParts DEF OnceEach, Base
  <2>2. Range(Base) \subseteq Range(box.head) BY <1>1, BaseInHead
  <2> QED BY <1>0, <1>1, <2>1, <2>2 DEF OnceEach, MadeBy
<1>6. Whole' BY <1>0, <1>1, <1>3 DEF Whole, Covers
<1>7. TestedIsHead' BY <1>1 DEF TestedIsHead
<1>8. OnHost' BY <1>0, <1>1 DEF OnHost, On
<1> QED BY <1>4, <1>5, <1>6, <1>7, <1>8 DEF Books

\* The round is what the history has beyond its base.
LEMMA RoundSplits ==
    ASSUME Typed, pc # "closing"
    PROVE  /\ Round \in Seq(Commits) /\ Len(Round) \in Nat
           /\ Range(box.head) = Range(Base) \union Range(Round)
           /\ IsInjective(box.head) =>
                 IsInjective(Round) /\ Range(Base) \intersect Range(Round) = {}
<1>1. ses.pre \in Nat /\ ses.pre <= Len(box.head) /\ box.head \in Seq(Commits) BY BooksTyped
<1>2. Round \in Seq(Commits) /\ Len(Round) \in Nat BY HistoriesTyped
<1> QED BY <1>1, <1>2, SplitAt, OnceParts DEF Base, Round

LEMMA AppendRoundBooks == ASSUME Typed, Inv, Books, AppendRound PROVE Books'
<1> DEFINE ledger == mem.commits \o Round
<1> USE DEF Clean, Open, Taken
<1>0. HistoryIsLedger /\ OnceEach /\ Whole /\ TestedIsHead /\ OnHost BY DEF Books
<1>1. pc = "judge" /\ box.head # <<>> BY DEF AppendRound
<1>2. /\ Round \in Seq(Commits) /\ Len(Round) \in Nat
      /\ Range(box.head) = Range(Base) \union Range(Round)
      /\ IsInjective(Round) /\ Range(Base) \intersect Range(Round) = {}
  BY <1>0, <1>1, RoundSplits DEF OnceEach
<1>3. mem.commits \in Seq(Commits) /\ box.head \in Seq(Commits) /\ Len(mem.commits) \in Nat
      /\ mem.applied \in Nat
  BY BooksTyped
<1>4. Range(mem.commits) = Range(Base) BY <1>0, <1>1 DEF HistoryIsLedger
<1>5. /\ ledger \in Seq(Commits) /\ Len(ledger) = Len(mem.commits) + Len(Round)
      /\ Range(ledger) = Range(box.head)
  BY <1>2, <1>3, <1>4, ConcatProperties, RangeConcat
<1>6. ledger # <<>> BY <1>1, <1>3, <1>5, RangeSome, RangeEmpty
<1>7. /\ mem'.commits = ledger /\ mem'.applied = mem.applied /\ mem'.cursor = mem.cursor
      /\ box'.flushed /\ box'.file = ledger /\ box'.head = box.head /\ box'.count = box.count
      /\ ses'.round = Len(Round) /\ ses'.pre = ses.pre /\ ses'.since = ses.since
      /\ ses'.tested = ses.tested /\ ses'.term = ses.term /\ ses'.moving = ses.moving
      /\ pc' = (IF mode = "staging" THEN "verify" ELSE "complete")
      /\ UNCHANGED <<mode, st, art, host, made, proof, harm>>
  <2>1. mem \in Progress /\ ses \in Session /\ box \in Box BY PartsTyped
  <2>2. mem' = [mem EXCEPT !.commits = ledger] BY DEF AppendRound
  <2>3. box' = [box EXCEPT !.flushed = TRUE, !.file = ledger] BY <1>6 DEF AppendRound
  <2>4. /\ ses' = [ses EXCEPT !.round = Len(Round)]
        /\ pc' = (IF mode = "staging" THEN "verify" ELSE "complete")
        /\ UNCHANGED <<mode, st, art, host, made, proof, harm>>
    BY DEF AppendRound, Goto, World
  <2> HIDE DEF ledger
  <2> QED BY <2>1, <2>2, <2>3, <2>4 DEF Progress, Session, Box
<1>8. Base' = Base BY <1>7 DEF Base, Upto
<1>9. WithoutRound' = mem.commits
  <2>1. Len(ledger) - Len(Round) = Len(mem.commits) BY <1>2, <1>3, <1>5
  <2>2. WithoutRound' = Upto(ledger, Len(ledger) - Len(Round)) BY <1>7 DEF WithoutRound
  <2>3. Upto(ledger, Len(mem.commits)) = Upto(mem.commits, Len(mem.commits))
    BY <1>2, <1>3, UptoConcat
  <2>4. Upto(mem.commits, Len(mem.commits)) = mem.commits BY <1>3, UptoAll
  <2> QED BY <2>1, <2>2, <2>3, <2>4
<1>10. "doubled" \notin harm => IsInjective(ledger)
  BY <1>0, <1>2, <1>3, <1>4, OnceConcat DEF OnceEach
<1>11. Len(Round) <= Len(ledger) BY <1>2, <1>3, <1>5
<1>12. harm = {} => On(host, mem.applied, ledger)
  <2>1. SUFFICES ASSUME harm = {} PROVE On(host, mem.applied, ledger) OBVIOUS
  <2>2. mem.applied <= Len(mem.commits) /\ Range(Upto(mem.commits, mem.applied)) \subseteq Range(host)
    BY <1>0, <2>1 DEF OnHost, On
  <2>3. Upto(ledger, mem.applied) = Upto(mem.commits, mem.applied)
    BY <1>2, <1>3, <2>2, UptoConcat
  <2>4. mem.applied <= Len(ledger) BY <1>2, <1>3, <1>5, <2>2
  <2> QED BY <2>2, <2>3, <2>4 DEF On
<1> HIDE DEF ledger
<1>13. HistoryIsLedger'
  BY <1>0, <1>1, <1>4, <1>5, <1>7, <1>8, <1>9, <1>11 DEF HistoryIsLedger
<1>14. OnceEach' BY <1>0, <1>5, <1>7, <1>10 DEF OnceEach, MadeBy
<1>15. Whole'
  <2>1. SUFFICES ASSUME "commits" \notin harm PROVE Whole' BY <1>7 DEF Whole
  <2>2. Covers(proof, art.cursor, art.commits) /\ Covers(proof, mem.cursor, Base)
    BY <1>0, <1>1, <2>1 DEF Whole
  <2>3. Covers(proof, mem.cursor, ledger) BY <1>2, <1>5, <2>2 DEF Covers
  <2> QED BY <1>7, <1>8, <2>2, <2>3 DEF Whole, Covers
<1>16. TestedIsHead'
  <2>1. mode \in {"staging", "sandbox"} BY LoopAssumption DEF Typed, TypeOK
  <2> QED BY <1>7, <2>1 DEF TestedIsHead
<1>17. OnHost'
  <2>1. SUFFICES ASSUME harm = {} PROVE OnHost' BY <1>7 DEF OnHost
  <2>2. mem.applied <= Len(WithoutRound') BY <1>0, <1>9, <2>1 DEF OnHost, On
  <2> QED BY <1>0, <1>1, <1>7, <1>12, <2>1, <2>2 DEF OnHost, On
<1> QED BY <1>13, <1>14, <1>15, <1>16, <1>17 DEF Books

\* The tests have passed, or there are none.
LEMMA PassedBooks == ASSUME Typed, Inv, Books, Bypass \/ TestsPass PROVE Books'
<1> USE DEF Clean, Open, Taken
<1>0. HistoryIsLedger /\ OnceEach /\ Whole /\ TestedIsHead /\ OnHost BY DEF Books
<1>1. /\ pc \in {"verify", "testing"} /\ pc' = "passed"
      /\ ses'.tested = Range(box.head) /\ ses'.pre = ses.pre /\ ses'.since = ses.since
      /\ ses'.round = ses.round /\ ses'.term = ses.term /\ ses'.moving = ses.moving
      /\ UNCHANGED <<mode, st, art, mem, box, host, made, proof, harm>>
  BY PartsTyped DEF Bypass, TestsPass, Session, Goto, World
<1>2. Base' = Base /\ WithoutRound' = WithoutRound BY <1>1 DEF Base, WithoutRound, Upto
<1>3. HistoryIsLedger' BY <1>0, <1>1, <1>2 DEF HistoryIsLedger
<1>4. OnceEach' BY <1>0, <1>1 DEF OnceEach, MadeBy
<1>5. Whole' BY <1>0, <1>1, <1>2 DEF Whole, Covers
<1>6. TestedIsHead' BY <1>1 DEF TestedIsHead
<1>7. OnHost' BY <1>0, <1>1, <1>2 DEF OnHost, On
<1> QED BY <1>3, <1>4, <1>5, <1>6, <1>7 DEF Books

\* A round that is given up leaves the ledger and the file as they were before it.
LEMMA RoundGivenUp ==
    ASSUME Typed, Books, pc \in {"exhausted", "aborted"}
    PROVE  /\ WithoutRound \in Seq(Commits) /\ Len(WithoutRound) \in Nat
           /\ Range(WithoutRound) = Range(Base)
           /\ Range(WithoutRound) \subseteq Range(mem.commits)
           /\ IsInjective(mem.commits) => IsInjective(WithoutRound)
           /\ harm = {} => On(host, mem.applied, WithoutRound)
<1>0. HistoryIsLedger /\ OnHost BY DEF Books
<1>1. ses.round <= Len(mem.commits) /\ Range(WithoutRound) = Range(Base)
  BY <1>0 DEF HistoryIsLedger, Taken
<1>2. mem.commits \in Seq(Commits) /\ Len(mem.commits) \in Nat /\ ses.round \in Nat
      /\ mem.applied \in Nat
  BY BooksTyped
<1>3. PICK n \in Nat : n = Len(mem.commits) - ses.round /\ n <= Len(mem.commits) BY <1>1, <1>2
<1>4. WithoutRound = Upto(mem.commits, n) BY <1>3 DEF WithoutRound
<1>5. /\ WithoutRound \in Seq(Commits) /\ Len(WithoutRound) = n
      /\ Range(WithoutRound) \subseteq Range(mem.commits)
  BY <1>2, <1>3, <1>4, UptoAfter, RangeUpto
<1>6. IsInjective(mem.commits) => IsInjective(WithoutRound) BY <1>2, <1>3, <1>4, OnceParts
<1>7. ASSUME harm = {} PROVE On(host, mem.applied, WithoutRound)
  <2>1. mem.applied <= n /\ Range(Upto(mem.commits, mem.applied)) \subseteq Range(host)
    BY <1>0, <1>5, <1>7 DEF OnHost, On, Taken
  <2>2. Upto(WithoutRound, mem.applied) = Upto(mem.commits, mem.applied)
    BY <1>2, <1>3, <1>4, <2>1, UptoUpto
  <2> QED BY <1>5, <2>1, <2>2 DEF On
<1> QED BY <1>1, <1>5, <1>6, <1>7

LEMMA DiscardRoundBooks == ASSUME Typed, Inv, Books, DiscardRound PROVE Books'
<1> USE DEF Clean, Open, Taken
<1>0. HistoryIsLedger /\ OnceEach /\ Whole /\ TestedIsHead /\ OnHost BY DEF Books
<1>1. pc = "exhausted" /\ pc' = "undo" BY DEF DiscardRound, Goto
<1>2. /\ mem'.commits = WithoutRound /\ mem'.applied = mem.applied /\ mem'.cursor = mem.cursor
      /\ box'.flushed /\ box'.file = WithoutRound /\ box'.head = box.head
      /\ box'.count = box.count
      /\ ses'.round = 0 /\ ses'.pre = ses.pre /\ ses'.since = ses.since
      /\ ses'.tested = ses.tested /\ ses'.term = ses.term /\ ses'.moving = ses.moving
      /\ UNCHANGED <<mode, st, art, host, made, proof, harm>>
  BY PartsTyped DEF DiscardRound, Progress, Box, Session, World
<1>3. /\ WithoutRound \in Seq(Commits) /\ Range(WithoutRound) = Range(Base)
      /\ Range(WithoutRound) \subseteq Range(mem.commits)
      /\ IsInjective(mem.commits) => IsInjective(WithoutRound)
      /\ harm = {} => On(host, mem.applied, WithoutRound)
  BY <1>1, RoundGivenUp
<1>4. Base' = Base BY <1>2 DEF Base, Upto
<1>5. HistoryIsLedger' BY <1>0, <1>1, <1>2, <1>3, <1>4 DEF HistoryIsLedger
<1>6. OnceEach' BY <1>0, <1>2, <1>3 DEF OnceEach, MadeBy
<1>7. Whole' BY <1>0, <1>1, <1>2, <1>3, <1>4 DEF Whole, Covers
<1>8. TestedIsHead' BY <1>1 DEF TestedIsHead
<1>9. OnHost' BY <1>0, <1>1, <1>2, <1>3 DEF OnHost, On
<1> QED BY <1>5, <1>6, <1>7, <1>8, <1>9 DEF Books

LEMMA GiveUpBooks == ASSUME Typed, Inv, Books, GiveUp PROVE Books'
<1> USE DEF Clean, Open, Taken
<1>0. HistoryIsLedger /\ OnceEach /\ Whole /\ TestedIsHead /\ OnHost BY DEF Books
<1>1. pc = "aborted" /\ pc' = "drained" BY DEF GiveUp, Goto
<1>2. /\ mem'.commits = WithoutRound /\ mem'.applied = mem.applied /\ mem'.cursor = mem.cursor
      /\ box'.flushed /\ box'.file = WithoutRound /\ box'.head = box.head
      /\ box'.count = box.count
      /\ ses'.round = 0 /\ ses'.pre = ses.pre /\ ses'.since = ses.since
      /\ ses'.tested = ses.tested /\ ses'.term = "failed" /\ ses'.moving = ses.moving
      /\ UNCHANGED <<mode, st, art, host, made, proof, harm>>
  BY PartsTyped DEF GiveUp, Progress, Box, Session, World
<1>3. /\ WithoutRound \in Seq(Commits) /\ Range(WithoutRound) = Range(Base)
      /\ Range(WithoutRound) \subseteq Range(mem.commits)
      /\ IsInjective(mem.commits) => IsInjective(WithoutRound)
      /\ harm = {} => On(host, mem.applied, WithoutRound)
  BY <1>1, RoundGivenUp
<1>4. Base' = Base BY <1>2 DEF Base, Upto
<1>5. ~ses.moving BY <1>1 DEF Inv, MovingOnly
<1>6. Range(mem.commits) = Range(box.head) BY <1>0, <1>1 DEF HistoryIsLedger
<1>7. HistoryIsLedger' BY <1>0, <1>1, <1>2, <1>3, <1>4, <1>5, <1>6 DEF HistoryIsLedger
<1>8. OnceEach' BY <1>0, <1>2, <1>3 DEF OnceEach, MadeBy
<1>9. Whole' BY <1>0, <1>1, <1>2, <1>3, <1>4 DEF Whole, Covers
<1>10. TestedIsHead' BY <1>1, <1>2 DEF TestedIsHead
<1>11. OnHost' BY <1>0, <1>1, <1>2, <1>3 DEF OnHost, On
<1> QED BY <1>7, <1>8, <1>9, <1>10, <1>11 DEF Books

\* The subtask under the cursor has earned what is in the sandbox.
LEMMA PassBooks == ASSUME Typed, Inv, Books, Pass PROVE Books'
<1> USE DEF Clean, Open, Taken
<1>0. HistoryIsLedger /\ OnceEach /\ Whole /\ TestedIsHead /\ OnHost BY DEF Books
<1>1. pc \in {"passed", "complete"} /\ pc' = "advance" BY DEF Pass, Goto
<1>2. SavedBooks(Tried(mem)) /\ mem' = Tried(mem) BY SaveKeepsBooks DEF Pass, Remember
<1>3. /\ mem'.commits = mem.commits /\ mem'.applied = mem.applied /\ mem'.cursor = mem.cursor
      /\ \/ art'.commits = art.commits /\ art'.applied = art.applied /\ art'.cursor = art.cursor
         \/ art'.commits = mem.commits /\ art'.applied = mem.applied /\ art'.cursor = mem.cursor
      /\ proof' = [proof EXCEPT ![mem.cursor] = Range(box.head)]
      /\ UNCHANGED <<mode, st, box, host, ses, made, harm>>
  BY <1>2 DEF Pass, SavedBooks
<1>4. Base' = Base /\ WithoutRound' = WithoutRound BY <1>3 DEF Base, WithoutRound, Upto
<1>5. HistoryIsLedger' BY <1>0, <1>1, <1>3, <1>4 DEF HistoryIsLedger
<1>6. OnceEach' BY <1>0, <1>3 DEF OnceEach, MadeBy
<1>7. Whole'
  <2>1. SUFFICES ASSUME "commits" \notin harm PROVE Whole' BY <1>3 DEF Whole
  <2>2. mem.cursor \in Subtasks /\ art.cursor \in Subtasks /\ proof \in [Subtasks -> SUBSET Commits]
    BY PartsTyped DEF Typed, TypeOK, Progress
  <2>3. art.cursor <= mem.cursor /\ mem.cursor \in Nat /\ art.cursor \in Nat
    BY <1>1, PartsTyped DEF Inv, Ahead
  <2>4. \A i \in 1 .. (mem.cursor - 1) : proof'[i] = proof[i]
    BY <1>3, <2>2, <2>3, ConstantsTyped DEF Subtasks
  <2>5. proof'[mem.cursor] = Range(box.head) BY <1>3, <2>2
  <2>6. \A s : Covers(proof, mem.cursor, s) => Covers(proof', mem.cursor, s)
    BY <2>4 DEF Covers
  <2>7. \A s : Covers(proof, art.cursor, s) => Covers(proof', art.cursor, s)
    BY <2>3, <2>4 DEF Covers
  <2>8. /\ Covers(proof', art.cursor, art.commits) /\ Covers(proof', mem.cursor, mem.commits)
        /\ Covers(proof', mem.cursor, Base)
        /\ box.flushed => Covers(proof', mem.cursor, box.file)
    BY <1>0, <1>1, <2>1, <2>6, <2>7 DEF Whole
  <2> QED BY <1>1, <1>3, <1>4, <2>5, <2>8 DEF Whole, Covers
<1>8. TestedIsHead' BY <1>0, <1>1, <1>3 DEF TestedIsHead
<1>9. OnHost'
  <2>1. mem.applied \in Nat BY BooksTyped
  <2> QED BY <1>0, <1>1, <1>3, <1>4, <2>1 DEF OnHost, On
<1> QED BY <1>5, <1>6, <1>7, <1>8, <1>9 DEF Books

-----------------------------------------------------------------------------
(* The steps that change the books: to the next subtask, and to the end.   *)

\* After an extract the commits that are taken for applied are on the host.
LEMMA ExtractBooks ==
    ASSUME Typed, Books, HostExtract, pc = "advance"
    PROVE  /\ Applied \in Nat
           /\ harm = {} =>
                 /\ On(host', Applied, mem.commits) /\ mem.applied <= Applied
                 /\ Range(host) \subseteq Range(host')
                 /\ IF host' # host THEN Applied = Len(mem.commits) ELSE Applied = mem.applied
<1> DEFINE new == After(mem.commits, mem.applied)
<1>1. Applied \in Nat BY ExtractTyped
<1>2. SUFFICES ASSUME harm = {}
               PROVE  /\ On(host', Applied, mem.commits) /\ mem.applied <= Applied
                      /\ Range(host) \subseteq Range(host')
                      /\ IF host' # host THEN Applied = Len(mem.commits) ELSE Applied = mem.applied
  BY <1>1
<1>3. On(host, mem.applied, mem.commits) BY <1>2 DEF Books, OnHost
<1>4. /\ mem.commits \in Seq(Commits) /\ Len(mem.commits) \in Nat /\ mem.applied \in Nat
      /\ host \in Seq(Commits)
  BY BooksTyped DEF Typed, TypeOK
<1>5. mem.applied <= Len(mem.commits) BY <1>3 DEF On
<1>6. new \in Seq(Commits) BY <1>4, <1>5, UptoAfter
<1>7. Range(mem.commits) = Range(Upto(mem.commits, mem.applied)) \union Range(new)
  BY <1>4, <1>5, SplitAt
<1>8. \/ new # <<>> /\ host' = host \o new
      \/ host' = host
  BY DEF HostExtract
<1> HIDE DEF new
<1>9. CASE new # <<>> /\ host' = host \o new
  <2>1. host' # host BY <1>4, <1>6, <1>9, ConcatEqualIffEmpty
  <2>2. Applied = Len(mem.commits) BY <2>1 DEF Applied
  <2>3. Range(host') = Range(host) \union Range(new) BY <1>4, <1>6, <1>9, RangeConcat
  <2>4. Range(mem.commits) \subseteq Range(host') BY <1>3, <1>7, <2>3 DEF On
  <2>5. Upto(mem.commits, Len(mem.commits)) = mem.commits BY <1>4, UptoAll
  <2>6. On(host', Applied, mem.commits) BY <1>4, <2>2, <2>4, <2>5 DEF On
  <2> QED BY <1>5, <2>1, <2>2, <2>3, <2>6
<1>10. CASE host' = host
  <2>1. Applied = mem.applied BY <1>10 DEF Applied
  <2> QED BY <1>3, <1>4, <1>10, <2>1
<1> QED BY <1>8, <1>9, <1>10

\* What Advance makes of the books.
LEMMA AdvanceFacts ==
    ASSUME Typed, Advance
    PROVE  /\ pc = "advance" /\ HostExtract
           /\ mem'.commits = mem.commits /\ mem'.applied = Applied
           /\ mem'.cursor = mem.cursor + 1
           /\ \/ art' = art
              \/ /\ art'.commits = mem.commits /\ art'.applied = Applied
                 /\ art'.cursor = mem.cursor + 1
           /\ box'.head = box.head /\ box'.flushed = box.flushed /\ box'.file = box.file
           /\ box'.count = IF host' # host THEN Len(mem.commits) ELSE box.count
           /\ ses'.pre = Len(box.head) /\ ses'.since = ses.since /\ ses'.term = ses.term
           /\ pc' \in {"work", "drained"}
           /\ harm \subseteq harm' /\ ("doubled" \in harm' => "doubled" \in harm)
           /\ ("commits" \in harm' => "commits" \in harm)
           /\ UNCHANGED <<mode, st, made, proof>>
<1> DEFINE next == NextProgress
           flag == [next EXCEPT !.transition = next.cursor]
<1>0. mem \in Progress /\ ses \in Session /\ box \in Box BY PartsTyped
<1>1. HostExtract /\ mem.cursor < N /\ pc = "advance" BY DEF Advance
<1>2. next \in Progress /\ next.cursor = mem.cursor + 1 /\ next.commits = mem.commits
  BY <1>1, NextTyped
<1>3. next.applied = Applied
  <2> DEFINE moved == [mem EXCEPT !.cursor = @ + 1, !.applied = Applied]
  <2>1. moved \in Progress
    <3>1. [mem EXCEPT !.cursor = mem.cursor + 1] \in Progress BY <1>0, <1>1, NextTyped, CursorSet
    <3>2. [[mem EXCEPT !.cursor = mem.cursor + 1] EXCEPT !.applied = Applied] \in Progress
      BY <1>1, <3>1, AppliedSet, ExtractTyped
    <3> QED BY <3>2, Zenon
  <2>2. moved.applied = Applied BY <1>0 DEF Progress
  <2>3. next = Based(moved) BY DEF NextProgress
  <2> HIDE DEF moved, next
  <2> QED BY <2>1, <2>2, <2>3, BasedFields
<1>4. \/ /\ mem' = next /\ art' = art /\ ses' = Rebase /\ pc' = "work" /\ harm' = harm
      \/ /\ mem' = flag /\ art' = flag /\ ses' = [Rebase EXCEPT !.moving = TRUE]
         /\ pc' = "drained" /\ harm' = harm
      \/ /\ mem' = next /\ art' = art /\ ses' = [Rebase EXCEPT !.abort = FirstAbort(@, "stop")]
         /\ pc' = "drained" /\ harm' = harm \union {"boundary"}
  BY Zenon DEF Advance, NextProgress, SaveOrThrow, Goto
<1>5. flag.commits = next.commits /\ flag.applied = next.applied /\ flag.cursor = next.cursor
  BY <1>2 DEF Progress
<1> HIDE DEF next, flag
<1>6. /\ mem'.commits = mem.commits /\ mem'.applied = Applied /\ mem'.cursor = mem.cursor + 1
      /\ \/ art' = art
         \/ /\ art'.commits = mem.commits /\ art'.applied = Applied
            /\ art'.cursor = mem.cursor + 1
      /\ pc' \in {"work", "drained"}
  BY <1>2, <1>3, <1>4, <1>5
<1>7. ses'.pre = Len(box.head) /\ ses'.since = ses.since /\ ses'.term = ses.term
  BY <1>0, <1>4 DEF Rebase, Session
<1>8. /\ box'.head = box.head /\ box'.flushed = box.flushed /\ box'.file = box.file
      /\ box'.count = IF host' # host THEN Len(mem.commits) ELSE box.count
  BY <1>0 DEF Advance, Box
<1>9. /\ harm \subseteq harm' /\ ("doubled" \in harm' => "doubled" \in harm)
      /\ ("commits" \in harm' => "commits" \in harm)
  BY <1>4
<1>10. UNCHANGED <<mode, st, made, proof>> BY DEF Advance
<1> QED BY <1>1, <1>6, <1>7, <1>8, <1>9, <1>10

LEMMA AdvanceBooks == ASSUME Typed, Inv, Books, Advance PROVE Books'
<1> USE DEF Clean, Open, Taken
<1>0. HistoryIsLedger /\ OnceEach /\ Whole /\ TestedIsHead /\ OnHost BY DEF Books
<1>1. /\ pc = "advance" /\ HostExtract
      /\ mem'.commits = mem.commits /\ mem'.applied = Applied /\ mem'.cursor = mem.cursor + 1
      /\ \/ art' = art
         \/ /\ art'.commits = mem.commits /\ art'.applied = Applied
            /\ art'.cursor = mem.cursor + 1
      /\ box'.head = box.head /\ box'.flushed = box.flushed /\ box'.file = box.file
      /\ box'.count = IF host' # host THEN Len(mem.commits) ELSE box.count
      /\ ses'.pre = Len(box.head) /\ ses'.since = ses.since /\ ses'.term = ses.term
      /\ pc' \in {"work", "drained"}
      /\ harm \subseteq harm' /\ ("doubled" \in harm' => "doubled" \in harm)
      /\ ("commits" \in harm' => "commits" \in harm)
      /\ UNCHANGED <<mode, st, made, proof>>
  BY AdvanceFacts
<1>2. /\ box.head \in Seq(Commits) /\ Len(box.head) \in Nat /\ ses.pre \in Nat
      /\ ses.since \in Nat /\ ses.pre <= Len(box.head) /\ mem.cursor \in Nat
      /\ art.applied \in Nat /\ mem.applied \in Nat /\ box.count \in Nat
      /\ Len(mem.commits) \in Nat
  BY <1>1, BooksTyped
<1>3. Base' = box.head
  <2>1. Base' = Upto(box.head, Len(box.head)) BY <1>1 DEF Base
  <2> QED BY <1>2, <2>1, UptoAll
<1>4. /\ Range(mem.commits) = Range(box.head) /\ box.flushed /\ box.file = mem.commits
      /\ ses.since <= ses.pre /\ ses.term = "none"
  BY <1>0, <1>1 DEF HistoryIsLedger
<1>5. HistoryIsLedger' BY <1>1, <1>2, <1>3, <1>4 DEF HistoryIsLedger
<1>6. OnceEach' BY <1>0, <1>1 DEF OnceEach, MadeBy
<1>7. Whole'
  <2>1. SUFFICES ASSUME "commits" \notin harm PROVE Whole' BY <1>1 DEF Whole
  <2>2. Covers(proof, mem.cursor, mem.commits) /\ proof[mem.cursor] \subseteq Range(mem.commits)
    BY <1>0, <1>1, <1>4, <2>1 DEF Whole
  <2>3. \A i \in 1 .. mem.cursor : proof[i] \subseteq Range(mem.commits)
    BY <1>2, <2>2 DEF Covers
  <2>4. Covers(proof, mem.cursor + 1, mem.commits)
    <3>1. PICK c \in Nat : c = mem.cursor + 1 BY <1>2
    <3>2. \A i \in 1 .. (c - 1) : proof[i] \subseteq Range(mem.commits) BY <1>2, <2>3, <3>1
    <3> QED BY <3>1, <3>2 DEF Covers
  <2>5. Covers(proof, mem.cursor + 1, box.head) BY <1>4, <2>4 DEF Covers
  <2>6. Covers(proof, art.cursor, art.commits) BY <1>0, <2>1 DEF Whole
  <2> QED BY <1>1, <1>3, <1>4, <2>4, <2>5, <2>6 DEF Whole, Covers
<1>8. TestedIsHead' BY <1>1, <1>4 DEF TestedIsHead
<1>9. OnHost'
  <2>1. SUFFICES ASSUME harm = {} PROVE OnHost' BY <1>1 DEF OnHost
  <2>2. /\ On(host', Applied, mem.commits) /\ mem.applied <= Applied /\ Applied \in Nat
        /\ Range(host) \subseteq Range(host')
        /\ IF host' # host THEN Applied = Len(mem.commits) ELSE Applied = mem.applied
    BY <1>0, <1>1, <2>1, ExtractBooks DEF Books
  <2>3. On(host, art.applied, art.commits) /\ art.applied <= mem.applied /\ box.count <= mem.applied
    BY <1>0, <1>1, <2>1 DEF OnHost
  <2>4. On(host', art.applied, art.commits) BY <2>2, <2>3 DEF On
  <2>5. art.applied <= Applied /\ box'.count <= Applied BY <1>1, <1>2, <2>2, <2>3
  <2> QED BY <1>1, <1>4, <2>2, <2>4, <2>5 DEF OnHost, On
<1> QED BY <1>5, <1>6, <1>7, <1>8, <1>9 DEF Books

LEMMA FinishBooks == ASSUME Typed, Inv, Books, Finish PROVE Books'
<1> USE DEF Clean, Open, Taken
<1>0. HistoryIsLedger /\ OnceEach /\ Whole /\ TestedIsHead /\ OnHost BY DEF Books
<1>1. /\ pc = "advance" /\ HostExtract /\ pc' = "drained"
      /\ mem'.commits = mem.commits /\ mem'.applied = Applied /\ mem'.cursor = mem.cursor
      /\ box'.head = box.head /\ box'.flushed = box.flushed /\ box'.file = box.file
      /\ box'.count = IF host' # host THEN Len(mem.commits) ELSE box.count
      /\ ses'.pre = ses.pre /\ ses'.since = ses.since /\ ses'.term = "success"
      /\ ses'.tested = ses.tested /\ ses'.moving = ses.moving
      /\ UNCHANGED <<mode, st, art, made, proof, harm>>
  BY PartsTyped DEF Finish, Progress, Box, Session, Goto
<1>2. /\ art.applied \in Nat /\ mem.applied \in Nat /\ box.count \in Nat
      /\ Len(mem.commits) \in Nat
  BY BooksTyped
<1>3. Base' = Base BY <1>1 DEF Base, Upto
<1>4. /\ Range(mem.commits) = Range(box.head) /\ box.flushed /\ box.file = mem.commits
      /\ ses.since <= ses.pre /\ ~ses.moving
  BY <1>0, <1>1 DEF HistoryIsLedger, Inv, MovingOnly
<1>5. Range(Base) \subseteq Range(box.head) BY <1>1, BaseInHead
<1>6. HistoryIsLedger' BY <1>1, <1>3, <1>4, <1>5 DEF HistoryIsLedger
<1>7. OnceEach' BY <1>0, <1>1 DEF OnceEach, MadeBy
<1>8. Whole' BY <1>0, <1>1, <1>3 DEF Whole, Covers
<1>9. TestedIsHead' BY <1>0, <1>1 DEF TestedIsHead
<1>10. OnHost'
  <2>1. SUFFICES ASSUME harm = {} PROVE OnHost' BY <1>1 DEF OnHost
  <2>2. /\ On(host', Applied, mem.commits) /\ mem.applied <= Applied /\ Applied \in Nat
        /\ Range(host) \subseteq Range(host')
        /\ IF host' # host THEN Applied = Len(mem.commits) ELSE Applied = mem.applied
    BY <1>0, <1>1, <2>1, ExtractBooks DEF Books
  <2>3. On(host, art.applied, art.commits) /\ art.applied <= mem.applied /\ box.count <= mem.applied
    BY <1>0, <1>1, <2>1 DEF OnHost
  <2>4. On(host', art.applied, art.commits) BY <2>2, <2>3 DEF On
  <2>5. art.applied <= Applied /\ box'.count <= Applied BY <1>1, <1>2, <2>2, <2>3
  <2> QED BY <1>1, <1>4, <2>2, <2>4, <2>5 DEF OnHost, On
<1> QED BY <1>6, <1>7, <1>8, <1>9, <1>10 DEF Books

\* Pause, stop, timeout: what the history has since the process began is put
\* after the ledger.
LEMMA DrainsAbortedBooks == ASSUME Typed, Inv, Books, DrainsAborted PROVE Books'
<1> DEFINE kept == After(box.head, ses.since)
           ledger == mem.commits \o kept
<1> USE DEF Clean, Open, Taken
<1>0. HistoryIsLedger /\ OnceEach /\ Whole /\ TestedIsHead /\ OnHost BY DEF Books
<1>1. /\ pc = "drained" /\ pc' = "closing" /\ ses.term = "none"
      /\ mem'.commits = ledger /\ mem'.applied = mem.applied /\ mem'.cursor = mem.cursor
      /\ ses'.term = ses.term
      /\ harm' = (IF Range(kept) \intersect Range(mem.commits) = {} THEN harm
                  ELSE harm \union {"doubled"})
      /\ UNCHANGED <<mode, st, art, box, host, made, proof>>
  <2>1. mem' = [mem EXCEPT !.commits = ledger] BY DEF DrainsAborted
  <2>2. ses' = [ses EXCEPT !.out = OutcomeOf[ses.abort], !.moving = FALSE] BY DEF DrainsAborted
  <2>3. /\ harm' = (IF Range(kept) \intersect Range(mem.commits) = {} THEN harm
                    ELSE harm \union {"doubled"})
        /\ pc = "drained" /\ pc' = "closing" /\ ses.term = "none"
        /\ UNCHANGED <<mode, st, art, box, host, made, proof>>
    BY DEF DrainsAborted, Goto
  <2> HIDE DEF ledger, kept
  <2> QED BY <2>1, <2>2, <2>3, PartsTyped DEF Progress, Session
<1>2. /\ box.head \in Seq(Commits) /\ Len(box.head) \in Nat /\ ses.pre \in Nat
      /\ ses.since \in Nat /\ ses.pre <= Len(box.head) /\ mem.commits \in Seq(Commits)
      /\ Len(mem.commits) \in Nat /\ mem.applied \in Nat
  BY <1>1, BooksTyped
<1>3. ses.since <= ses.pre /\ ses.since <= Len(box.head)
  BY <1>0, <1>1, <1>2 DEF HistoryIsLedger
<1>4. /\ kept \in Seq(Commits) /\ IsInjective(kept) /\ Len(kept) \in Nat
      /\ Range(box.head) = Range(Upto(box.head, ses.since)) \union Range(kept)
  <2>1. kept \in Seq(Commits) BY <1>2, <1>3, UptoAfter
  <2>2. Range(box.head) = Range(Upto(box.head, ses.since)) \union Range(kept)
    BY <1>2, <1>3, SplitAt
  <2>3. IsInjective(kept) BY <1>0, <1>2, <1>3, OnceParts DEF OnceEach
  <2> QED BY <2>1, <2>2, <2>3, LenProperties
<1>5. Range(Upto(box.head, ses.since)) \subseteq Range(Base)
  BY <1>2, <1>3, UptoGrows DEF Base
<1> HIDE DEF kept
<1>6. /\ ledger \in Seq(Commits) /\ Len(ledger) = Len(mem.commits) + Len(kept)
      /\ Range(ledger) = Range(mem.commits) \union Range(kept)
  BY <1>2, <1>4, ConcatProperties, RangeConcat
<1>7. /\ Range(Base) \subseteq Range(mem.commits)
      /\ Range(mem.commits) \subseteq Range(box.head)
  BY <1>0, <1>1 DEF HistoryIsLedger
<1>8. Range(ledger) = Range(box.head) BY <1>4, <1>5, <1>6, <1>7
<1>9. "doubled" \notin harm' => IsInjective(ledger)
  <2>1. SUFFICES ASSUME "doubled" \notin harm' PROVE IsInjective(ledger) OBVIOUS
  <2>2. Range(mem.commits) \intersect Range(kept) = {} /\ "doubled" \notin harm BY <1>1, <2>1
  <2> QED BY <1>0, <1>2, <1>4, <2>2, OnceConcat DEF OnceEach
<1>10. harm = {} => On(host, mem.applied, ledger)
  <2>1. SUFFICES ASSUME harm = {} PROVE On(host, mem.applied, ledger) OBVIOUS
  <2>2. mem.applied <= Len(mem.commits) /\ Range(Upto(mem.commits, mem.applied)) \subseteq Range(host)
    BY <1>0, <2>1 DEF OnHost, On
  <2>3. Upto(ledger, mem.applied) = Upto(mem.commits, mem.applied)
    BY <1>2, <1>4, <2>2, UptoConcat
  <2>4. mem.applied <= Len(ledger) BY <1>2, <1>4, <1>6, <2>2
  <2> QED BY <2>2, <2>3, <2>4 DEF On
<1> HIDE DEF ledger
<1>11. harm' = {} => harm = {} BY <1>1
<1>12. HistoryIsLedger' BY <1>1, <1>8 DEF HistoryIsLedger
<1>13. OnceEach'
  <2>1. MadeBy(ledger, made) BY <1>0, <1>8 DEF OnceEach, MadeBy
  <2>2. "doubled" \notin harm' => "doubled" \notin harm BY <1>1
  <2> QED BY <1>0, <1>1, <1>9, <2>1, <2>2 DEF OnceEach, MadeBy
<1>14. Whole'
  <2>1. SUFFICES ASSUME "commits" \notin harm PROVE Whole' BY <1>1 DEF Whole
  <2>2. Covers(proof, mem.cursor, ledger) BY <1>0, <1>6, <2>1 DEF Whole, Covers
  <2> QED BY <1>0, <1>1, <2>1, <2>2 DEF Whole, Covers
<1>15. TestedIsHead' BY <1>1 DEF TestedIsHead
<1>16. OnHost' BY <1>0, <1>1, <1>10, <1>11 DEF OnHost, On
<1> QED BY <1>12, <1>13, <1>14, <1>15, <1>16 DEF Books

LEMMA NoBoxHolds ==
    /\ NoBox.head = <<>> /\ ~NoBox.flushed /\ NoBox.file = <<>> /\ NoBox.count = 0
BY DEF NoBox, NewBox

\* A finished session removes the sandbox.
LEMMA RemovedBooks ==
    ASSUME Typed, Inv, Books, DrainsFinished \/ ApplyToHost, box' = NoBox
    PROVE  Quiet \/ Books'
<1> USE DEF Clean, Open, Taken
<1>0. HistoryIsLedger /\ OnceEach /\ Whole /\ TestedIsHead /\ OnHost BY DEF Books
<1>1. CASE box' = box BY <1>0, <1>1, DrainQuiet
<1>2. CASE box' # box
  <2>1. /\ pc \in {"drained", "applying"} /\ pc' = "closing" /\ ses'.out = "success"
        /\ UNCHANGED <<art, mem, World>>
    <3>1. CASE DrainsFinished
      <4>1. pc = "drained" /\ UNCHANGED <<art, mem, World>> BY <3>1 DEF DrainsFinished
      <4>2. pc' = "closing" /\ ses.term = "success" BY <1>2, <3>1 DEF DrainsFinished, Goto
      <4>3. ses'.out = ses.term BY <3>1, PartsTyped DEF DrainsFinished, Ended, Session
      <4> QED BY <4>1, <4>2, <4>3
    <3>2. CASE ApplyToHost
      <4>1. ses' = [ses EXCEPT !.out = "success"] /\ pc' = "closing" /\ pc = "applying"
            /\ UNCHANGED <<art, mem, World>>
        BY <1>2, <3>2 DEF ApplyToHost, Goto
      <4> QED BY <4>1, PartsTyped DEF Session
    <3> QED BY <3>1, <3>2
  <2>2. UNCHANGED <<mode, st, host, made, proof, harm>> BY <2>1 DEF World
  <2>3. /\ box'.head = <<>> /\ ~box'.flushed /\ box'.file = <<>> /\ box'.count = 0
    BY NoBoxHolds
  <2>4. HistoryIsLedger' BY <2>1 DEF HistoryIsLedger
  <2>5. OnceEach' BY <1>0, <2>1, <2>2, <2>3, OnceEmpty, RangeEmpty DEF OnceEach, MadeBy
  <2>6. Whole' BY <1>0, <2>1, <2>2, <2>3 DEF Whole, Covers
  <2>7. TestedIsHead' BY <2>1 DEF TestedIsHead
  <2>8. OnHost'
    <3>1. mem.applied \in Nat BY BooksTyped
    <3> QED BY <1>0, <2>1, <2>2, <2>3, <3>1 DEF OnHost, On
  <2> QED BY <2>4, <2>5, <2>6, <2>7, <2>8 DEF Books
<1> QED BY <1>1, <1>2

-----------------------------------------------------------------------------
(* The ends of a process.                                                  *)

\* What has to hold of a stored artifact by itself.
StoredWell ==
    /\ MadeBy(art.commits, made)
    /\ "doubled" \notin harm => IsInjective(art.commits)
    /\ "commits" \notin harm => Covers(proof, art.cursor, art.commits)
    /\ harm = {} => On(host, art.applied, art.commits)

LEMMA BooksStored ==
    ASSUME Typed, Books
    PROVE  /\ StoredWell
           /\ MadeBy(mem.commits, made)
           /\ "doubled" \notin harm => IsInjective(mem.commits)
           /\ "commits" \notin harm => Covers(proof, mem.cursor, mem.commits)
           /\ harm = {} => On(host, mem.applied, mem.commits)
BY DEF Books, OnceEach, Whole, OnHost, StoredWell

\* A process that ends keeps its sandbox only when it is paused.
LEMMA ExitBooks ==
    ASSUME Typed, Books, Exit, pc # "off", StoredWell',
           UNCHANGED <<host, made, proof>>, harm \subseteq harm',
           \/ box' = NoBox /\ st' # "paused"
           \/ box' = box /\ st' # "paused" /\ pc = "closing"
           \/ box' = box /\ pc = "closing" /\ ses.out = "paused" /\ art' = mem /\ harm' = harm
    PROVE  Books'
<1> USE DEF Clean, Open, Taken
<1>0. HistoryIsLedger /\ OnceEach /\ Whole /\ TestedIsHead /\ OnHost BY DEF Books
<1>1. /\ pc' = "off" /\ mem'.commits = <<>> /\ mem'.applied = 0 /\ mem'.cursor = 1
      /\ ses'.term = "none"
  BY DEF Exit, Fresh, NoSession
<1>2. \/ box'.head = <<>> /\ ~box'.flushed /\ box'.file = <<>> /\ box'.count = 0
      \/ box' = box
  BY NoBoxHolds
<1>3. HistoryIsLedger' BY <1>0, <1>1 DEF HistoryIsLedger
<1>4. OnceEach'
  <2>1. IsInjective(box'.head) /\ MadeBy(box'.head, made) /\ MadeBy(box'.file, made)
    BY <1>0, <1>2, OnceEmpty, RangeEmpty DEF OnceEach, MadeBy
  <2>2. "doubled" \notin harm' => IsInjective(box'.file)
    BY <1>0, <1>2, OnceEmpty DEF OnceEach
  <2>3. MadeBy(mem'.commits, made) /\ IsInjective(mem'.commits)
    BY <1>1, OnceEmpty, RangeEmpty DEF MadeBy
  <2> QED BY <2>1, <2>2, <2>3 DEF OnceEach, StoredWell, MadeBy
<1>5. Whole'
  <2>1. Covers(proof', mem'.cursor, mem'.commits) BY <1>1 DEF Covers
  <2>2. ASSUME "commits" \notin harm', box'.flushed, st' = "paused"
        PROVE  Covers(proof', art'.cursor, box'.file)
    <3>1. box' = box /\ art' = mem /\ harm' = harm BY <2>2, NoBoxHolds
    <3> QED BY <1>0, <2>2, <3>1 DEF Whole
  <2> QED BY <1>1, <2>1, <2>2 DEF Whole, StoredWell, Covers
<1>6. TestedIsHead' BY <1>1 DEF TestedIsHead
<1>7. OnHost'
  <2>1. SUFFICES ASSUME harm' = {} PROVE OnHost' BY DEF OnHost
  <2>2. harm = {} BY <2>1
  <2>3. On(host', mem'.applied, mem'.commits)
    <3>1. 0 <= Len(<<>>) /\ Upto(<<>>, 0) = <<>> BY SubSeqEmpty, EmptySeq DEF Upto
    <3> QED BY <1>1, <3>1, RangeEmpty DEF On
  <2>4. ~box'.flushed => box'.count = 0 BY <1>0, <1>2, <2>2 DEF OnHost
  <2>5. ASSUME st' = "paused"
        PROVE  /\ box'.count <= art'.applied
               /\ box'.flushed => On(host', art'.applied, box'.file)
    <3>1. box' = box /\ art' = mem /\ harm' = harm BY <2>5, NoBoxHolds
    <3> QED BY <1>0, <2>2, <3>1 DEF OnHost, On
  <2> QED BY <1>1, <2>1, <2>3, <2>4, <2>5 DEF OnHost, StoredWell, On
<1> QED BY <1>3, <1>4, <1>5, <1>6, <1>7 DEF Books

LEMMA CloseBooks == ASSUME Typed, Inv, Books, Close PROVE Books'
<1>1. /\ pc = "closing" /\ Exit /\ UNCHANGED <<host, made, proof, harm>>
      /\ \/ art' = mem /\ st' = FinalStatus
         \/ art' = art /\ st' = st
      /\ box' = IF ses.out = "paused" THEN box ELSE NoBox
  BY DEF Close
<1>2. st = "running" BY <1>1 DEF Inv, RunsAreRunning
<1>3. st' = "paused" => ses.out = "paused" /\ art' = mem BY <1>1, <1>2 DEF FinalStatus
<1>4. StoredWell' BY <1>1, BooksStored DEF StoredWell, MadeBy, Covers, On
<1> QED BY <1>1, <1>3, <1>4, ExitBooks

\* What Ctrl+C keeps is as whole as what it is told has not been lost.
LEMMA KeptBooks ==
    ASSUME Typed, Inv, Books, pc # "off"
    PROVE  /\ MadeBy(Kept.commits, made)
           /\ "doubled" \notin harm => IsInjective(Kept.commits)
           /\ "commits" \notin harm /\ (box.flushed \/ art.commits = <<>>) =>
                 Covers(proof, Kept.cursor, Kept.commits)
           /\ harm = {} /\ (box.flushed \/ art.commits = <<>>) =>
                 On(host, Kept.applied, Kept.commits)
<1>0. OnceEach /\ Whole /\ OnHost BY DEF Books
<1>1. /\ Kept.commits = (IF box.flushed THEN box.file ELSE <<>>)
      /\ Kept.applied = (IF box.count # 0 THEN box.count ELSE art.applied)
      /\ Kept.cursor = art.cursor
  BY PartsTyped DEF Kept, Progress
<1>2. MadeBy(Kept.commits, made) BY <1>0, <1>1, RangeEmpty DEF OnceEach, MadeBy
<1>3. "doubled" \notin harm => IsInjective(Kept.commits) BY <1>0, <1>1, OnceEmpty DEF OnceEach
<1>4. ASSUME "commits" \notin harm, box.flushed \/ art.commits = <<>>
      PROVE  Covers(proof, Kept.cursor, Kept.commits)
  <2>1. art.cursor <= mem.cursor /\ art.cursor \in Nat /\ mem.cursor \in Nat
    BY PartsTyped DEF Inv, Ahead
  <2>2. CASE box.flushed
    <3>1. Covers(proof, mem.cursor, box.file) BY <1>0, <1>4, <2>2 DEF Whole
    <3>2. Covers(proof, art.cursor, box.file) BY <2>1, <3>1 DEF Covers
    <3> QED BY <1>1, <2>2, <3>2
  <2>3. CASE ~box.flushed BY <1>0, <1>1, <1>4, <2>3 DEF Whole
  <2> QED BY <2>2, <2>3
<1>5. ASSUME harm = {}, box.flushed \/ art.commits = <<>>
      PROVE  On(host, Kept.applied, Kept.commits)
  <2>1. /\ box.file \in Seq(Commits) /\ Len(box.file) \in Nat /\ mem.applied \in Nat
        /\ art.applied \in Nat /\ box.count \in Nat
    BY BooksTyped
  <2>2. CASE box.flushed
    <3>1. Kept.applied \in Nat /\ Kept.applied <= mem.applied /\ Kept.commits = box.file
      BY <1>0, <1>1, <1>5, <2>1, <2>2 DEF OnHost
    <3>2. mem.applied <= Len(box.file) /\ Range(Upto(box.file, mem.applied)) \subseteq Range(host)
      BY <1>0, <1>5, <2>2 DEF OnHost, On
    <3>3. Range(Upto(box.file, Kept.applied)) \subseteq Range(Upto(box.file, mem.applied))
      BY <2>1, <3>1, <3>2, UptoGrows
    <3>4. Kept.applied <= Len(box.file) BY <2>1, <3>1, <3>2
    <3> QED BY <3>1, <3>2, <3>3, <3>4 DEF On
  <2>3. CASE ~box.flushed
    <3>1. Kept.applied = art.applied /\ Kept.commits = art.commits
      BY <1>0, <1>1, <1>5, <2>3 DEF OnHost
    <3> QED BY <1>0, <1>5, <3>1 DEF OnHost
  <2> QED BY <2>2, <2>3
<1> QED BY <1>2, <1>3, <1>4, <1>5

LEMMA EarlyBooks == ASSUME Typed, Inv, Books, Interrupt \/ Crash \/ ForceStop PROVE Books'
<1>1. CASE Interrupt
  <2>1. Exit /\ pc # "off" /\ box' = NoBox /\ UNCHANGED <<host, made, proof>>
    BY <1>1 DEF Interrupt
  <2>2. st' # "paused" BY <1>1, <2>1 DEF Interrupt, Inv, RunsAreRunning
  <2>3. CASE art' = art /\ harm' = harm
    <3>1. StoredWell' BY <2>1, <2>3, BooksStored DEF StoredWell, MadeBy, Covers, On
    <3> QED BY <2>1, <2>2, <2>3, <3>1, ExitBooks
  <2>4. CASE /\ art' = Kept
             /\ harm' = harm
                   \union (IF box.flushed \/ art.commits = <<>> THEN {} ELSE {"commits"})
                   \union (IF art.budget = NoBudget THEN {} ELSE {"budget"})
    <3>1. harm \subseteq harm' /\ ("commits" \notin harm' => box.flushed \/ art.commits = <<>>)
      BY <2>4
    <3>2. /\ MadeBy(Kept.commits, made)
          /\ "doubled" \notin harm' => IsInjective(Kept.commits)
          /\ "commits" \notin harm' => Covers(proof, Kept.cursor, Kept.commits)
          /\ harm' = {} => On(host, Kept.applied, Kept.commits)
      BY <2>1, <3>1, KeptBooks
    <3>3. StoredWell' BY <2>1, <2>4, <3>2 DEF StoredWell, MadeBy, Covers, On
    <3> QED BY <2>1, <2>2, <3>1, <3>3, ExitBooks
  <2> QED BY <1>1, <2>3, <2>4 DEF Interrupt
<1>2. CASE Crash
  <2>1. Exit /\ pc # "off" /\ box' = NoBox /\ UNCHANGED <<art, st, host, made, proof, harm>>
    BY <1>2 DEF Crash, World
  <2>2. st' # "paused" BY <2>1 DEF Inv, RunsAreRunning
  <2>3. StoredWell' BY <2>1, BooksStored DEF StoredWell, MadeBy, Covers, On
  <2> QED BY <2>1, <2>2, <2>3, ExitBooks
<1>3. CASE ForceStop
  BY <1>3 DEF ForceStop, Books, HistoryIsLedger, OnceEach, MadeBy, Whole, Covers, TestedIsHead, OnHost, On,
              Base, WithoutRound, Upto, Clean, Open, Taken
<1> QED BY <1>1, <1>2, <1>3

-----------------------------------------------------------------------------
(* The next process.                                                       *)

\* A sandbox that a process may start in: its history is what is stored.
Fits(sandbox) ==
    /\ Range(sandbox.head) = Range(art.commits) /\ IsInjective(sandbox.head)
    /\ MadeBy(sandbox.head, made) /\ MadeBy(sandbox.file, made)
    /\ "doubled" \notin harm => IsInjective(sandbox.file)
    /\ "commits" \notin harm /\ sandbox.flushed => Covers(proof, art.cursor, sandbox.file)
    /\ harm = {} => /\ sandbox.count <= art.applied
                    /\ sandbox.flushed => On(host, art.applied, sandbox.file)
                    /\ ~sandbox.flushed => sandbox.count = 0

LEMMA BeginBooks ==
    ASSUME Typed, Books, NEW sandbox \in Box, Begin(sandbox), Fits(sandbox)
    PROVE  Books'
<1> USE DEF Clean, Open, Taken
<1>0. HistoryIsLedger /\ OnceEach /\ Whole /\ TestedIsHead /\ OnHost BY DEF Books
<1>1. art \in Progress /\ sandbox.head \in Seq(Commits) /\ Len(sandbox.head) \in Nat
      /\ art.applied \in Nat
  BY PartsTyped, BooksTyped, LenProperties DEF Box
<1>2. /\ art'.commits = art.commits /\ art'.applied = art.applied /\ art'.cursor = art.cursor
  BY <1>1 DEF Begin, Progress
<1>3. /\ mem'.commits = art.commits /\ mem'.applied = art.applied /\ mem'.cursor = art.cursor
  BY <1>1, BasedFields DEF Begin
<1>4. /\ box' = sandbox /\ pc' = "presync" /\ st' = "running"
      /\ ses'.pre = Len(sandbox.head) /\ ses'.since = Len(sandbox.head)
      /\ ses'.term = "none" /\ ~ses'.moving
      /\ UNCHANGED <<mode, host, made, proof, harm>>
  BY DEF Begin, Goto, NoSession
<1>5. Base' = sandbox.head
  <2>1. Base' = Upto(sandbox.head, Len(sandbox.head)) BY <1>4 DEF Base
  <2> QED BY <1>1, <2>1, UptoAll
<1>6. HistoryIsLedger' BY <1>1, <1>3, <1>4 DEF HistoryIsLedger, Fits
<1>7. OnceEach' BY <1>0, <1>2, <1>3, <1>4 DEF OnceEach, MadeBy, Fits
<1>8. Whole' BY <1>0, <1>2, <1>3, <1>4, <1>5 DEF Whole, Covers, Fits
<1>9. TestedIsHead' BY <1>4 DEF TestedIsHead
<1>10. OnHost' BY <1>0, <1>1, <1>2, <1>3, <1>4 DEF OnHost, On, Fits
<1> QED BY <1>6, <1>7, <1>8, <1>9, <1>10 DEF Books

\* A new sandbox in which the stored commits have been replayed fits, and so does
\* the one of a paused run.
LEMMA NewBoxFits ==
    ASSUME Typed, Books, Replays(art.commits)
    PROVE  Fits(NewBox(art.commits)) /\ NewBox(art.commits) \in Box
<1>1. art.commits \in Seq(Commits) /\ art.applied \in Nat BY BooksTyped
<1>2. NewBox(art.commits) \in Box BY <1>1, NewBoxTyped
<1>3. /\ NewBox(art.commits).head = art.commits /\ NewBox(art.commits).file = <<>>
      /\ ~NewBox(art.commits).flushed /\ NewBox(art.commits).count = 0
  BY DEF NewBox
<1>4. MadeBy(art.commits, made) BY DEF Books, OnceEach
<1>5. MadeBy(<<>>, made) /\ IsInjective(<<>>) BY RangeEmpty, OnceEmpty DEF MadeBy
<1> QED BY <1>1, <1>2, <1>3, <1>4, <1>5 DEF Fits, Replays

LEMMA PausedBoxFits ==
    ASSUME Typed, Books, pc = "off", st = "paused", NEW sandbox,
           sandbox.head = box.head, sandbox.file = box.file,
           sandbox.flushed = box.flushed, sandbox.count = box.count
    PROVE  Fits(sandbox)
BY DEF Fits, Books, HistoryIsLedger, OnceEach, Whole, OnHost

LEMMA NextProcessBooks ==
    ASSUME Typed, Inv, Books, Start \/ StartThrows \/ Resume \/ ResumeRebuilds
    PROVE  Books'
<1>1. CASE Start BY <1>1, NewBoxFits, BeginBooks DEF Start
<1>2. CASE StartThrows
  BY <1>2 DEF StartThrows, Books, HistoryIsLedger, OnceEach, MadeBy, Whole, Covers, TestedIsHead, OnHost, On,
              Base, WithoutRound, Upto, Clean, Open, Taken
<1>3. CASE Resume
  <2>1. pc = "off" /\ st = "paused" /\ Begin(box) BY <1>3 DEF Resume
  <2>2. Fits(box) /\ box \in Box BY <2>1, PausedBoxFits, PartsTyped
  <2> QED BY <2>1, <2>2, BeginBooks
<1>4. CASE ResumeRebuilds
  <2>1. pc = "off" /\ st = "paused" /\ Replays(art.commits) BY <1>4 DEF ResumeRebuilds
  <2> DEFINE bare == [box EXCEPT !.scripts = {}]
  <2>2. bare \in Box /\ bare.head = box.head /\ bare.file = box.file
        /\ bare.flushed = box.flushed /\ bare.count = box.count
    BY PartsTyped, ScriptsSet DEF Box
  <2>3. Begin(bare) \/ Begin(NewBox(art.commits))
    BY <1>4 DEF ResumeRebuilds
  <2> HIDE DEF bare
  <2>4. Fits(bare) BY <2>1, <2>2, PausedBoxFits
  <2> QED BY <2>1, <2>2, <2>3, <2>4, NewBoxFits, BeginBooks
<1> QED BY <1>1, <1>2, <1>3, <1>4

-----------------------------------------------------------------------------
(* Every step keeps the books.                                             *)

LEMMA InitBooks == Init => Books
<1> SUFFICES ASSUME Init PROVE Books OBVIOUS
<1> USE DEF Clean, Open, Taken
<1>1. Fresh \in Progress BY FreshTyped
<1>2. /\ pc = "presync" /\ st = "running" /\ made = 0 /\ harm = {} /\ ses = NoSession
      /\ art.commits = <<>> /\ art.applied = 0 /\ art.cursor = 1
      /\ mem.commits = <<>> /\ mem.applied = 0 /\ mem.cursor = 1
      /\ box.head = <<>> /\ box.file = <<>> /\ ~box.flushed /\ box.count = 0
  BY <1>1, BasedFields DEF Init, Fresh, NewBox
<1>3. ses.pre = 0 /\ ses.since = 0 /\ ses.term = "none" /\ ~ses.moving BY <1>2 DEF NoSession
<1>4. Len(<<>>) = 0 /\ Upto(<<>>, 0) = <<>> BY SubSeqEmpty, EmptySeq DEF Upto
<1>5. HistoryIsLedger BY <1>2, <1>3, <1>4 DEF HistoryIsLedger
<1>6. OnceEach BY <1>2, OnceEmpty, RangeEmpty DEF OnceEach, MadeBy
<1>7. Whole BY <1>2 DEF Whole, Covers
<1>8. TestedIsHead BY <1>2 DEF TestedIsHead
<1>9. OnHost BY <1>2, <1>4, RangeEmpty DEF OnHost, On
<1> QED BY <1>5, <1>6, <1>7, <1>8, <1>9 DEF Books

LEMMA DriverBooks == ASSUME Typed, Inv, Books, Driver PROVE Books'
<1>0. HistoryIsLedger /\ Ahead BY DEF Books, Inv
<1>1. Quiet => Books' BY <1>0, QuietKeeps
<1>2. CASE PreRoundSync \/ CompleteRestart \/ SetupThrows \/ Boot
  BY <1>0, <1>1, <1>2, BeforeQuiet
<1>3. CASE AgentReports \/ SessionDrains BY <1>0, <1>1, <1>3, SessionQuiet
<1>4. CASE Sync \/ Violates \/ NoChanges BY <1>0, <1>1, <1>4, JudgeQuiet
<1>5. CASE Verify \/ TestsFail \/ TestsThrow \/ Budget BY <1>0, <1>1, <1>5, TestsQuiet
<1>6. CASE DrainsFinished \/ DrainsOver \/ ApplyToHost
  <2>1. box' = box \/ (box' = NoBox /\ (DrainsFinished \/ ApplyToHost))
    BY <1>6 DEF DrainsFinished, DrainsOver, ApplyToHost
  <2> QED BY <1>0, <1>1, <1>6, <2>1, DrainQuiet, RemovedBooks
<1>7. CASE ResetRound \/ AppendRound \/ Bypass \/ TestsPass
  BY <1>7, ResetRoundBooks, AppendRoundBooks, PassedBooks
<1>8. CASE DiscardRound \/ GiveUp \/ Pass BY <1>8, DiscardRoundBooks, GiveUpBooks, PassBooks
<1>9. CASE Advance \/ Finish BY <1>9, AdvanceBooks, FinishBooks
<1>10. CASE DrainsAborted \/ Close BY <1>10, DrainsAbortedBooks, CloseBooks
<1> QED BY <1>2, <1>3, <1>4, <1>5, <1>6, <1>7, <1>8, <1>9, <1>10 DEF Driver

LEMMA StepBooks == Typed /\ Inv /\ Books /\ [Next]_vars => Books'
<1> SUFFICES ASSUME Typed, Inv, Books, [Next]_vars PROVE Books' OBVIOUS
<1>1. CASE UNCHANGED vars
  <2>1. HistoryIsLedger'
    BY <1>1 DEF vars, Books, HistoryIsLedger, Base, WithoutRound, Upto, Clean, Open, Taken
  <2>2. OnceEach' BY <1>1 DEF vars, Books, OnceEach, MadeBy
  <2>3. Whole' BY <1>1 DEF vars, Books, Whole, Covers, Base, Upto
  <2>4. TestedIsHead' BY <1>1 DEF vars, Books, TestedIsHead
  <2>5. OnHost' BY <1>1 DEF vars, Books, OnHost, On, WithoutRound, Upto, Taken
  <2> QED BY <2>1, <2>2, <2>3, <2>4, <2>5 DEF Books
<1>2. CASE Driver BY <1>2, DriverBooks
<1>3. CASE AgentCommits BY <1>3, AgentCommitsBooks
<1>4. CASE Abort
  <2>1. HistoryIsLedger /\ Ahead BY DEF Books, Inv
  <2> QED BY <1>4, <2>1, SessionQuiet, QuietKeeps
<1>5. CASE Interrupt \/ Crash \/ ForceStop BY <1>5, EarlyBooks
<1>6. CASE Start \/ StartThrows \/ Resume \/ ResumeRebuilds BY <1>6, NextProcessBooks
<1> QED BY <1>1, <1>2, <1>3, <1>4, <1>5, <1>6 DEF Next

LEMMA AlwaysBooks == Spec => [](Typed /\ Inv /\ Books)
<1>1. Init => Typed /\ Inv /\ Books BY InitTyped, InitInv, InitBooks
<1>2. (Typed /\ Inv /\ Books) /\ [Next]_vars => (Typed /\ Inv /\ Books)'
  BY StepTyped, StepInv, StepBooks
<1> QED BY <1>1, <1>2, PTL DEF Spec

-----------------------------------------------------------------------------
(* What follows for the commits of a run.                                  *)

\* saveRunOnError, persistArtifact, savePausedArtifact: whatever has ended a
\* process and whichever of its saves were lost, the commits of every subtask
\* before the stored cursor are stored, unless a Ctrl+C came before
\* run-commits.json was there.
THEOREM NothingEarnedIsLost == Spec => []StoredProgressIsWhole
<1>1. Typed /\ Inv /\ Books => StoredProgressIsWhole
  BY DEF Books, Whole, Covers, StoredProgressIsWhole, Earned
<1> QED BY <1>1, AlwaysBooks, PTL

\* applyPatchToHost: the ledger that is applied to the host is what the tests
\* last passed on, whatever rounds were discarded and whatever processes paused,
\* stopped or died before.
THEOREM HostGetsWhatWasTested == Spec => []DeliversWhatWasTested
<1>1. Typed /\ Inv /\ Books => DeliversWhatWasTested
  BY DEF Books, TestedIsHead, DeliversWhatWasTested
<1> QED BY <1>1, AlwaysBooks, PTL

\* The ledger in memory and in the artifact has no commit twice, through every
\* history of rounds, restarts and resumes, until a session is aborted after one
\* of its rounds had been taken over.
THEOREM LedgerReplays == Spec => []CommitsOnce
<1>1. Typed /\ Inv /\ Books => CommitsOnce BY DEF Books, OnceEach, CommitsOnce, Replays
<1> QED BY <1>1, AlwaysBooks, PTL

\* applyIncrementalHostExtract: the commits that the artifact counts as applied
\* to the host are on it, also after a resume and after a Ctrl+C with the file in
\* the sandbox.
THEOREM AppliedCommitsAreThere == Spec => []AppliedIsOnHost
<1>1. Typed /\ Inv /\ Books => AppliedIsOnHost BY DEF Books, OnHost, On, AppliedIsOnHost
<1> QED BY <1>1, AlwaysBooks, PTL

LEMMA WorkStartsFromLedger ==
    ASSUME Typed, Inv, Books, [Next]_vars, pc # "work", pc' = "work"
    PROVE  Range(mem'.commits) = Range(box'.head)
<1>0. HistoryIsLedger BY DEF Books
<1>1. Boot \/ Budget \/ Advance
  BY DEF Next, Driver, vars, PreRoundSync, CompleteRestart, SetupThrows, Boot, AgentReports, SessionDrains,
         Sync, Violates, ResetRound, NoChanges, AppendRound, Verify, Bypass, TestsPass, TestsFail,
         TestsThrow, DiscardRound, GiveUp, Pass, Advance, Finish, Budget, DrainsFinished,
         DrainsAborted, DrainsOver, ApplyToHost, Close, AgentCommits, Abort, Interrupt,
         Crash, ForceStop, Start, StartThrows, Resume, ResumeRebuilds, Begin, Throw, Goto, Exit
<1>2. CASE Boot \/ Budget
  <2>1. pc \in Clean /\ mem' = mem /\ box' = box
    BY <1>2 DEF Boot, Budget, Remember, Clean
  <2> QED BY <1>0, <2>1 DEF HistoryIsLedger
<1>3. CASE Advance
  <2>1. pc = "advance" /\ mem'.commits = mem.commits /\ box'.head = box.head
    BY <1>3, AdvanceFacts
  <2> QED BY <1>0, <2>1 DEF HistoryIsLedger, Taken
<1> QED BY <1>1, <1>2, <1>3

\* tryAdvance, the `git reset` after a failed round, and the start of a container:
\* the agent is never set to work on a history that differs from the ledger.
THEOREM AgentSeesTheLedger == Spec => AgentStartsFromLedger
<1>1. (Typed /\ Inv /\ Books) /\ [Next]_vars =>
          [pc # "work" /\ pc' = "work" => Range(mem'.commits) = Range(box'.head)]_vars
  BY WorkStartsFromLedger
<1> QED BY <1>1, AlwaysBooks, PTL DEF Spec, AgentStartsFromLedger

-----------------------------------------------------------------------------
(* The inductive invariant of attempts and budgets.                        *)

\* An attempt that has been counted and not yet summarised.
Reported == {"sync", "judge", "verify", "testing", "passed", "complete"}

Room(m, p) == IsFiniteSet(Attempts(m, p)) /\ Cardinality(Attempts(m, p)) <= m.budget[p]
AttemptsFit ==
    "budget" \notin harm =>
        \A p \in Phases :
            /\ Room(art, p) /\ Room(mem, p)
            /\ pc \in Reported /\ PhaseOf[mem.cursor] = p =>
                  Cardinality(Attempts(mem, p)) < mem.budget[p]

\* The subtasks of a phase before a place in the list.
Before(p, c) == {i \in Subtasks : i < c /\ PhaseOf[i] = p}
Earlier(p, c) == Cardinality(Before(p, c))

\* Before the agent reports there is room for its attempt: a phase that is spent
\* goes on only to its next subtask, or in the next process.
Unspent == \/ pc \in {"presync", "recover", "boot", "refresh", "work", "off"}
           \/ pc = "drained" /\ ses.moving
CapsHold ==
    /\ procs >= 1
    /\ \A p \in Phases : Cap[p] # 0 =>
          /\ art.budget[p] <= Cap[p] + Earlier(p, art.cursor + 1) + procs - 2
          /\ mem.budget[p] <= Cap[p] + Earlier(p, mem.cursor + 1) + procs - 2
          /\ Unspent => mem.budget[p] <= Cap[p] + Earlier(p, mem.cursor) + procs - 2

LEMMA EarlierCounts ==
    ASSUME NEW p \in Phases, NEW c \in Subtasks
    PROVE  /\ Earlier(p, c) \in Nat /\ Earlier(p, c + 1) \in Nat
           /\ Earlier(p, c + 1) = IF PhaseOf[c] = p THEN Earlier(p, c) + 1 ELSE Earlier(p, c)
           /\ Earlier(p, c + 1) <= Cardinality({i \in Subtasks : PhaseOf[i] = p})
           /\ Cardinality({i \in Subtasks : PhaseOf[i] = p}) \in Nat
<1> DEFINE all == {i \in Subtasks : PhaseOf[i] = p}
<1>1. N \in Nat /\ c \in Nat BY ConstantsTyped DEF Subtasks
<1>2. IsFiniteSet(Subtasks) BY <1>1, FS_Interval DEF Subtasks
<1>3. IsFiniteSet(all) /\ Cardinality(all) \in Nat BY <1>2, FS_Subset, FS_CardinalityType
<1>4. Before(p, c) \subseteq all /\ Before(p, c + 1) \subseteq all BY DEF Before
<1>5. /\ IsFiniteSet(Before(p, c)) /\ IsFiniteSet(Before(p, c + 1))
      /\ Cardinality(Before(p, c + 1)) <= Cardinality(all)
  BY <1>3, <1>4, FS_Subset
<1>6. Earlier(p, c) \in Nat /\ Earlier(p, c + 1) \in Nat
  BY <1>5, FS_CardinalityType DEF Earlier
<1>7. \A i \in Subtasks : i < c + 1 <=> i < c \/ i = c BY <1>1 DEF Subtasks
<1>8. CASE PhaseOf[c] = p
  <2>1. Before(p, c + 1) = Before(p, c) \union {c} BY <1>7, <1>8 DEF Before
  <2>2. c \notin Before(p, c) BY <1>1 DEF Before
  <2>3. Cardinality(Before(p, c) \union {c}) = Cardinality(Before(p, c)) + 1
    BY <1>5, <2>2, FS_AddElement
  <2> QED BY <1>3, <1>5, <1>6, <1>8, <2>1, <2>3 DEF Earlier
<1>9. CASE PhaseOf[c] # p
  <2>1. Before(p, c + 1) = Before(p, c) BY <1>7, <1>9 DEF Before
  <2> QED BY <1>3, <1>5, <1>6, <1>9, <2>1 DEF Earlier
<1> QED BY <1>8, <1>9

LEMMA EarlierNat ==
    ASSUME NEW p \in Phases, NEW c
    PROVE  Earlier(p, c) \in Nat
<1>1. IsFiniteSet(Subtasks) BY ConstantsTyped, FS_Interval DEF Subtasks
<1>2. Before(p, c) \subseteq Subtasks BY DEF Before
<1> QED BY <1>1, <1>2, FS_Subset, FS_CardinalityType DEF Earlier

LEMMA InAttempts ==
    ASSUME NEW m, NEW p
    PROVE  /\ \A a \in Attempts(m, p) : \E i \in Subtasks : \E k \in 1 .. m.tries[i] :
                  PhaseOf[i] = p /\ a = <<i, k>>
           /\ \A i \in Subtasks : \A k \in 1 .. m.tries[i] :
                  PhaseOf[i] = p => <<i, k>> \in Attempts(m, p)
BY DEF Attempts

\* A summary adds one attempt, to the phase of the subtask.
LEMMA TriedAttempts ==
    ASSUME NEW m \in Progress, NEW p \in Phases, IsFiniteSet(Attempts(m, p))
    PROVE  /\ IsFiniteSet(Attempts(Tried(m), p))
           /\ Cardinality(Attempts(m, p)) \in Nat
           /\ Cardinality(Attempts(Tried(m), p)) =
                 IF PhaseOf[m.cursor] = p THEN Cardinality(Attempts(m, p)) + 1
                 ELSE Cardinality(Attempts(m, p))
<1> DEFINE n == Tried(m)
           c == m.cursor
           last == <<c, m.tries[c] + 1>>
<1>1. c \in Subtasks /\ m.tries \in [Subtasks -> Nat] BY DEF Progress
<1>2. n.tries = [m.tries EXCEPT ![c] = m.tries[c] + 1] BY DEF Tried, Progress
<1>3. \A i \in Subtasks : n.tries[i] = IF i = c THEN m.tries[c] + 1 ELSE m.tries[i]
  BY <1>1, <1>2
<1>4. Cardinality(Attempts(m, p)) \in Nat BY FS_CardinalityType
<1> HIDE DEF n, c
<1>5. CASE PhaseOf[c] = p
  <2>1. Attempts(n, p) \subseteq Attempts(m, p) \union {last}
    <3>1. SUFFICES ASSUME NEW a \in Attempts(n, p) PROVE a \in Attempts(m, p) \union {last} OBVIOUS
    <3>2. PICK i \in Subtasks, k \in Nat : k \in 1 .. n.tries[i] /\ PhaseOf[i] = p /\ a = <<i, k>>
      BY <3>1, InAttempts
    <3>3. m.tries[i] \in Nat BY <1>1
    <3>4. k \in 1 .. m.tries[i] \/ (i = c /\ k = m.tries[c] + 1) BY <1>3, <3>2, <3>3
    <3> QED BY <3>2, <3>4, InAttempts
  <2>2. Attempts(m, p) \union {last} \subseteq Attempts(n, p)
    <3>1. ASSUME NEW a \in Attempts(m, p) PROVE a \in Attempts(n, p)
      <4>1. PICK i \in Subtasks, k \in Nat : k \in 1 .. m.tries[i] /\ PhaseOf[i] = p /\ a = <<i, k>>
        BY <3>1, InAttempts
      <4>2. m.tries[i] \in Nat BY <1>1
      <4>3. k \in 1 .. n.tries[i] BY <1>3, <4>1, <4>2
      <4> QED BY <4>1, <4>3, InAttempts
    <3>2. last \in Attempts(n, p)
      <4>1. m.tries[c] \in Nat /\ n.tries[c] = m.tries[c] + 1 BY <1>1, <1>3
      <4>2. m.tries[c] + 1 \in 1 .. n.tries[c] BY <4>1
      <4> QED BY <1>1, <1>5, <4>2, InAttempts
    <3> QED BY <3>1, <3>2
  <2>3. last \notin Attempts(m, p)
    <3>1. SUFFICES ASSUME last \in Attempts(m, p) PROVE FALSE OBVIOUS
    <3>2. PICK i \in Subtasks, k \in Nat : k \in 1 .. m.tries[i] /\ last = <<i, k>> BY <3>1, InAttempts
    <3>3. i = c /\ k = m.tries[c] + 1 BY <3>2
    <3>4. m.tries[c] \in Nat /\ k <= m.tries[c] BY <1>1, <3>2, <3>3
    <3> QED BY <3>3, <3>4
  <2>4. Attempts(n, p) = Attempts(m, p) \union {last} BY <2>1, <2>2
  <2> HIDE DEF last
  <2> QED BY <1>4, <1>5, <2>3, <2>4, FS_AddElement DEF n, c
<1>6. CASE PhaseOf[c] # p
  <2>1. \A i \in Subtasks : PhaseOf[i] = p => n.tries[i] = m.tries[i] BY <1>3, <1>6
  <2>2. Attempts(n, p) = Attempts(m, p) BY <2>1 DEF Attempts
  <2> QED BY <1>4, <1>6, <2>2 DEF n, c
<1> QED BY <1>5, <1>6

LEMMA NoAttempts ==
    ASSUME NEW m, NEW p, m.tries = NoTries
    PROVE  IsFiniteSet(Attempts(m, p)) /\ Cardinality(Attempts(m, p)) = 0
<1>1. \A i \in Subtasks : m.tries[i] = 0 BY DEF NoTries
<1>2. Attempts(m, p) = {}
  <2>1. SUFFICES ASSUME NEW a \in Attempts(m, p) PROVE FALSE OBVIOUS
  <2>2. PICK i \in Subtasks, k \in Nat : k \in 1 .. m.tries[i] /\ a = <<i, k>> BY <2>1, InAttempts
  <2>3. k \in 1 .. 0 BY <1>1, <2>2
  <2> QED BY <2>3
<1> QED BY <1>2, FS_EmptySet

\* The attempts are those of the summaries, whatever else is known.
LEMMA SameAttempts ==
    ASSUME NEW m, NEW n, NEW p, m.tries = n.tries, m.budget[p] = n.budget[p]
    PROVE  Attempts(m, p) = Attempts(n, p) /\ (Room(m, p) <=> Room(n, p))
BY DEF Attempts, Room

LEMMA BudgetTyped ==
    ASSUME Typed
    PROVE  /\ mem.cursor \in Subtasks /\ art.cursor \in Subtasks
           /\ mem.budget \in [Phases -> Nat] /\ art.budget \in [Phases -> Nat]
           /\ procs \in Nat /\ Cap \in [Phases -> Nat]
BY PartsTyped, LoopAssumption DEF Progress, Typed, TypeOK

\* What the accounts are kept in.
Account(m) == <<m.tries, m.budget, m.cursor>>

SameAccounts ==
    /\ Account(mem') = Account(mem)
    /\ Account(art') = Account(art) \/ Account(art') = Account(mem)
    /\ procs' \in {procs, procs + 1} /\ harm \subseteq harm'
    /\ pc' \in Reported => pc \in Reported
    /\ Unspent' => \/ Unspent
                   \/ PhaseOf[mem.cursor] # NoPhase => ~PhaseSpent(mem)

Accounts == AttemptsFit /\ CapsHold

LEMMA SameKeepsAccounts == ASSUME Typed, Accounts, SameAccounts PROVE Accounts'
<1>0. AttemptsFit /\ CapsHold BY DEF Accounts
<1>1. mem'.tries = mem.tries /\ mem'.budget = mem.budget /\ mem'.cursor = mem.cursor
  BY DEF SameAccounts, Account
<1>2. \/ art'.tries = art.tries /\ art'.budget = art.budget /\ art'.cursor = art.cursor
      \/ art'.tries = mem.tries /\ art'.budget = mem.budget /\ art'.cursor = mem.cursor
  BY DEF SameAccounts, Account
<1>3. /\ procs' \in {procs, procs + 1} /\ harm \subseteq harm'
      /\ pc' \in Reported => pc \in Reported
  BY DEF SameAccounts
<1>4. AttemptsFit'
  <2>1. SUFFICES ASSUME "budget" \notin harm', NEW p \in Phases
                 PROVE  /\ Room(art', p) /\ Room(mem', p)
                        /\ pc' \in Reported /\ PhaseOf[mem'.cursor] = p =>
                              Cardinality(Attempts(mem', p)) < mem'.budget[p]
    BY DEF AttemptsFit, Room
  <2>2. /\ Room(art, p) /\ Room(mem, p)
        /\ pc \in Reported /\ PhaseOf[mem.cursor] = p =>
              Cardinality(Attempts(mem, p)) < mem.budget[p]
    BY <1>0, <1>3, <2>1 DEF AttemptsFit
  <2>3. Attempts(mem', p) = Attempts(mem, p) /\ Room(mem', p) BY <1>1, <2>2, SameAttempts
  <2>4. Room(art', p) BY <1>2, <2>2, SameAttempts
  <2> QED BY <1>1, <1>3, <2>2, <2>3, <2>4
<1>5. CapsHold'
  <2>0. procs \in Nat /\ procs >= 1 /\ procs' >= procs BY <1>0, <1>3, BudgetTyped DEF CapsHold
  <2>1. procs' >= 1 BY <1>3, <2>0
  <2>2. SUFFICES ASSUME NEW p \in Phases, Cap[p] # 0
                 PROVE  /\ art'.budget[p] <= Cap[p] + Earlier(p, art'.cursor + 1) + procs' - 2
                        /\ mem'.budget[p] <= Cap[p] + Earlier(p, mem'.cursor + 1) + procs' - 2
                        /\ Unspent' => mem'.budget[p] <= Cap[p] + Earlier(p, mem'.cursor) + procs' - 2
    BY <2>1 DEF CapsHold, Earlier, Before
  <2>3. /\ art.budget[p] <= Cap[p] + Earlier(p, art.cursor + 1) + procs - 2
        /\ mem.budget[p] <= Cap[p] + Earlier(p, mem.cursor + 1) + procs - 2
        /\ Unspent => mem.budget[p] <= Cap[p] + Earlier(p, mem.cursor) + procs - 2
    BY <1>0, <2>2 DEF CapsHold
  <2>4. ASSUME Unspent', ~Unspent
        PROVE  mem.budget[p] <= Cap[p] + Earlier(p, mem.cursor) + procs - 2
    <3>1. /\ mem.budget[p] \in Nat /\ Cap[p] \in Nat /\ procs \in Nat /\ procs >= 1
          /\ mem.cursor \in Subtasks
      BY <1>0, BudgetTyped DEF CapsHold
    <3>2. /\ Earlier(p, mem.cursor) \in Nat
          /\ PhaseOf[mem.cursor] # p => Earlier(p, mem.cursor + 1) = Earlier(p, mem.cursor)
      BY <3>1, EarlierCounts
    <3>3. CASE PhaseOf[mem.cursor] = p
      <4>1. p # NoPhase BY ConstantsTyped
      <4>2. ~PhaseSpent(mem) BY <2>4, <3>3, <4>1 DEF SameAccounts
      <4>3. ~(mem.budget[p] >= Cap[p]) BY <2>2, <3>3, <4>1, <4>2 DEF PhaseSpent
      <4> QED BY <3>1, <3>2, <4>3
    <3>4. CASE PhaseOf[mem.cursor] # p BY <2>3, <3>2, <3>4
    <3> QED BY <3>3, <3>4
  <2>5. /\ mem.budget[p] \in Nat /\ art.budget[p] \in Nat /\ Cap[p] \in Nat
        /\ Earlier(p, mem.cursor) \in Nat /\ Earlier(p, mem.cursor + 1) \in Nat
        /\ Earlier(p, art.cursor + 1) \in Nat
    BY BudgetTyped, EarlierNat
  <2>6. Unspent' => mem.budget[p] <= Cap[p] + Earlier(p, mem.cursor) + procs - 2
    BY <2>3, <2>4
  <2>7. procs' \in Nat BY <1>3, <2>0
  <2>8. mem'.budget[p] <= Cap[p] + Earlier(p, mem'.cursor + 1) + procs' - 2
    BY <1>1, <2>0, <2>3, <2>5, <2>7
  <2>9. art'.budget[p] <= Cap[p] + Earlier(p, art'.cursor + 1) + procs' - 2
    <3>1. CASE art'.budget = art.budget /\ art'.cursor = art.cursor
      BY <2>0, <2>3, <2>5, <2>7, <3>1
    <3>2. CASE art'.budget = mem.budget /\ art'.cursor = mem.cursor
      BY <2>0, <2>3, <2>5, <2>7, <3>2
    <3> QED BY <1>2, <3>1, <3>2
  <2>10. ASSUME Unspent' PROVE mem'.budget[p] <= Cap[p] + Earlier(p, mem'.cursor) + procs' - 2
    BY <1>1, <2>0, <2>5, <2>6, <2>7, <2>10
  <2> QED BY <2>8, <2>9, <2>10
<1> QED BY <1>4, <1>5 DEF Accounts

LEMMA AccountSet ==
    ASSUME NEW m \in Progress
    PROVE  /\ \A c : Account([m EXCEPT !.commits = c]) = Account(m)
           /\ \A n : Account([m EXCEPT !.applied = n]) = Account(m)
           /\ \A i : Account([m EXCEPT !.transition = i]) = Account(m)
           /\ Account(Based(m)) = Account(m)
           /\ Account(Tried(m)) = <<Tried(m).tries, m.budget, m.cursor>>
           /\ Account(Counted(m)) = <<m.tries, Counted(m).budget, m.cursor>>
BY DEF Progress, Account, Based, Tried, Counted

LEMMA SavedAccount ==
    ASSUME NEW m, art' \in Saved(m)
    PROVE  Account(art') \in {Account(art), Account(m)}
<1>1. art' = art \/ art' = m BY DEF Saved
<1> QED BY <1>1 DEF Account

LEMMA BeforeSame ==
    ASSUME Typed, Inv, PreRoundSync \/ CompleteRestart \/ SetupThrows \/ Boot
    PROVE  SameAccounts
<1> USE DEF SameAccounts, World, Goto, Reported, Unspent
<1>0. mem \in Progress /\ procs \in Nat BY PartsTyped, BudgetTyped
<1>1. CASE PreRoundSync BY <1>1 DEF PreRoundSync, Account
<1>2. CASE CompleteRestart
  <2> DEFINE m == [mem EXCEPT !.transition = 0]
  <2>1. mem' = m /\ art' \in Saved(m) BY <1>2 DEF CompleteRestart, Remember
  <2>2. Account(m) = Account(mem) BY <1>0, AccountSet
  <2>3. Account(art') \in {Account(art), Account(m)} BY <2>1, SavedAccount
  <2>4. Account(mem') = Account(mem) BY <2>1, <2>2
  <2> HIDE DEF m
  <2> QED BY <1>2, <2>2, <2>3, <2>4 DEF CompleteRestart
<1>3. CASE SetupThrows BY <1>3 DEF SetupThrows, Throw, Account
<1>4. CASE Boot
  <2>1. art' \in Saved(mem) /\ mem' = mem BY <1>4 DEF Boot, Remember
  <2>2. Account(art') \in {Account(art), Account(mem)} BY <2>1, SavedAccount
  <2> QED BY <1>4, <2>1, <2>2 DEF Boot, Account
<1> QED BY <1>1, <1>2, <1>3, <1>4

LEMMA SessionSame ==
    ASSUME Typed, Inv, AgentCommits \/ Abort \/ SessionDrains
    PROVE  SameAccounts
<1> USE DEF SameAccounts, World, Goto, Reported, Unspent, Account
<1>1. CASE AgentCommits BY <1>1 DEF AgentCommits
<1>2. CASE Abort
  <2>1. ses'.moving = ses.moving BY <1>2, PartsTyped DEF Abort, Session
  <2> QED BY <1>2, <2>1 DEF Abort
<1>3. CASE SessionDrains BY <1>3 DEF SessionDrains
<1> QED BY <1>1, <1>2, <1>3

LEMMA RoundSame ==
    ASSUME Typed, Inv,
           Sync \/ ResetRound \/ AppendRound \/ Verify \/ Bypass \/ TestsPass \/ TestsThrow
           \/ DiscardRound \/ GiveUp \/ Finish \/ Budget
    PROVE  SameAccounts
<1>0. mem \in Progress /\ ses \in Session BY PartsTyped
<1>1. pc \in {"sync", "undo", "judge", "verify", "testing", "exhausted", "aborted",
              "advance", "budget"}
  BY DEF Sync, ResetRound, AppendRound, Verify, Bypass, TestsPass, TestsThrow, DiscardRound,
         GiveUp, Finish, Budget
<1>2. ~ses.moving BY <1>1 DEF Inv, MovingOnly
<1>3. ses'.moving = ses.moving
  BY <1>0 DEF Sync, ResetRound, AppendRound, Verify, Bypass, TestsPass, TestsThrow, DiscardRound,
              GiveUp, Finish, Budget, Session
<1>4. procs' = procs /\ harm' = harm
  BY DEF Sync, ResetRound, AppendRound, Verify, Bypass, TestsPass, TestsThrow, DiscardRound,
         GiveUp, Finish, Budget, World
<1>5. Account(mem') = Account(mem)
  <2>1. CASE AppendRound \/ DiscardRound \/ GiveUp
    <3>1. PICK c : mem' = [mem EXCEPT !.commits = c]
      BY <2>1 DEF AppendRound, DiscardRound, GiveUp
    <3> QED BY <1>0, <3>1, AccountSet
  <2>2. CASE Finish
    <3>1. PICK n : mem' = [mem EXCEPT !.applied = n] BY <2>2 DEF Finish
    <3> QED BY <1>0, <3>1, AccountSet
  <2>3. CASE Sync \/ ResetRound \/ Verify \/ Bypass \/ TestsPass \/ TestsThrow \/ Budget
    <3>1. mem' = mem BY <2>3 DEF Sync, ResetRound, Verify, Bypass, TestsPass, TestsThrow, Budget
    <3> QED BY <3>1 DEF Account
  <2> QED BY <2>1, <2>2, <2>3
<1>6. Account(art') = Account(art) \/ Account(art') = Account(mem)
  <2>1. art' \in {art, mem}
    BY DEF Sync, ResetRound, AppendRound, Verify, Bypass, TestsPass, TestsThrow, DiscardRound,
           GiveUp, Finish, Budget, Saved
  <2> QED BY <2>1 DEF Account
<1>7. pc' \in Reported => pc \in Reported
  BY DEF Sync, ResetRound, AppendRound, Verify, Bypass, TestsPass, TestsThrow, DiscardRound,
         GiveUp, Finish, Budget, Reported, Goto
<1>8. Unspent' => (PhaseOf[mem.cursor] # NoPhase => ~PhaseSpent(mem))
  <2>1. SUFFICES ASSUME Unspent' PROVE ~PhaseSpent(mem) OBVIOUS
  <2>2. Unspent' => pc' \notin {"sync", "judge", "verify", "testing", "passed", "complete", "budget",
                            "undo"}
    BY DEF Unspent
  <2>3. pc' # "drained" BY <1>2, <1>3, <2>1 DEF Unspent
  <2>4. Sync \/ ResetRound \/ AppendRound
           => pc' \in {"drained", "judge", "budget", "verify", "complete"}
    BY DEF Sync, ResetRound, AppendRound, Goto
  <2>5. Verify \/ Bypass \/ TestsPass \/ TestsThrow => pc' \in {"testing", "passed", "drained"}
    BY DEF Verify, Bypass, TestsPass, TestsThrow, Goto
  <2>6. DiscardRound \/ GiveUp \/ Finish => pc' \in {"undo", "drained"}
    BY DEF DiscardRound, GiveUp, Finish, Goto
  <2>7. Budget BY <2>1, <2>2, <2>3, <2>4, <2>5, <2>6
  <2> QED BY <2>3, <2>7 DEF Budget, Goto
<1> QED BY <1>4, <1>5, <1>6, <1>7, <1>8 DEF SameAccounts

LEMMA DrainSame ==
    ASSUME Typed, Inv,
           DrainsFinished \/ DrainsAborted \/ DrainsOver \/ ApplyToHost
           \/ ForceStop \/ StartThrows
    PROVE  SameAccounts
<1> USE DEF SameAccounts, World, Goto, Reported, Unspent
<1>0. mem \in Progress /\ ses \in Session /\ procs \in Nat BY PartsTyped, BudgetTyped
<1>1. CASE DrainsFinished BY <1>1 DEF DrainsFinished, Account
<1>2. CASE DrainsAborted
  <2>1. PICK c : mem' = [mem EXCEPT !.commits = c] BY <1>2 DEF DrainsAborted
  <2>2. Account(mem') = Account(mem) BY <1>0, <2>1, AccountSet
  <2>3. harm \subseteq harm' /\ art' = art /\ pc' = "closing" /\ procs' = procs
    BY <1>2 DEF DrainsAborted
  <2> QED BY <2>2, <2>3 DEF Account
<1>3. CASE DrainsOver
  <2>1. pc' = "refresh" => pc = "drained" /\ ses.moving BY <1>3 DEF DrainsOver
  <2>2. pc' \in {"refresh", "closing"} /\ UNCHANGED <<art, mem, World>> BY <1>3 DEF DrainsOver
  <2> QED BY <2>1, <2>2 DEF Account
<1>4. CASE ApplyToHost
  <2>1. pc' = "closing" /\ UNCHANGED <<art, mem, World>> BY <1>4 DEF ApplyToHost, Throw
  <2> QED BY <2>1 DEF Account
<1>5. CASE ForceStop \/ StartThrows
  <2>1. pc = "off" /\ pc' = "off" /\ UNCHANGED <<art, mem, harm>> /\ procs' \in {procs, procs + 1}
    BY <1>5 DEF ForceStop, StartThrows
  <2> QED BY <2>1 DEF Account
<1> QED BY <1>1, <1>2, <1>3, <1>4, <1>5

\* What is left to show of a step: the rooms of one phase, and its budgets.
RoomsHold(p) ==
    "budget" \notin harm =>
        /\ Room(art, p) /\ Room(mem, p)
        /\ pc \in Reported /\ PhaseOf[mem.cursor] = p =>
              Cardinality(Attempts(mem, p)) < mem.budget[p]

CapsOf(p) ==
    /\ art.budget[p] <= Cap[p] + Earlier(p, art.cursor + 1) + procs - 2
    /\ mem.budget[p] <= Cap[p] + Earlier(p, mem.cursor + 1) + procs - 2
    /\ Unspent => mem.budget[p] <= Cap[p] + Earlier(p, mem.cursor) + procs - 2

LEMMA AccountsOf ==
    /\ Accounts <=> /\ procs >= 1
                    /\ \A p \in Phases : RoomsHold(p) /\ (Cap[p] # 0 => CapsOf(p))
    /\ (procs' >= 1 /\ \A p \in Phases : RoomsHold(p)' /\ (Cap[p] # 0 => CapsOf(p)')) => Accounts'
BY DEF Accounts, AttemptsFit, CapsHold, RoomsHold, CapsOf, Room, Earlier, Before

LEMMA NumbersOf ==
    ASSUME Typed, Accounts, NEW p \in Phases
    PROVE  /\ procs \in Nat /\ procs >= 1 /\ Cap[p] \in Nat
           /\ mem.budget[p] \in Nat /\ art.budget[p] \in Nat
           /\ Earlier(p, mem.cursor) \in Nat /\ Earlier(p, mem.cursor + 1) \in Nat
           /\ Earlier(p, art.cursor) \in Nat /\ Earlier(p, art.cursor + 1) \in Nat
BY BudgetTyped, EarlierNat DEF Accounts, CapsHold

\* A place in the list further on has no fewer before it.
LEMMA EarlierGrows ==
    ASSUME NEW p \in Phases, NEW c \in Subtasks
    PROVE  Earlier(p, c) <= Earlier(p, c + 1) /\ Earlier(p, c + 1) <= Earlier(p, c) + 1
<1>1. Earlier(p, c) \in Nat BY EarlierNat
<1>2. Earlier(p, c + 1) = Earlier(p, c) + 1 \/ Earlier(p, c + 1) = Earlier(p, c) BY EarlierCounts
<1> QED BY <1>1, <1>2

\* bumpPhaseAttemptCount, before anything is known of the round.
LEMMA ReportAccounts == ASSUME Typed, Inv, Accounts, AgentReports PROVE Accounts'
<1>0. mem \in Progress /\ mem.cursor \in Subtasks /\ Accounts BY PartsTyped, BudgetTyped
<1>1. /\ pc = "work" /\ pc' = "sync" /\ mem' = Counted(mem)
      /\ art' = art /\ procs' = procs /\ harm' = harm
  BY DEF AgentReports, Goto, World
<1>2. mem'.tries = mem.tries /\ mem'.cursor = mem.cursor BY <1>0, <1>1 DEF Counted, Progress
<1>3. \A p \in Phases : mem'.budget[p] = IF PhaseOf[mem.cursor] = p THEN mem.budget[p] + 1
                                         ELSE mem.budget[p]
  BY <1>0, <1>1, ConstantsTyped DEF Counted, Progress
<1>4. Unspent /\ ~Unspent' BY <1>1 DEF Unspent
<1>5. procs' >= 1 BY <1>0, <1>1, AccountsOf
<1>6. SUFFICES ASSUME NEW p \in Phases PROVE RoomsHold(p)' /\ (Cap[p] # 0 => CapsOf(p)')
  BY <1>5, AccountsOf
<1>7. RoomsHold(p) /\ (Cap[p] # 0 => CapsOf(p)) BY <1>0, AccountsOf
<1>8. /\ procs \in Nat /\ mem.budget[p] \in Nat /\ Cap[p] \in Nat
      /\ Earlier(p, mem.cursor) \in Nat
  BY NumbersOf
<1>9. RoomsHold(p)'
  <2>1. SUFFICES ASSUME "budget" \notin harm
                 PROVE  /\ Room(art', p) /\ Room(mem', p)
                        /\ PhaseOf[mem'.cursor] = p => Cardinality(Attempts(mem', p)) < mem'.budget[p]
    BY <1>1 DEF RoomsHold, Room
  <2>2. Room(art, p) /\ Room(mem, p) BY <1>7, <2>1 DEF RoomsHold
  <2>3. Attempts(mem', p) = Attempts(mem, p) BY <1>2 DEF Attempts
  <2>4. IsFiniteSet(Attempts(mem, p)) /\ Cardinality(Attempts(mem, p)) <= mem.budget[p]
    BY <2>2 DEF Room
  <2>5. Cardinality(Attempts(mem, p)) \in Nat BY <2>4, FS_CardinalityType
  <2>6. /\ Cardinality(Attempts(mem', p)) <= mem'.budget[p]
        /\ PhaseOf[mem'.cursor] = p => Cardinality(Attempts(mem', p)) < mem'.budget[p]
    BY <1>2, <1>3, <1>8, <2>3, <2>4, <2>5
  <2> QED BY <1>1, <2>2, <2>3, <2>4, <2>6 DEF Room
<1>10. ASSUME Cap[p] # 0 PROVE CapsOf(p)'
  <2>1. /\ mem.budget[p] <= Cap[p] + Earlier(p, mem.cursor) + procs - 2
        /\ art.budget[p] <= Cap[p] + Earlier(p, art.cursor + 1) + procs - 2
    BY <1>4, <1>7, <1>10 DEF CapsOf
  <2>2. Earlier(p, mem.cursor + 1) = IF PhaseOf[mem.cursor] = p THEN Earlier(p, mem.cursor) + 1
                                     ELSE Earlier(p, mem.cursor)
    BY <1>0, EarlierCounts
  <2>3. mem'.budget[p] <= Cap[p] + Earlier(p, mem.cursor + 1) + procs - 2
    BY <1>3, <1>8, <2>1, <2>2
  <2> QED BY <1>1, <1>2, <1>4, <2>1, <2>3 DEF CapsOf, Earlier, Before
<1> QED BY <1>9, <1>10

\* A round is summarised: the attempt was counted when it was reported.
LEMMA SummaryAccounts ==
    ASSUME Typed, Inv, Accounts, Violates \/ NoChanges \/ TestsFail \/ Pass
    PROVE  Accounts'
<1>0. mem \in Progress /\ mem.cursor \in Subtasks /\ ses \in Session /\ Accounts
  BY PartsTyped, BudgetTyped
<1>1. /\ mem' = Tried(mem) /\ art' \in {art, Tried(mem)}
      /\ pc \in Reported /\ pc' \in {"undo", "drained", "budget", "exhausted", "aborted", "advance"}
      /\ procs' = procs /\ harm' = harm
  BY DEF Violates, NoChanges, TestsFail, Pass, Remember, Saved, Goto, World, Reported
<1>2. pc' # "drained" \/ ~ses'.moving
  <2>1. pc \in {"judge", "testing", "passed", "complete"} BY DEF Violates, NoChanges, TestsFail, Pass
  <2>2. ~ses.moving BY <2>1 DEF Inv, MovingOnly
  <2> QED BY <1>0, <2>2 DEF Violates, NoChanges, TestsFail, Pass, Session
<1>3. mem'.budget = mem.budget /\ mem'.cursor = mem.cursor BY <1>0, <1>1 DEF Tried, Progress
<1>4. ~Unspent' /\ pc' \notin Reported BY <1>1, <1>2 DEF Unspent, Reported
<1>5. procs' >= 1 BY <1>0, <1>1, AccountsOf
<1>6. SUFFICES ASSUME NEW p \in Phases PROVE RoomsHold(p)' /\ (Cap[p] # 0 => CapsOf(p)')
  BY <1>5, AccountsOf
<1>7. RoomsHold(p) /\ (Cap[p] # 0 => CapsOf(p)) BY <1>0, AccountsOf
<1>8. RoomsHold(p)'
  <2>1. SUFFICES ASSUME "budget" \notin harm PROVE Room(art', p) /\ Room(mem', p)
    BY <1>1, <1>4 DEF RoomsHold, Room
  <2>2. /\ Room(art, p) /\ Room(mem, p)
        /\ PhaseOf[mem.cursor] = p => Cardinality(Attempts(mem, p)) < mem.budget[p]
    BY <1>1, <1>7, <2>1 DEF RoomsHold
  <2>3. IsFiniteSet(Attempts(mem, p)) /\ Cardinality(Attempts(mem, p)) <= mem.budget[p]
    BY <2>2 DEF Room
  <2>4. /\ IsFiniteSet(Attempts(mem', p)) /\ Cardinality(Attempts(mem, p)) \in Nat
        /\ Cardinality(Attempts(mem', p)) =
              IF PhaseOf[mem.cursor] = p THEN Cardinality(Attempts(mem, p)) + 1
              ELSE Cardinality(Attempts(mem, p))
    BY <1>0, <1>1, <2>3, TriedAttempts
  <2>5. mem.budget[p] \in Nat BY NumbersOf
  <2>6. Cardinality(Attempts(mem', p)) <= mem'.budget[p] BY <1>3, <2>2, <2>3, <2>4, <2>5
  <2>7. Room(mem', p) BY <2>4, <2>6 DEF Room
  <2> QED BY <1>1, <2>2, <2>7
<1>9. ASSUME Cap[p] # 0 PROVE CapsOf(p)'
  <2>1. /\ mem.budget[p] <= Cap[p] + Earlier(p, mem.cursor + 1) + procs - 2
        /\ art.budget[p] <= Cap[p] + Earlier(p, art.cursor + 1) + procs - 2
    BY <1>7, <1>9 DEF CapsOf
  <2> QED BY <1>1, <1>3, <1>4, <2>1 DEF CapsOf, Earlier, Before
<1> QED BY <1>8, <1>9

\* The next subtask of a phase whose budget is used up gets its attempt all the
\* same: the budget is checked after a failed attempt only.
LEMMA AdvanceAccounts == ASSUME Typed, Inv, Accounts, Advance PROVE Accounts'
<1>0. /\ mem \in Progress /\ mem.cursor \in Subtasks /\ mem.cursor \in Nat /\ Accounts
      /\ N \in Nat
  BY PartsTyped, BudgetTyped, ConstantsTyped
<1>1. /\ mem'.tries = mem.tries /\ mem'.budget = mem.budget /\ mem'.cursor = mem.cursor + 1
      /\ art' \in {art, mem'} /\ mem.cursor < N
      /\ procs' = procs /\ harm \subseteq harm' /\ pc' \in {"work", "drained"}
  <2>1. PICK n : n = [mem EXCEPT !.cursor = @ + 1, !.applied = Applied] OBVIOUS
  <2>2. n.tries = mem.tries /\ n.budget = mem.budget /\ n.cursor = mem.cursor + 1
    BY <1>0, <2>1 DEF Progress
  <2>3. /\ Based(n).tries = n.tries /\ Based(n).budget = n.budget /\ Based(n).cursor = n.cursor
        /\ \A i : /\ [Based(n) EXCEPT !.transition = i].tries = n.tries
                  /\ [Based(n) EXCEPT !.transition = i].budget = n.budget
                  /\ [Based(n) EXCEPT !.transition = i].cursor = n.cursor
    BY <1>0, <2>1 DEF Based, Progress
  <2>4. \/ mem' = Based(n) /\ art' = art
        \/ mem' = [Based(n) EXCEPT !.transition = Based(n).cursor] /\ art' = mem'
    BY <2>1 DEF Advance, SaveOrThrow
  <2>5. mem.cursor < N /\ procs' = procs /\ harm \subseteq harm' /\ pc' \in {"work", "drained"}
    BY DEF Advance, Goto
  <2> QED BY <2>2, <2>3, <2>4, <2>5
<1>2. mem.cursor + 1 \in Subtasks BY <1>0, <1>1 DEF Subtasks
<1>3. pc' \notin Reported BY <1>1 DEF Reported
<1>4. procs' >= 1 BY <1>0, <1>1, AccountsOf
<1>5. SUFFICES ASSUME NEW p \in Phases PROVE RoomsHold(p)' /\ (Cap[p] # 0 => CapsOf(p)')
  BY <1>4, AccountsOf
<1>6. RoomsHold(p) /\ (Cap[p] # 0 => CapsOf(p)) BY <1>0, AccountsOf
<1>7. RoomsHold(p)'
  <2>1. SUFFICES ASSUME "budget" \notin harm PROVE Room(art', p) /\ Room(mem', p)
    BY <1>1, <1>3 DEF RoomsHold, Room
  <2>2. Room(art, p) /\ Room(mem, p) BY <1>6, <2>1 DEF RoomsHold
  <2>3. Room(mem', p) BY <1>1, <2>2, SameAttempts
  <2> QED BY <1>1, <2>2, <2>3
<1>8. ASSUME Cap[p] # 0 PROVE CapsOf(p)'
  <2>1. /\ mem.budget[p] <= Cap[p] + Earlier(p, mem.cursor + 1) + procs - 2
        /\ art.budget[p] <= Cap[p] + Earlier(p, art.cursor + 1) + procs - 2
    BY <1>6, <1>8 DEF CapsOf
  <2>2. PICK c \in Subtasks : c = mem.cursor + 1 BY <1>2
  <2>3. Earlier(p, c) <= Earlier(p, c + 1) /\ Earlier(p, c) \in Nat /\ Earlier(p, c + 1) \in Nat
    BY EarlierGrows, EarlierNat
  <2>4. mem'.cursor = c /\ mem'.budget = mem.budget BY <1>1, <2>2
  <2>5. mem'.budget[p] <= Cap[p] + Earlier(p, c) + procs - 2 BY <2>1, <2>2, <2>4
  <2>6. procs \in Nat /\ Cap[p] \in Nat /\ mem.budget[p] \in Nat BY NumbersOf
  <2>7. mem'.budget[p] <= Cap[p] + Earlier(p, c + 1) + procs - 2
    BY <2>3, <2>4, <2>5, <2>6
  <2>8. /\ mem'.budget[p] <= Cap[p] + Earlier(p, mem'.cursor) + procs - 2
        /\ mem'.budget[p] <= Cap[p] + Earlier(p, mem'.cursor + 1) + procs - 2
    BY <2>4, <2>5, <2>7
  <2>9. art'.budget[p] <= Cap[p] + Earlier(p, art'.cursor + 1) + procs - 2
    BY <1>1, <2>1, <2>8
  <2> QED BY <1>1, <2>8, <2>9 DEF CapsOf, Earlier, Before
<1> QED BY <1>7, <1>8

\* What a process that ends may leave stored: what it knew, what was stored, or
\* what a Ctrl+C keeps.
LEMMA ExitAccounts ==
    ASSUME Typed, Accounts, Exit, procs' = procs, harm \subseteq harm',
           \/ Account(art') \in {Account(art), Account(mem)}
           \/ /\ art'.tries = art.tries /\ art'.budget = NoBudget /\ art'.cursor = art.cursor
              /\ "budget" \notin harm' => art.budget = NoBudget
    PROVE  Accounts'
<1>0. Accounts /\ procs' >= 1 BY NumbersOf, AccountsOf
<1>1. mem'.tries = NoTries /\ mem'.budget = NoBudget /\ mem'.cursor = 1 /\ pc' = "off"
  BY DEF Exit, Fresh
<1>2. SUFFICES ASSUME NEW p \in Phases PROVE RoomsHold(p)' /\ (Cap[p] # 0 => CapsOf(p)')
  BY <1>0, AccountsOf
<1>3. RoomsHold(p) /\ (Cap[p] # 0 => CapsOf(p)) BY <1>0, AccountsOf
<1>4. NoBudget[p] = 0 BY DEF NoBudget
<1>5. /\ procs \in Nat /\ procs >= 1 /\ Cap[p] \in Nat /\ Earlier(p, art.cursor + 1) \in Nat
      /\ mem.budget[p] \in Nat
  BY NumbersOf
<1>6. RoomsHold(p)'
  <2>1. SUFFICES ASSUME "budget" \notin harm' PROVE Room(art', p) /\ Room(mem', p)
    BY <1>1 DEF RoomsHold, Room, Reported
  <2>2. Room(art, p) /\ Room(mem, p) BY <1>3, <2>1 DEF RoomsHold
  <2>3. Room(mem', p)
    <3>1. IsFiniteSet(Attempts(mem', p)) /\ Cardinality(Attempts(mem', p)) = 0
      BY <1>1, NoAttempts
    <3> QED BY <1>1, <1>4, <3>1 DEF Room
  <2>4. Room(art', p)
    <3>1. \/ art'.tries = art.tries /\ art'.budget = art.budget
          \/ art'.tries = mem.tries /\ art'.budget = mem.budget
      BY <2>1 DEF Account
    <3> QED BY <2>2, <3>1, SameAttempts
  <2> QED BY <2>3, <2>4
<1>7. ASSUME Cap[p] # 0 PROVE CapsOf(p)'
  <2>1. /\ mem.budget[p] <= Cap[p] + Earlier(p, mem.cursor + 1) + procs - 2
        /\ art.budget[p] <= Cap[p] + Earlier(p, art.cursor + 1) + procs - 2
    BY <1>3, <1>7 DEF CapsOf
  <2>2. \A c : mem'.budget[p] <= Cap[p] + Earlier(p, c) + procs - 2
    <3>1. SUFFICES ASSUME NEW c PROVE 0 <= Cap[p] + Earlier(p, c) + procs - 2 BY <1>1, <1>4
    <3>2. Earlier(p, c) \in Nat BY EarlierNat
    <3> QED BY <1>5, <1>7, <3>2
  <2>3. art'.budget[p] <= Cap[p] + Earlier(p, art'.cursor + 1) + procs - 2
    <3>1. CASE art'.budget = art.budget /\ art'.cursor = art.cursor BY <2>1, <3>1
    <3>2. CASE art'.budget = mem.budget /\ art'.cursor = mem.cursor BY <2>1, <3>2
    <3>3. CASE art'.budget = NoBudget /\ art'.cursor = art.cursor
      BY <1>4, <1>5, <1>7, <3>3
    <3> QED BY <3>1, <3>2, <3>3 DEF Account
  <2> QED BY <2>2, <2>3 DEF CapsOf, Earlier, Before
<1> QED BY <1>6, <1>7

LEMMA EndAccounts ==
    ASSUME Typed, Inv, Accounts, Close \/ Interrupt \/ Crash
    PROVE  Accounts'
<1>0. art \in Progress BY PartsTyped
<1>1. CASE Close
  <2>1. art' \in {mem, art} /\ Exit /\ procs' = procs /\ harm' = harm BY <1>1 DEF Close
  <2>2. Account(art') \in {Account(art), Account(mem)} BY <2>1 DEF Account
  <2> QED BY <2>1, <2>2, ExitAccounts
<1>2. CASE Interrupt
  <2>1. Exit /\ procs' = procs /\ harm \subseteq harm' BY <1>2 DEF Interrupt
  <2>2. CASE art' = art
    <3>1. Account(art') \in {Account(art), Account(mem)} BY <2>2 DEF Account
    <3> QED BY <2>1, <3>1, ExitAccounts
  <2>3. CASE art' # art
    <3>1. art' = Kept /\ ("budget" \notin harm' => art.budget = NoBudget)
      BY <1>2, <2>3 DEF Interrupt
    <3>2. Kept.tries = art.tries /\ Kept.budget = NoBudget /\ Kept.cursor = art.cursor
      BY <1>0 DEF Kept, Progress
    <3> QED BY <2>1, <3>1, <3>2, ExitAccounts
  <2> QED BY <2>2, <2>3
<1>3. CASE Crash
  <2>1. Exit /\ procs' = procs /\ harm' = harm /\ art' = art BY <1>3 DEF Crash, World
  <2>2. Account(art') \in {Account(art), Account(mem)} BY <2>1 DEF Account
  <2> QED BY <2>1, <2>2, ExitAccounts
<1> QED BY <1>1, <1>2, <1>3

\* A process that goes on with a run takes over its budgets, and may use one
\* attempt more than its caps.
LEMMA BeginAccounts ==
    ASSUME Typed, Inv, Accounts, NEW sandbox, Begin(sandbox)
    PROVE  Accounts'
<1>0. art \in Progress /\ art.cursor \in Subtasks /\ Accounts BY PartsTyped, BudgetTyped
<1>1. /\ mem'.tries = art.tries /\ mem'.budget = art.budget /\ mem'.cursor = art.cursor
      /\ art'.tries = NoTries /\ art'.budget = NoBudget /\ art'.cursor = art.cursor
      /\ procs' = procs + 1 /\ harm' = harm /\ pc' = "presync"
  <2>1. mem' = Based(art) BY DEF Begin
  <2>2. Account(Based(art)) = Account(art) BY <1>0, AccountSet
  <2>3. mem'.tries = art.tries /\ mem'.budget = art.budget /\ mem'.cursor = art.cursor
    BY <2>1, <2>2 DEF Account
  <2>4. /\ art'.tries = NoTries /\ art'.budget = NoBudget /\ art'.cursor = art.cursor
    BY <1>0 DEF Begin, Progress
  <2> QED BY <2>3, <2>4 DEF Begin, Goto
<1>2. procs \in Nat /\ procs >= 1 /\ procs' >= 1 BY <1>0, <1>1, BudgetTyped, AccountsOf
<1>3. SUFFICES ASSUME NEW p \in Phases PROVE RoomsHold(p)' /\ (Cap[p] # 0 => CapsOf(p)')
  BY <1>2, AccountsOf
<1>4. RoomsHold(p) /\ (Cap[p] # 0 => CapsOf(p)) BY <1>0, AccountsOf
<1>5. NoBudget[p] = 0 BY DEF NoBudget
<1>6. RoomsHold(p)'
  <2>1. SUFFICES ASSUME "budget" \notin harm PROVE Room(art', p) /\ Room(mem', p)
    BY <1>1 DEF RoomsHold, Room, Reported
  <2>2. Room(art, p) BY <1>4, <2>1 DEF RoomsHold
  <2>3. Room(mem', p) BY <1>1, <2>2, SameAttempts
  <2>4. IsFiniteSet(Attempts(art', p)) /\ Cardinality(Attempts(art', p)) = 0
    BY <1>1, NoAttempts
  <2> QED BY <1>1, <1>5, <2>3, <2>4 DEF Room
<1>7. ASSUME Cap[p] # 0 PROVE CapsOf(p)'
  <2>1. art.budget[p] <= Cap[p] + Earlier(p, art.cursor + 1) + procs - 2
    BY <1>4, <1>7 DEF CapsOf
  <2>2. PICK e \in Nat : e = Earlier(p, art.cursor) BY EarlierNat
  <2>3. PICK f \in Nat : f = Earlier(p, art.cursor + 1) BY EarlierNat
  <2>4. f <= e + 1 /\ e <= f BY <1>0, <2>2, <2>3, EarlierGrows
  <2>5. Cap[p] \in Nat /\ art.budget[p] \in Nat BY NumbersOf
  <2>6. PICK q \in Nat : q = procs' BY <1>1, <1>2
  <2>7. q = procs + 1 /\ q >= 2 BY <1>1, <1>2, <2>6
  <2>8. /\ art.budget[p] <= Cap[p] + e + q - 2 /\ art.budget[p] <= Cap[p] + f + q - 2
        /\ 0 <= Cap[p] + f + q - 2
    BY <1>2, <2>1, <2>3, <2>4, <2>5, <2>7
  <2> QED BY <1>1, <1>5, <2>2, <2>3, <2>6, <2>8 DEF CapsOf, Earlier, Before
<1> QED BY <1>6, <1>7

LEMMA InitAccounts == Init => Accounts
<1> SUFFICES ASSUME Init PROVE Accounts OBVIOUS
<1>1. /\ art.tries = NoTries /\ art.budget = NoBudget
      /\ mem.tries = NoTries /\ mem.budget = NoBudget
      /\ procs = 1 /\ pc = "presync"
  <2>1. Account(Based(Fresh)) = Account(Fresh) BY FreshTyped, AccountSet
  <2> QED BY <2>1 DEF Init, Fresh, Account
<1>2. SUFFICES ASSUME NEW p \in Phases PROVE RoomsHold(p) /\ (Cap[p] # 0 => CapsOf(p))
  BY <1>1, AccountsOf
<1>3. NoBudget[p] = 0 BY DEF NoBudget
<1>4. RoomsHold(p) BY <1>1, <1>3, NoAttempts DEF RoomsHold, Room, Reported
<1>5. ASSUME Cap[p] # 0 PROVE CapsOf(p)
  <2>1. Cap[p] \in Nat BY LoopAssumption
  <2>2. \A c : Earlier(p, c) \in Nat BY EarlierNat
  <2>3. \A c : 0 <= Cap[p] + Earlier(p, c) + 1 - 2 BY <1>5, <2>1, <2>2
  <2> QED BY <1>1, <1>3, <2>3 DEF CapsOf
<1> QED BY <1>4, <1>5

LEMMA StepAccounts == Typed /\ Inv /\ Accounts /\ [Next]_vars => Accounts'
<1> SUFFICES ASSUME Typed, Inv, Accounts, [Next]_vars PROVE Accounts' OBVIOUS
<1>0. SameAccounts => Accounts' BY SameKeepsAccounts
<1>1. CASE UNCHANGED vars
  <2>1. SameAccounts
    BY <1>1, BudgetTyped DEF vars, SameAccounts, Account, Reported, Unspent
  <2> QED BY <1>0, <2>1
<1>2. CASE Driver
  <2>1. CASE PreRoundSync \/ CompleteRestart \/ SetupThrows \/ Boot
    BY <1>0, <2>1, BeforeSame
  <2>2. CASE SessionDrains BY <1>0, <2>2, SessionSame
  <2>3. CASE Sync \/ ResetRound \/ AppendRound \/ Verify \/ Bypass \/ TestsPass \/ TestsThrow
             \/ DiscardRound \/ GiveUp \/ Finish \/ Budget
    BY <1>0, <2>3, RoundSame
  <2>4. CASE DrainsFinished \/ DrainsAborted \/ DrainsOver \/ ApplyToHost
    BY <1>0, <2>4, DrainSame
  <2>5. CASE AgentReports BY <2>5, ReportAccounts
  <2>6. CASE Violates \/ NoChanges \/ TestsFail \/ Pass BY <2>6, SummaryAccounts
  <2>7. CASE Advance BY <2>7, AdvanceAccounts
  <2>8. CASE Close BY <2>8, EndAccounts
  <2> QED BY <1>2, <2>1, <2>2, <2>3, <2>4, <2>5, <2>6, <2>7, <2>8 DEF Driver
<1>3. CASE AgentCommits \/ Abort BY <1>0, <1>3, SessionSame
<1>4. CASE Interrupt \/ Crash BY <1>4, EndAccounts
<1>5. CASE ForceStop \/ StartThrows BY <1>0, <1>5, DrainSame
<1>6. CASE Start \/ Resume \/ ResumeRebuilds
  <2>1. \E sandbox : Begin(sandbox)
    BY <1>6 DEF Start, Resume, ResumeRebuilds
  <2> QED BY <2>1, BeginAccounts
<1> QED BY <1>1, <1>2, <1>3, <1>4, <1>5, <1>6 DEF Next

LEMMA AlwaysAccounts == Spec => [](Typed /\ Inv /\ Accounts)
<1>1. Init => Typed /\ Inv /\ Accounts BY InitTyped, InitInv, InitAccounts
<1>2. (Typed /\ Inv /\ Accounts) /\ [Next]_vars => (Typed /\ Inv /\ Accounts)'
  BY StepTyped, StepInv, StepAccounts
<1> QED BY <1>1, <1>2, PTL DEF Spec

\* bumpPhaseAttemptCount, checkPhaseBudgetExhausted, and what a pause, a resume
\* or a Ctrl+C carry over: every summarised attempt of a subtask has counted for
\* its phase, and a phase with limits.max-attempts overruns it by one attempt for
\* each of its later subtasks and one for each further process, never by more.
THEOREM BudgetsAreKept == Spec => []BudgetsCount
<1>1. Typed /\ Inv /\ Accounts => BudgetsCount
  <2> SUFFICES ASSUME Typed, Inv, Accounts PROVE BudgetsCount OBVIOUS
  <2>1. /\ procs >= 1
        /\ \A p \in Phases : RoomsHold(p) /\ (Cap[p] # 0 => CapsOf(p))
    BY AccountsOf
  <2>2. ASSUME "budget" \notin harm, NEW m \in {art, mem}, NEW p \in Phases
        PROVE  Cardinality(Attempts(m, p)) <= m.budget[p]
    BY <2>1, <2>2 DEF RoomsHold, Room
  <2>3. ASSUME NEW p \in Phases, Cap[p] # 0
        PROVE  mem.budget[p] <=
                   Cap[p] + Cardinality({i \in Subtasks : PhaseOf[i] = p}) - 1 + procs - 1
    <3>1. mem.budget[p] <= Cap[p] + Earlier(p, mem.cursor + 1) + procs - 2
      BY <2>1, <2>3 DEF CapsOf
    <3>2. PICK e \in Nat : e = Earlier(p, mem.cursor + 1) BY EarlierNat
    <3>3. PICK s \in Nat : s = Cardinality({i \in Subtasks : PhaseOf[i] = p}) /\ e <= s
      BY <3>2, BudgetTyped, EarlierCounts
    <3>4. procs \in Nat /\ Cap[p] \in Nat /\ mem.budget[p] \in Nat BY NumbersOf
    <3>5. mem.budget[p] <= Cap[p] + s - 1 + procs - 1 BY <3>1, <3>2, <3>3, <3>4
    <3> QED BY <3>3, <3>5
  <2> QED BY <2>2, <2>3 DEF BudgetsCount
<1> QED BY <1>1, AlwaysAccounts, PTL
=============================================================================
