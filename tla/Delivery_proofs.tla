-------------------------- MODULE Delivery_proofs --------------------------
(***************************************************************************)
(* Proofs about HostDelivery, for every run, every set of branches, every  *)
(* user and any number of commands; and that what is proved of the session *)
(* and of the host's repository holds of the two  *)
(* together.                                                               *)
(***************************************************************************)
EXTENDS Delivery, SequenceTheorems, TLAPS

-----------------------------------------------------------------------------
(* The run, and the commands on it. *)

LEMMA RunTyped ==
    /\ Len(Run) \in Nat \ {0} /\ DOMAIN Run = 1 .. Len(Run) /\ 1 \in DOMAIN Run
    /\ \A i \in DOMAIN Run : /\ Run[i] \subseteq Changed /\ Run[i] \intersect Mine = {}
                           /\ Run[i] # {}
    /\ Base \subseteq Changed /\ Base \intersect Mine = {} /\ Mine \subseteq Changed
<1>1. Run \in Seq((SUBSET Changed) \ {{}}) /\ Run # <<>> BY DeliveryAssumption
<1>2. Len(Run) \in Nat \ {0} /\ DOMAIN Run = 1 .. Len(Run) BY <1>1, EmptySeq, LenProperties
<1>3. \A i \in DOMAIN Run : /\ Run[i] \subseteq Changed /\ Run[i] \intersect Mine = {}
                           /\ Run[i] # {}
  <2> TAKE i \in DOMAIN Run
  <2>1. Run[i] \in (SUBSET Changed) \ {{}} BY <1>1, <1>2, ElementOfSeq
  <2>2. Run[i] \in Range(Run) BY DEF Range
  <2>3. Mine \intersect UNION Range(Run) = {} BY DeliveryAssumption
  <2>4. \A x \in Run[i] : x \notin Mine BY <2>2, <2>3
  <2> QED BY <2>1, <2>4
<1>4. Base \subseteq Changed /\ Mine \subseteq Changed BY DEF Changed
<1> QED BY <1>2, <1>3, <1>4, DeliveryAssumption

LEMMA KindOfCommand ==
    ASSUME TypeOK
    PROVE  /\ op.kind = "merge" => op \in MergeCommand
           /\ op.kind \in {"deliver", "apply"} => op \in BranchCommand
           /\ op.step # "done" => op \in BranchCommand \union MergeCommand
BY DEF TypeOK, Idle, MergeCommand, BranchCommand

\* What a step does to the record of the command.
LEMMA BranchMoves ==
    ASSUME op \in BranchCommand,
           NEW s \in {"clear", "add", "base", "commit", "push", "remove", "done"}
    PROVE  /\ [op EXCEPT !.step = s] \in BranchCommand
           /\ [op EXCEPT !.step = s, !.ok = FALSE] \in BranchCommand
BY DEF BranchCommand

LEMMA MergeMoves ==
    ASSUME op \in MergeCommand,
           NEW s \in {"checkout", "stash", "recovery", "apply", "commit", "rollback",
                      "return", "restore", "done"}
    PROVE  /\ [op EXCEPT !.step = s] \in MergeCommand
           /\ [op EXCEPT !.step = s, !.ok = FALSE] \in MergeCommand
BY DEF MergeCommand

LEMMA AppendTyped ==
    ASSUME NEW h \in Histories, NEW n \in Nat, NEW c \in SUBSET Changed
    PROVE  /\ Append(h, <<n, c>>) \in Histories
           /\ Changes(Append(h, <<n, c>>)) = Changes(h) \union c
<1>1. <<n, c>> \in Int \X SUBSET Changed OBVIOUS
<1>2. Append(h, <<n, c>>) \in Histories BY <1>1, AppendProperties DEF Histories
<1>3. Range(Append(h, <<n, c>>)) = Range(h) \union {<<n, c>>}
  <2> DEFINE g == Append(h, <<n, c>>)
  <2>1. /\ h \in Seq(Int \X SUBSET Changed) /\ Len(h) \in Nat
        /\ DOMAIN h = 1 .. Len(h) /\ DOMAIN g = 1 .. Len(h) + 1
        /\ \A i \in 1 .. Len(h) : g[i] = h[i]
        /\ g[Len(h) + 1] = <<n, c>>
    BY <1>1, AppendProperties, LenProperties DEF Histories
  <2>2. \A i \in DOMAIN h : i \in DOMAIN g /\ g[i] = h[i] BY <2>1
  <2>3. Len(h) + 1 \in DOMAIN g BY <2>1
  <2>4. \A i \in DOMAIN g : i \in DOMAIN h \/ i = Len(h) + 1 BY <2>1
  <2> HIDE DEF g
  <2> QED BY <2>1, <2>2, <2>3, <2>4 DEF Range
<1>4. Changes(Append(h, <<n, c>>)) = Changes(h) \union c
  BY <1>3 DEF Changes
<1> QED BY <1>2, <1>4

LEMMA AbsentTyped == /\ Absent \in Histories /\ Changes(Absent) = {}
                     /\ <<>> \in Histories /\ Changes(<<>>) = {}
<1>1. <<-1, {}>> \in Int \X SUBSET Changed OBVIOUS
<1>2. Absent \in Histories /\ <<>> \in Histories BY <1>1 DEF Absent, Histories
<1>3. Range(Absent) = {<<-1, {}>>} BY DEF Range, Absent
<1>4. Range(<<>>) = {} BY DEF Range
<1> QED BY <1>2, <1>3, <1>4 DEF Changes

-----------------------------------------------------------------------------
(* Types. *)

LEMMA InitTyped == Init => TypeOK
<1> SUFFICES ASSUME Init PROVE TypeOK OBVIOUS
<1>1. branch \in [Branches -> Histories] /\ remote \in [Branches -> Histories]
  BY AbsentTyped DEF Init
<1>2. at \in Branches \union {Detached} BY DeliveryAssumption DEF Init
<1> QED BY <1>1, <1>2 DEF Init, TypeOK

LEMMA UserTyped == ASSUME TypeOK, UserNext PROVE TypeOK'
<1>1. CASE \E x \in Mine : Edit(x)
  <2>1. PICK x \in Mine : Edit(x) BY <1>1
  <2>2. x \in Changed BY RunTyped
  <2> QED BY <2>1, <2>2 DEF TypeOK, Edit, Between
<1>2. CASE Commit
  <2>1. at \in Branches /\ branch[at] \in Histories BY <1>2 DEF TypeOK, Commit
  <2>2. Append(branch[at], <<0, tree>>) \in Histories BY <2>1, AppendTyped DEF TypeOK
  <2> QED BY <1>2, <2>1, <2>2 DEF TypeOK, Commit, Between, ghosts
<1>3. CASE \E b \in Branches : Switch(b)
  BY <1>3 DEF TypeOK, Switch, Between, ghosts
<1> QED BY <1>1, <1>2, <1>3 DEF UserNext

LEMMA BeginTyped ==
    ASSUME TypeOK, NEW kind \in {"deliver", "apply"}, NEW b \in Branches,
           NEW push \in BOOLEAN, Begin(kind, b, push)
    PROVE  TypeOK'
<1>1. op' \in BranchCommand BY RunTyped DEF Begin, BranchCommand
<1> QED BY <1>1 DEF TypeOK, Begin, repo, ghosts

LEMMA CommitInWorktreeTyped ==
    ASSUME TypeOK, op \in BranchCommand, NEW c \in SUBSET Changed, CommitInWorktree(c)
    PROVE  /\ branch' \in [Branches -> Histories]
           /\ \A b \in Branches : Changes(branch[b]) \subseteq Changes(branch'[b])
<1>1. op.branch \in Branches /\ branch[op.branch] \in Histories BY DEF TypeOK, BranchCommand
<1>2. commands \in Nat BY DEF TypeOK
<1> DEFINE h == Append(branch[op.branch], <<commands, c>>)
<1>3. h \in Histories /\ Changes(h) = Changes(branch[op.branch]) \union c
  BY <1>1, <1>2, AppendTyped
<1>4. branch' = [branch EXCEPT ![op.branch] = h] BY DEF CommitInWorktree
<1> HIDE DEF h
<1> QED BY <1>1, <1>3, <1>4 DEF TypeOK

LEMMA BranchTyped == ASSUME TypeOK, BranchNext \/ DeliverNext PROVE TypeOK'
<1>1. CASE \E b \in Branches, push \in BOOLEAN : Deliver(b, push) \/ RunApply(b, push)
  BY <1>1, BeginTyped DEF Deliver, RunApply
<1>2. CASE ClearBranch
  <2>1. op \in BranchCommand BY <1>2, KindOfCommand DEF ClearBranch, Running
  <2>2. op' \in BranchCommand BY <1>2, <2>1, BranchMoves DEF ClearBranch, To
  <2>3. branch' \in [Branches -> Histories] BY <1>2, AbsentTyped DEF ClearBranch, TypeOK
  <2>4. discarded' \subseteq Mine BY <1>2 DEF ClearBranch, TypeOK
  <2>5. wts' \subseteq {"sandbox", "apply"} \X Branches BY <1>2 DEF ClearBranch, TypeOK
  <2> QED BY <1>2, <2>2, <2>3, <2>4, <2>5 DEF ClearBranch, TypeOK
<1>3. CASE AddWorktree
  <2>1. op \in BranchCommand BY <1>3, KindOfCommand DEF AddWorktree, Running
  <2>2. op' \in BranchCommand
    BY <1>3, <2>1, BranchMoves DEF AddWorktree, To, Fails
  <2>3. branch' \in [Branches -> Histories] BY <1>3, AbsentTyped DEF AddWorktree, TypeOK
  <2>4. op.branch \in Branches /\ Place \in {"sandbox", "apply"}
    BY <2>1 DEF BranchCommand, Place
  <2>5. wts' \subseteq {"sandbox", "apply"} \X Branches BY <1>3, <2>4 DEF AddWorktree, TypeOK
  <2> QED BY <1>3, <2>2, <2>3, <2>5 DEF AddWorktree, TypeOK, ghosts
<1>4. CASE CommitBase
  <2>1. op \in BranchCommand BY <1>4, KindOfCommand DEF CommitBase, Running
  <2>2. op' \in BranchCommand BY <1>4, <2>1, BranchMoves DEF CommitBase, To
  <2>3. branch' \in [Branches -> Histories]
    BY <1>4, <2>1, RunTyped, CommitInWorktreeTyped DEF CommitBase
  <2> QED BY <1>4, <2>2, <2>3 DEF CommitBase, CommitInWorktree, TypeOK, ghosts
<1>5. CASE CommitOne
  <2>1. op \in BranchCommand BY <1>5, KindOfCommand DEF CommitOne, Running
  <2>2. op.i \in 1 .. Len(Run) BY <2>1, RunTyped DEF BranchCommand
  <2>3. op.i < Len(Run) => op.i + 1 \in DOMAIN Run BY <2>2, RunTyped
  <2>4. op' \in BranchCommand BY <1>5, <2>1, <2>3 DEF CommitOne, BranchCommand
  <2>5. branch' \in [Branches -> Histories]
    <3> DEFINE c == Run[op.i] \union IF op.kind = "deliver" /\ op.i = 1 THEN Base ELSE {}
    <3>1. c \in SUBSET Changed BY <2>2, RunTyped
    <3>2. CommitInWorktree(c) BY <1>5 DEF CommitOne
    <3> HIDE DEF c
    <3> QED BY <2>1, <3>1, <3>2, CommitInWorktreeTyped
  <2> QED BY <1>5, <2>4, <2>5 DEF CommitOne, CommitInWorktree, TypeOK, ghosts
<1>6. CASE CommitFails
  <2>1. op \in BranchCommand BY <1>6, KindOfCommand DEF CommitFails, Running
  <2>2. op' \in BranchCommand BY <1>6, <2>1, BranchMoves DEF CommitFails, Fails
  <2> QED BY <1>6, <2>2 DEF CommitFails, TypeOK, repo, ghosts
<1>7. CASE \E opened \in BOOLEAN : Push(opened)
  <2>1. op \in BranchCommand BY <1>7, KindOfCommand DEF Push, Running
  <2>2. op' \in BranchCommand BY <1>7, <2>1, BranchMoves DEF Push, Fails, To
  <2>3. remote' \in [Branches -> Histories] BY <1>7, <2>1 DEF Push, TypeOK, BranchCommand
  <2> QED BY <1>7, <2>2, <2>3 DEF Push, TypeOK, ghosts
<1>8. CASE PushFails
  <2>1. op \in BranchCommand BY <1>8, KindOfCommand DEF PushFails, Running
  <2>2. op' \in BranchCommand BY <1>8, <2>1, BranchMoves DEF PushFails, Fails
  <2> QED BY <1>8, <2>2 DEF PushFails, TypeOK, repo, ghosts
<1>9. CASE RemoveWorktree
  <2>1. op \in BranchCommand BY <1>9, KindOfCommand DEF RemoveWorktree, Running
  <2>2. op' \in BranchCommand BY <1>9, <2>1, BranchMoves DEF RemoveWorktree, To
  <2> QED BY <1>9, <2>2 DEF RemoveWorktree, TypeOK, ghosts
<1> QED
  BY <1>1, <1>2, <1>3, <1>4, <1>5, <1>6, <1>7, <1>8, <1>9 DEF BranchNext, DeliverNext

LEMMA BeginMergeTyped ==
    ASSUME TypeOK, NEW strategy \in {"cherry-pick", "squash", "worktree"},
           NEW allowDirty \in BOOLEAN, NEW into \in {"here"} \union Branches,
           Merge(strategy, into, allowDirty)
    PROVE  op' \in MergeCommand /\ TypeOK'
<1> DEFINE target == IF into = "here" THEN at ELSE into
           first == IF target # at THEN "checkout" ELSE IF Dirty THEN "stash" ELSE "apply"
           was == [at |-> at, branch |-> branch, tree |-> tree]
<1>1. target \in Branches /\ History(target) \in Histories
  BY DEF Merge, TypeOK, History
<1>2. was \in [at: Branches \union {Detached}, branch: [Branches -> Histories],
                tree: SUBSET Changed]
  BY DEF TypeOK
<1>3. op' = [kind |-> "merge", ok |-> TRUE, strategy |-> strategy, i |-> 1, step |-> first,
             target |-> target, rollback |-> History(target), entry |-> {},
             named |-> FALSE, gone |-> FALSE, before |-> was]
  BY DEF Merge
<1>4. first \in {"checkout", "stash", "apply"} OBVIOUS
<1> HIDE DEF target, first, was
<1>5. op' \in MergeCommand BY <1>1, <1>2, <1>3, <1>4, RunTyped DEF MergeCommand
<1> QED BY <1>5 DEF TypeOK, Merge, repo, ghosts

LEMMA MergeTyped == ASSUME TypeOK, MergeNext PROVE TypeOK'
<1>1. CASE \E strategy \in {"cherry-pick", "squash", "worktree"}, allowDirty \in BOOLEAN,
              into \in {"here"} \union Branches : Merge(strategy, into, allowDirty)
  BY <1>1, BeginMergeTyped
<1>2. CASE CheckoutTarget
  <2>1. op \in MergeCommand BY <1>2, KindOfCommand DEF CheckoutTarget, Running
  <2>2. op' \in MergeCommand BY <1>2, <2>1, MergeMoves DEF CheckoutTarget, To, Fails
  <2>3. at' \in Branches \union {Detached}
    BY <1>2, <2>1 DEF CheckoutTarget, TypeOK, MergeCommand
  <2> QED BY <1>2, <2>2, <2>3 DEF CheckoutTarget, TypeOK, ghosts
<1>3. CASE Stash
  <2>1. op \in MergeCommand BY <1>3, KindOfCommand DEF Stash, Running
  <2>2. op' \in MergeCommand BY <1>3, <2>1 DEF Stash, MergeCommand, TypeOK
  <2> QED BY <1>3, <2>2 DEF Stash, TypeOK, ghosts
<1>4. CASE ApplyDiff
  <2>1. op \in MergeCommand BY <1>4, KindOfCommand DEF ApplyDiff, Running
  <2>2. op.i \in 1 .. Len(Run) BY <2>1, RunTyped DEF MergeCommand
  <2>3. op.i < Len(Run) => op.i + 1 \in DOMAIN Run BY <2>2, RunTyped
  <2>4. op' \in MergeCommand BY <1>4, <2>1, <2>3 DEF ApplyDiff, Applied, MergeCommand
  <2>5. tree' \subseteq Changed BY <1>4, <2>2, RunTyped DEF ApplyDiff, TypeOK
  <2> QED BY <1>4, <2>4, <2>5 DEF ApplyDiff, TypeOK, ghosts
<1>5. CASE CommitMerged
  <2>1. op \in MergeCommand BY <1>5, KindOfCommand DEF CommitMerged, Running
  <2>2. op.i \in 1 .. Len(Run) BY <2>1, RunTyped DEF MergeCommand
  <2>3. op.i < Len(Run) => op.i + 1 \in DOMAIN Run BY <2>2, RunTyped
  <2>4. op' \in MergeCommand BY <1>5, <2>1, <2>3 DEF CommitMerged, Applied, MergeCommand
  <2>5. Staged \subseteq Changed BY DEF Staged, TypeOK
  <2>6. at \in Branches => Append(branch[at], <<commands, Staged>>) \in Histories
    BY <2>5, AppendTyped DEF TypeOK
  <2>7. branch' \in [Branches -> Histories] BY <1>5, <2>6 DEF CommitMerged, TypeOK
  <2> QED BY <1>5, <2>4, <2>7 DEF CommitMerged, TypeOK, ghosts
<1>6. CASE MergeFails
  <2>1. op \in MergeCommand BY <1>6, KindOfCommand DEF MergeFails
  <2>2. op' \in MergeCommand BY <1>6, <2>1, MergeMoves DEF MergeFails, Fails
  <2>3. index' \subseteq Changed BY <1>6 DEF MergeFails, Staged, TypeOK
  <2> QED BY <1>6, <2>2, <2>3 DEF MergeFails, TypeOK, ghosts
<1>7. CASE Rollback
  <2>1. op \in MergeCommand BY <1>7, KindOfCommand DEF Rollback, Running
  <2>2. op' \in MergeCommand
    BY <1>7, <2>1, MergeMoves DEF Rollback, To, AfterRollback, Applied
  <2>3. branch' \in [Branches -> Histories] BY <1>7, <2>1 DEF Rollback, TypeOK, MergeCommand
  <2>4. tree' \subseteq Changed BY <1>7 DEF Rollback, Untracked, TypeOK
  <2>5. discarded' \subseteq Mine
    BY <1>7, DeliveryAssumption DEF Rollback, Lost, TypeOK
  <2> QED BY <1>7, <2>2, <2>3, <2>4, <2>5 DEF Rollback, TypeOK
<1>8. CASE ReturnToBranch
  <2>1. op \in MergeCommand BY <1>8, KindOfCommand DEF ReturnToBranch, Running
  <2>2. op' \in MergeCommand BY <1>8, <2>1, MergeMoves DEF ReturnToBranch, To, Applied
  <2>3. at' \in Branches \union {Detached}
    BY <1>8, <2>1 DEF ReturnToBranch, TypeOK, MergeCommand
  <2> QED BY <1>8, <2>2, <2>3 DEF ReturnToBranch, TypeOK, ghosts
<1>9. CASE \E done \in BOOLEAN : WriteRecovery(done) \/ Restore(done)
  <2>1. PICK done \in BOOLEAN : WriteRecovery(done) \/ Restore(done) BY <1>9
  <2>2. op \in MergeCommand BY <2>1, KindOfCommand DEF WriteRecovery, Restore, Running
  <2>3. op' \in MergeCommand
    <3>1. CASE WriteRecovery(done) BY <2>2, <3>1 DEF WriteRecovery, MergeCommand
    <3>2. CASE Restore(done)
      <4>1. (~(done /\ op.ok)) \in BOOLEAN BY Zenon
      <4>2. op' = [op EXCEPT !.step = "done", !.named = ~(done /\ op.ok)]
        BY <3>2 DEF Restore
      <4> QED BY <2>2, <4>1, <4>2 DEF MergeCommand
    <3> QED BY <2>1, <3>1, <3>2
  <2>4. tree' \subseteq Changed
    BY <2>1, <2>2 DEF WriteRecovery, Restore, MergeCommand, TypeOK, repo
  <2> QED BY <2>1, <2>3, <2>4 DEF WriteRecovery, Restore, TypeOK, repo, ghosts
<1> QED
  BY <1>1, <1>2, <1>3, <1>4, <1>5, <1>6, <1>7, <1>8, <1>9 DEF MergeNext

LEMMA NextTyped == ASSUME TypeOK, [Next]_vars PROVE TypeOK'
<1>1. CASE UserNext BY <1>1, UserTyped
<1>2. CASE BranchNext \/ DeliverNext BY <1>2, BranchTyped
<1>3. CASE MergeNext BY <1>3, MergeTyped
<1>4. CASE Kill BY <1>4 DEF Kill, TypeOK, repo, ghosts
<1>5. CASE UNCHANGED vars BY <1>5 DEF vars, TypeOK
<1> QED BY <1>1, <1>2, <1>3, <1>4, <1>5 DEF Next

\* Every reachable state of the repository and of the command on it is well
\* typed, whatever the run and the user do.
THEOREM TypeCorrect == Spec => []TypeOK
BY InitTyped, NextTyped, PTL DEF Spec

-----------------------------------------------------------------------------
(* Where the user's work is. *)

Busy(steps) == op.kind = "merge" /\ op.step \in steps

\* What is the user's anywhere, he has made.
Known == Kept \intersect Mine \subseteq mine

\* A change is committed where the user is, or it is not.
Apart == tree \intersect Changes(History(at)) = {}

\* Where the user is there is a branch, and no worktree has it.
Free == at \in Branches => branch[at] # Absent /\ \A w \in wts : w[2] # at

\* The branch that is being made is the worktree's.
Placed == op.kind \in {"deliver", "apply"} /\ op.step \in {"base", "commit", "push"} =>
              <<Place, op.branch>> \in wts

\* What a merge remembers of the time before.
Recorded ==
    op.kind = "merge" =>
      /\ op.rollback = op.before.branch[op.target] /\ op.rollback # Absent
      /\ op.before.at \in Branches => /\ op.before.branch[op.before.at] # Absent
                                      /\ \A w \in wts : w[2] # op.before.at
      /\ op.entry \intersect Mine \subseteq mine

\* Until the first diff nothing is different, and the tree is clean or stashed.
NotBegun ==
    Busy({"checkout", "stash", "recovery"}) =>
      /\ branch = op.before.branch
      /\ op.step # "checkout" => at = op.target
      /\ op.step = "checkout" => tree \subseteq Config \union late
      /\ op.step = "recovery" => tree \subseteq late

\* From then on what the user has in the tree or on the branch is old, or he has
\* made it since, or it is nothing that a merge stashes.
Working ==
    Busy({"apply", "commit", "rollback"}) =>
      /\ at = op.target
      /\ \A b \in Branches \ {op.target} : branch[b] = op.before.branch[b]
      /\ Changes(op.rollback) \subseteq Changes(branch[op.target])
      /\ Changes(branch[op.target]) \intersect Mine \subseteq Changes(op.rollback) \union late
      /\ tree \intersect Mine \subseteq Config \union late

RolledBack == Busy({"return"}) => branch = op.before.branch

Inv == /\ TypeOK /\ Known /\ Apart /\ Free /\ Placed
       /\ Recorded /\ NotBegun /\ Working /\ RolledBack /\ WorkIsKept

LEMMA InKept ==
    \A x : x \in Kept <=> \/ x \in tree \/ \E entry \in stash : x \in entry
                          \/ \E b \in Branches : x \in Changes(branch[b])
BY DEF Kept

LEMMA InKeptNext ==
    \A x : x \in Kept' <=> \/ x \in tree' \/ \E entry \in stash' : x \in entry
                           \/ \E b \in Branches : x \in Changes(branch'[b])
BY DEF Kept, Changes

LEMMA NoMerge == ASSUME op'.kind # "merge" PROVE (Recorded /\ NotBegun /\ Working /\ RolledBack)'
BY DEF Recorded, NotBegun, Working, RolledBack, Busy

LEMMA NoBranchCommand == ASSUME op'.kind \notin {"deliver", "apply"} PROVE Placed'
BY DEF Placed

LEMMA NotAbsent == ASSUME NEW h \in Histories, NEW n \in Nat, NEW c PROVE Append(h, <<n, c>>) # Absent
<1> SUFFICES ASSUME Append(h, <<n, c>>) = Absent PROVE FALSE OBVIOUS
<1> DEFINE g == Append(h, <<n, c>>)
<1>1. Len(g) = Len(h) + 1 /\ g[Len(h) + 1] = <<n, c>> /\ Len(h) \in Nat
  BY DEF Histories
<1>2. Len(Absent) = 1 /\ Absent[1] = <<-1, {}>> BY DEF Absent
<1>3. g[1] = <<n, c>> BY <1>1, <1>2
<1> QED BY <1>2, <1>3

LEMMA InitInv == Init => Inv
<1> SUFFICES ASSUME Init PROVE Inv OBVIOUS
<1>1. TypeOK BY InitTyped
<1>2. \A b \in Branches : Changes(branch[b]) = {} BY AbsentTyped DEF Init
<1>3. Kept = {} BY <1>2 DEF Kept, Init
<1>4. Free
  <2>1. at \in Branches => at = Main /\ Main # Out BY DeliveryAssumption DEF Init
  <2>2. <<>> # Absent BY DEF Absent
  <2> QED BY <2>1, <2>2 DEF Init, Free
<1>5. Apart BY DEF Init, Apart
<1>6. Placed /\ Recorded /\ NotBegun /\ Working /\ RolledBack
  BY DEF Init, Idle, Placed, Recorded, NotBegun, Working, RolledBack, Busy
<1>7. Known /\ WorkIsKept BY <1>3 DEF Known, WorkIsKept, Init
<1> QED BY <1>1, <1>4, <1>5, <1>6, <1>7 DEF Inv

LEMMA UserKeepsInv == ASSUME Inv, UserNext PROVE Inv'
<1> USE DEF Inv
<1>1. TypeOK' BY UserTyped
<1>2. CASE \E x \in Mine : Edit(x)
  <2>1. PICK x \in Mine : Edit(x) BY <1>2
  <2>2. /\ x \notin mine /\ tree' = tree \union {x} /\ mine' = mine \union {x}
        /\ UNCHANGED <<branch, at, stash, wts, discarded>>
    BY <2>1 DEF Edit
  <2>3. Kept' = Kept \union {x} BY <2>2 DEF Kept
  <2>4. Known' /\ WorkIsKept' BY <2>2, <2>3 DEF Known, WorkIsKept
  <2>5. Apart'
    <3>1. x \notin Changes(History(at))
      <4>1. x \notin Kept BY <2>2 DEF Known
      <4>2. CASE at = Detached BY <4>2, AbsentTyped DEF History
      <4>3. CASE at \in Branches 
        <5>1. History(at) = branch[at] BY <4>3, DeliveryAssumption DEF History
        <5> QED BY <4>1, <4>3, <5>1, InKept
      <4> QED BY <4>2, <4>3 DEF TypeOK
    <3>2. Changes(History(at))' = Changes(History(at)) BY <2>2 DEF History
    <3> QED BY <2>2, <3>1, <3>2 DEF Apart
  <2>6. Free' BY <2>2 DEF Free
  <2>7. CASE op' = Idle
    <3>1. op'.kind = "none" BY <2>7 DEF Idle
    <3> QED BY <1>1, <2>4, <2>5, <2>6, <3>1, NoMerge, NoBranchCommand
  <2>8. CASE op.kind = "merge" /\ op' = op /\ late' = late \union {x}
    <3>1. Placed' BY <2>8, NoBranchCommand
    <3>2. Recorded' BY <2>2, <2>8 DEF Recorded
    <3>3. NotBegun' BY <2>2, <2>8 DEF NotBegun, Busy
    <3>4. Working' BY <2>2, <2>8 DEF Working, Busy
    <3>5. RolledBack' BY <2>2, <2>8 DEF RolledBack, Busy
    <3> QED BY <1>1, <2>4, <2>5, <2>6, <3>1, <3>2, <3>3, <3>4, <3>5
  <2> QED BY <2>1, <2>7, <2>8 DEF Edit, Between
<1>3. CASE Commit
  <2>1. /\ at \in Branches /\ branch[at] \in Histories /\ tree \subseteq Changed
        /\ branch' = [branch EXCEPT ![at] = Append(@, <<0, tree>>)] /\ tree' = {}
        /\ UNCHANGED <<at, stash, wts, mine, late, discarded>>
    BY <1>3 DEF TypeOK, Commit, ghosts
  <2>2. /\ Changes(Append(branch[at], <<0, tree>>)) = Changes(branch[at]) \union tree
        /\ Append(branch[at], <<0, tree>>) # Absent
    BY <2>1, AppendTyped, NotAbsent
  <2> DEFINE h == Append(branch[at], <<0, tree>>)
  <2>3. \A b \in Branches : branch'[b] = IF b = at THEN h ELSE branch[b]
    BY <2>1 DEF TypeOK
  <2> HIDE DEF h
  <2>4. \A x : x \in Kept' <=> x \in Kept
    BY <2>1, <2>2, <2>3, InKept, InKeptNext DEF h
  <2>5. Known' /\ WorkIsKept' BY <2>1, <2>4 DEF Known, WorkIsKept
  <2>6. Apart' BY <2>1 DEF Apart
  <2>7. Free' BY <2>1, <2>2, <2>3 DEF Free, h
  <2>8. op'.kind = "none" BY <1>3 DEF Commit, Between, Idle
  <2> QED BY <1>1, <2>5, <2>6, <2>7, <2>8, NoMerge, NoBranchCommand
<1>4. CASE \E b \in Branches : Switch(b)
  <2>1. PICK b \in Branches : Switch(b) BY <1>4
  <2>2. UNCHANGED <<branch, tree, stash, wts, mine, late, discarded>> /\ at' = b
    BY <2>1 DEF Switch, ghosts
  <2>3. Known' /\ WorkIsKept' BY <2>2 DEF Known, WorkIsKept, Kept
  <2>4. Apart' BY <2>1, <2>2, DeliveryAssumption DEF Apart, Switch, CanCheckout, History
  <2>5. Free' BY <2>1, <2>2 DEF Free, Switch, CanCheckout
  <2>6. op'.kind = "none" BY <2>1 DEF Switch, Between, Idle
  <2> QED BY <1>1, <2>3, <2>4, <2>5, <2>6, NoMerge, NoBranchCommand
<1> QED BY <1>2, <1>3, <1>4 DEF UserNext

\* A step that only moves the command leaves the repository's facts alone.
LEMMA RepoSame ==
    ASSUME Inv, UNCHANGED <<branch, at, tree, stash, wts, mine, late, discarded>>
    PROVE  (Known /\ Apart /\ Free /\ WorkIsKept)'
BY DEF Inv, Known, Apart, Free, WorkIsKept, Kept, History

\* What a commit in the worktree does.
LEMMA CommitInWorktreeKeeps ==
    ASSUME Inv, op.kind \in {"deliver", "apply"}, op.step \in {"base", "commit"},
           NEW c \in SUBSET Changed, c \intersect Mine = {}, CommitInWorktree(c)
    PROVE  /\ (Known /\ Apart /\ Free /\ WorkIsKept)'
           /\ branch'[op.branch] = Append(branch[op.branch], <<commands, c>>)
<1> USE DEF Inv
<1>1. op \in BranchCommand BY KindOfCommand
<1>2. op.branch \in Branches /\ branch[op.branch] \in Histories /\ commands \in Nat
  BY <1>1 DEF BranchCommand, TypeOK
<1>3. UNCHANGED <<at, tree, stash, wts, mine, late, discarded>>
  BY DEF CommitInWorktree, ghosts
<1> DEFINE h == Append(branch[op.branch], <<commands, c>>)
<1>4. \A b \in Branches : branch'[b] = IF b = op.branch THEN h ELSE branch[b]
  BY <1>2 DEF CommitInWorktree, TypeOK
<1>5. Changes(h) = Changes(branch[op.branch]) \union c BY <1>2, AppendTyped
<1>6. op.branch # at
  <2>1. <<Place, op.branch>> \in wts BY DEF Placed
  <2>2. at \in Branches => \A w \in wts : w[2] # at BY DEF Free
  <2> QED BY <1>2, <2>1, <2>2
<1> HIDE DEF h
<1>7. \A x \in Mine : x \in Kept' <=> x \in Kept
  BY <1>2, <1>3, <1>4, <1>5, InKept, InKeptNext
<1>8. Known' BY <1>3, <1>7 DEF Known
<1>9. WorkIsKept' BY <1>3, <1>7 DEF WorkIsKept, TypeOK
<1>10. Apart'
  <2>1. History(at)' = History(at) BY <1>3, <1>4, <1>6 DEF History, TypeOK
  <2> QED BY <1>3, <2>1 DEF Apart
<1>11. Free' BY <1>3, <1>4, <1>6 DEF Free
<1> QED BY <1>2, <1>4, <1>8, <1>9, <1>10, <1>11 DEF h

LEMMA BranchKeepsInv == ASSUME Inv, BranchNext \/ DeliverNext PROVE Inv'
<1> USE DEF Inv
<1>1. TypeOK' BY BranchTyped
<1>2. CASE \E b \in Branches, push \in BOOLEAN : Deliver(b, push) \/ RunApply(b, push)
  <2>1. PICK kind \in {"deliver", "apply"}, b \in Branches, push \in BOOLEAN :
            Begin(kind, b, push)
    BY <1>2 DEF Deliver, RunApply
  <2>2. UNCHANGED <<branch, at, tree, stash, wts, mine, late, discarded>>
    BY <2>1 DEF Begin, repo, ghosts
  <2>3. op'.kind \in {"deliver", "apply"} /\ op'.step \in {"clear", "add"}
    BY <2>1 DEF Begin
  <2>4. Placed' BY <2>3 DEF Placed
  <2> QED BY <1>1, <2>2, <2>3, <2>4, NoMerge, RepoSame
<1>3. CASE ClearBranch
  <2>1. op \in BranchCommand /\ op' = [op EXCEPT !.step = "add"]
    BY <1>3, KindOfCommand DEF ClearBranch, Running, To
  <2>2. op'.kind = op.kind /\ op'.kind # "merge" /\ op'.step = "add" BY <2>1 DEF BranchCommand
  <2>3. Placed' BY <2>2 DEF Placed
  <2> DEFINE b == op.branch
  <2>4. b \in Branches BY <2>1 DEF BranchCommand
  <2>5. UNCHANGED <<at, tree, stash, mine>> /\ wts' \subseteq wts BY <1>3 DEF ClearBranch
  <2>6. CASE UNCHANGED <<branch, discarded>>
    <3>1. (Known /\ WorkIsKept)' BY <2>5, <2>6 DEF Known, WorkIsKept, Kept
    <3>2. (Apart /\ Free)' BY <2>5, <2>6 DEF Apart, Free, History
    <3> QED BY <1>1, <2>2, <2>3, <3>1, <3>2, NoMerge
  <2>7. CASE /\ at # b /\ branch' = [branch EXCEPT ![b] = Absent]
             /\ discarded' = discarded \union (mine \intersect Changes(branch[b]))
    <3>1. \A c \in Branches : branch'[c] = IF c = b THEN Absent ELSE branch[c]
      BY <2>4, <2>7 DEF TypeOK
    <3>2. \A x : x \in Kept' => x \in Kept
      BY <2>5, <3>1, InKept, InKeptNext, AbsentTyped
    <3>3. \A x : x \in Kept => x \in Kept' \/ x \in Changes(branch[b])
      BY <2>5, <3>1, InKept, InKeptNext
    <3>4. Known' BY <2>5, <3>2 DEF Known
    <3>5. WorkIsKept' BY <2>5, <2>7, <3>3 DEF WorkIsKept
    <3>6. Apart'
      <4>1. History(at)' = History(at) BY <2>5, <2>7, <3>1 DEF History, TypeOK
      <4> QED BY <2>5, <4>1 DEF Apart
    <3>7. Free' BY <2>5, <2>7, <3>1 DEF Free
    <3> QED BY <1>1, <2>2, <2>3, <3>4, <3>5, <3>6, <3>7, NoMerge
  <2> QED BY <1>3, <2>6, <2>7 DEF ClearBranch
<1>4. CASE AddWorktree
  <2>1. op \in BranchCommand BY <1>4, KindOfCommand DEF AddWorktree, Running
  <2>2. UNCHANGED <<at, tree, stash, mine, late, discarded>> BY <1>4 DEF AddWorktree, ghosts
  <2> DEFINE b == op.branch
  <2>3. b \in Branches /\ op.kind \in {"deliver", "apply"} BY <2>1 DEF BranchCommand
  <2>4. CASE branch[b] = Absent /\ \A w \in wts : w[1] # Place
    <3>1. /\ branch' = [branch EXCEPT ![b] = <<>>] /\ wts' = wts \union {<<Place, b>>}
          /\ \E s \in {"base", "commit"} : op' = [op EXCEPT !.step = s]
      BY <1>4, <2>4 DEF AddWorktree, To
    <3>2. op'.kind = op.kind /\ op'.branch = b /\ op'.kind # "merge"
      BY <2>1, <3>1 DEF BranchCommand
    <3>3. Placed' BY <3>1, <3>2 DEF Placed, Place
    <3>4. \A c \in Branches : branch'[c] = IF c = b THEN <<>> ELSE branch[c]
      BY <2>3, <3>1 DEF TypeOK
    <3>5. \A x : x \in Kept' <=> x \in Kept
      BY <2>2, <2>4, <3>4, InKept, InKeptNext, AbsentTyped
    <3>6. (Known /\ WorkIsKept)' BY <2>2, <3>5 DEF Known, WorkIsKept
    <3>7. at # b BY <2>3, <2>4 DEF Free
    <3>8. Apart'
      <4>1. History(at)' = History(at) BY <2>2, <3>4, <3>7 DEF History, TypeOK
      <4> QED BY <2>2, <4>1 DEF Apart
    <3>9. Free' BY <2>2, <3>1, <3>4, <3>7 DEF Free
    <3> QED BY <1>1, <3>2, <3>3, <3>6, <3>8, <3>9, NoMerge
  <2>5. CASE ~(branch[b] = Absent /\ \A w \in wts : w[1] # Place)
    <3>1. op' = [op EXCEPT !.step = "done", !.ok = FALSE] /\ UNCHANGED <<branch, wts>>
      BY <1>4, <2>5 DEF AddWorktree, Fails
    <3>2. op'.kind = op.kind /\ op'.step = "done" /\ op'.kind # "merge"
      BY <2>1, <3>1 DEF BranchCommand
    <3>3. Placed' BY <3>2 DEF Placed
    <3> QED BY <1>1, <2>2, <3>1, <3>2, <3>3, NoMerge, RepoSame
  <2> QED BY <2>4, <2>5
<1>5. CASE CommitBase
  <2>1. op \in BranchCommand /\ op' = [op EXCEPT !.step = "commit"] /\ CommitInWorktree(Base)
    BY <1>5, KindOfCommand DEF CommitBase, Running, To
  <2>2. op.kind \in {"deliver", "apply"} /\ op.step \in {"base", "commit"}
    BY <1>5 DEF CommitBase, Running
  <2>3. op'.kind = op.kind /\ op'.branch = op.branch BY <2>1 DEF BranchCommand
  <2>4. Placed' BY <2>1, <2>2, <2>3 DEF Placed, Place, CommitInWorktree
  <2>5. op'.kind # "merge" BY <2>2, <2>3
  <2> QED BY <1>1, <2>1, <2>2, <2>4, <2>5, RunTyped, CommitInWorktreeKeeps, NoMerge
<1>6. CASE CommitOne
  <2> DEFINE c == Run[op.i] \union IF op.kind = "deliver" /\ op.i = 1 THEN Base ELSE {}
  <2>1. op \in BranchCommand /\ CommitInWorktree(c)
    BY <1>6, KindOfCommand DEF CommitOne, Running
  <2>2. op.kind \in {"deliver", "apply"} /\ op.step = "commit"
    BY <1>6 DEF CommitOne, Running
  <2>3. op'.kind = op.kind /\ op'.branch = op.branch BY <1>6, <2>1 DEF CommitOne, BranchCommand
  <2>4. op.i \in DOMAIN Run BY <2>1 DEF BranchCommand
  <2>5. c \in SUBSET Changed /\ c \intersect Mine = {} BY <2>4, RunTyped
  <2>6. UNCHANGED wts BY <1>6 DEF CommitOne, CommitInWorktree
  <2>7. Placed' BY <2>2, <2>3, <2>6 DEF Placed, Place
  <2>8. op'.kind # "merge" BY <2>2, <2>3
  <2> HIDE DEF c
  <2> QED BY <1>1, <2>1, <2>2, <2>5, <2>7, <2>8, CommitInWorktreeKeeps, NoMerge
<1>7. CASE CommitFails \/ PushFails
  <2>1. op \in BranchCommand /\ op' = [op EXCEPT !.step = "remove", !.ok = FALSE]
    BY <1>7, KindOfCommand DEF CommitFails, PushFails, Running, Fails
  <2>2. op'.kind # "merge" /\ op'.step = "remove" BY <2>1 DEF BranchCommand
  <2>3. Placed' BY <2>2 DEF Placed
  <2>4. UNCHANGED <<branch, at, tree, stash, wts, mine, late, discarded>>
    BY <1>7 DEF CommitFails, PushFails, repo, ghosts
  <2> QED BY <1>1, <2>2, <2>3, <2>4, NoMerge, RepoSame
<1>8. CASE \E opened \in BOOLEAN : Push(opened)
  <2>1. op \in BranchCommand BY <1>8, KindOfCommand DEF Push, Running
  <2>2. op'.kind # "merge" /\ op'.step = "remove"
    BY <1>8, <2>1 DEF Push, Fails, To, BranchCommand
  <2>3. Placed' BY <2>2 DEF Placed
  <2>4. UNCHANGED <<branch, at, tree, stash, wts, mine, late, discarded>>
    BY <1>8 DEF Push, ghosts
  <2> QED BY <1>1, <2>2, <2>3, <2>4, NoMerge, RepoSame
<1>9. CASE RemoveWorktree
  <2>1. op \in BranchCommand /\ op' = [op EXCEPT !.step = "done"]
    BY <1>9, KindOfCommand DEF RemoveWorktree, Running, To
  <2>2. op'.kind # "merge" /\ op'.step = "done" BY <2>1 DEF BranchCommand
  <2>3. Placed' BY <2>2 DEF Placed
  <2>4. UNCHANGED <<branch, at, tree, stash, mine, late, discarded>> /\ wts' \subseteq wts
    BY <1>9 DEF RemoveWorktree, ghosts
  <2>5. (Known /\ WorkIsKept)' BY <2>4 DEF Known, WorkIsKept, Kept
  <2>6. (Apart /\ Free)' BY <2>4 DEF Apart, Free, History
  <2> QED BY <1>1, <2>2, <2>3, <2>5, <2>6, NoMerge
<1> QED
  BY <1>2, <1>3, <1>4, <1>5, <1>6, <1>7, <1>8, <1>9 DEF BranchNext, DeliverNext

\* What a step that changes no more than the command needs to show.
LEMMA MergeMovesOn ==
    ASSUME Recorded, op.kind = "merge", op'.kind = "merge", op'.rollback = op.rollback,
           op'.before = op.before, op'.target = op.target,
           op'.entry = op.entry, UNCHANGED <<wts, mine>>
    PROVE  Recorded' /\ Placed'
BY NoBranchCommand DEF Recorded

LEMMA BeginMergeKeepsInv ==
    ASSUME Inv, NEW strategy \in {"cherry-pick", "squash", "worktree"},
           NEW allowDirty \in BOOLEAN, NEW into \in {"here"} \union Branches,
           Merge(strategy, into, allowDirty)
    PROVE  Inv'
<1> USE DEF Inv
<1>1. TypeOK' BY BeginMergeTyped
<1>2. UNCHANGED <<branch, at, tree, stash, wts, mine, late, discarded>>
  BY DEF Merge, repo, ghosts
<1> DEFINE target == IF into = "here" THEN at ELSE into
<1>3. /\ target \in Branches /\ target # Detached /\ History(target) = branch[target]
      /\ branch[target] # Absent
  BY DeliveryAssumption DEF Merge, TypeOK, History
<1>4. /\ op'.kind = "merge" /\ op'.target = target /\ op'.rollback = branch[target]
      /\ op'.entry = {}
      /\ op'.before.at = at /\ op'.before.branch = branch
      /\ op'.step = IF target # at THEN "checkout" ELSE IF Dirty THEN "stash" ELSE "apply"
      /\ Dirty => target = at
  BY <1>3 DEF Merge
<1> HIDE DEF target
<1>5. Placed' BY <1>4, NoBranchCommand
<1>6. Recorded' BY <1>2, <1>3, <1>4 DEF Recorded, Free
<1>7. ~Dirty => tree \subseteq Config BY DEF Dirty
<1>8. NotBegun' BY <1>2, <1>4, <1>7 DEF NotBegun, Busy
<1>9. Working' BY <1>2, <1>4, <1>7 DEF Working, Busy, Changes
<1>10. RolledBack' BY <1>4 DEF RolledBack, Busy
<1> QED BY <1>1, <1>2, <1>5, <1>6, <1>8, <1>9, <1>10, RepoSame

LEMMA MergeKeepsInv == ASSUME Inv, MergeNext PROVE Inv'
<1> USE DEF Inv
<1>1. TypeOK' BY MergeTyped
<1>2. CASE \E strategy \in {"cherry-pick", "squash", "worktree"}, allowDirty \in BOOLEAN,
              into \in {"here"} \union Branches : Merge(strategy, into, allowDirty)
  BY <1>2, BeginMergeKeepsInv
<1>3. CASE CheckoutTarget
  <2>1. op \in MergeCommand /\ op.kind = "merge" /\ op.step = "checkout"
    BY <1>3, KindOfCommand DEF CheckoutTarget, Running
  <2>2. UNCHANGED <<branch, tree, stash, wts, mine, late, discarded>>
    BY <1>3 DEF CheckoutTarget, ghosts
  <2>3. op.target \in Branches /\ op.target # Detached
    BY <2>1, DeliveryAssumption DEF MergeCommand
  <2>4. CASE CanCheckout(op.target)
    <3>1. at' = op.target /\ op' = [op EXCEPT !.step = "apply"]
      BY <1>3, <2>4 DEF CheckoutTarget, To
    <3>2. /\ op'.kind = "merge" /\ op'.step = "apply" /\ op'.target = op.target
          /\ op'.rollback = op.rollback /\ op'.before = op.before /\ op'.entry = op.entry
      BY <2>1, <3>1 DEF MergeCommand
    <3>3. Recorded' /\ Placed' BY <2>1, <2>2, <3>2, MergeMovesOn
    <3>4. branch = op.before.branch /\ tree \subseteq Config \union late
      BY <2>1 DEF NotBegun, Busy
    <3>5. op.rollback = branch[op.target] /\ op.rollback # Absent
      BY <2>1, <3>4 DEF Recorded
    <3>6. Working' BY <2>2, <3>1, <3>2, <3>4, <3>5 DEF Working, Busy, Changes
    <3>7. NotBegun' /\ RolledBack' BY <3>2 DEF NotBegun, RolledBack, Busy
    <3>8. (Known /\ WorkIsKept)' BY <2>2 DEF Known, WorkIsKept, Kept
    <3>9. Apart' BY <2>2, <2>3, <2>4, <3>1 DEF Apart, CanCheckout, History
    <3>10. Free' BY <2>2, <2>4, <3>1, <3>5 DEF Free, CanCheckout
    <3> QED BY <1>1, <3>3, <3>6, <3>7, <3>8, <3>9, <3>10
  <2>5. CASE ~CanCheckout(op.target)
    <3>1. op' = [op EXCEPT !.step = "done", !.ok = FALSE] /\ UNCHANGED at
      BY <1>3, <2>5 DEF CheckoutTarget, Fails
    <3>2. /\ op'.kind = "merge" /\ op'.step = "done" /\ op'.target = op.target
          /\ op'.rollback = op.rollback /\ op'.before = op.before /\ op'.entry = op.entry
      BY <2>1, <3>1 DEF MergeCommand
    <3>3. Recorded' /\ Placed' BY <2>1, <2>2, <3>2, MergeMovesOn
    <3>4. (NotBegun /\ Working /\ RolledBack)'
      BY <3>2 DEF NotBegun, Working, RolledBack, Busy
    <3> QED BY <1>1, <2>2, <3>1, <3>3, <3>4, RepoSame
  <2> QED BY <2>4, <2>5
<1>4. CASE Stash
  <2>1. op \in MergeCommand /\ op.kind = "merge" /\ op.step = "stash"
    BY <1>4, KindOfCommand DEF Stash, Running
  <2>2. /\ UNCHANGED <<branch, at, wts, mine, late, discarded>>
        /\ stash' = stash \union {tree} /\ tree' = {}
        /\ op' = [op EXCEPT !.step = "recovery", !.entry = tree]
    BY <1>4 DEF Stash, ghosts
  <2>3. /\ op'.kind = "merge" /\ op'.step = "recovery" /\ op'.target = op.target
        /\ op'.rollback = op.rollback /\ op'.before = op.before /\ op'.entry = tree
    BY <2>1, <2>2 DEF MergeCommand
  <2>4. \A x : x \in Kept' <=> x \in Kept BY <2>2, InKept, InKeptNext
  <2>5. (Known /\ WorkIsKept)' BY <2>2, <2>4 DEF Known, WorkIsKept
  <2>6. (Apart /\ Free)' BY <2>2 DEF Apart, Free, History
  <2>7. tree \intersect Mine \subseteq mine BY InKept DEF Known
  <2>8. Recorded' BY <2>1, <2>2, <2>3, <2>7 DEF Recorded
  <2>9. Placed' BY <2>3, NoBranchCommand
  <2>10. NotBegun' BY <2>1, <2>2, <2>3 DEF NotBegun, Busy
  <2>11. (Working /\ RolledBack)' BY <2>3 DEF Working, RolledBack, Busy
  <2> QED BY <1>1, <2>5, <2>6, <2>8, <2>9, <2>10, <2>11
<1>5. CASE ApplyDiff
  <2>1. op \in MergeCommand /\ op.kind = "merge" /\ op.step = "apply"
    BY <1>5, KindOfCommand DEF ApplyDiff, Running
  <2>2. /\ UNCHANGED <<branch, at, stash, wts, mine, late, discarded>>
        /\ tree' = tree \union Run[op.i] /\ Run[op.i] \intersect There = {}
    BY <1>5 DEF ApplyDiff, ghosts
  <2>3. Run[op.i] \intersect Mine = {} BY <2>1, RunTyped DEF MergeCommand
  <2>4. /\ op'.kind = "merge" /\ op'.step \in {"apply", "commit", "restore", "done"}
        /\ op'.target = op.target
        /\ op'.rollback = op.rollback /\ op'.before = op.before /\ op'.entry = op.entry
    BY <1>5, <2>1 DEF ApplyDiff, Applied, MergeCommand
  <2>5. Recorded' /\ Placed' BY <2>1, <2>2, <2>4, MergeMovesOn
  <2>6. \A x \in Mine : x \in Kept' <=> x \in Kept BY <2>2, <2>3, InKept, InKeptNext
  <2>7. Known' BY <2>2, <2>6 DEF Known
  <2>8. WorkIsKept' BY <2>2, <2>6 DEF WorkIsKept, TypeOK
  <2>9. Apart' BY <2>2 DEF Apart, History, There
  <2>10. Free' BY <2>2 DEF Free
  <2>11. Working' BY <2>1, <2>2, <2>3, <2>4 DEF Working, Busy
  <2>12. (NotBegun /\ RolledBack)' BY <2>4 DEF NotBegun, RolledBack, Busy
  <2> QED BY <1>1, <2>5, <2>7, <2>8, <2>9, <2>10, <2>11, <2>12
<1>6. CASE CommitMerged
  <2>1. op \in MergeCommand /\ op.kind = "merge" /\ op.step = "commit"
    BY <1>6, KindOfCommand DEF CommitMerged, Running
  <2>2. /\ UNCHANGED <<at, stash, wts, mine, late, discarded>> /\ tree' = tree \ Staged
        /\ branch' = IF Staged = {} THEN branch
                     ELSE [branch EXCEPT ![at] = Append(@, <<commands, Staged>>)]
    BY <1>6 DEF CommitMerged, ghosts
  <2>3. /\ op'.kind = "merge" /\ op'.step \in {"apply", "restore", "done"}
        /\ op'.target = op.target
        /\ op'.rollback = op.rollback /\ op'.before = op.before /\ op'.entry = op.entry
    BY <1>6, <2>1 DEF CommitMerged, Applied, MergeCommand
  <2>4. Recorded' /\ Placed' BY <2>1, <2>2, <2>3, MergeMovesOn
  <2>5. at = op.target /\ at \in Branches /\ at # Detached
    BY <2>1, DeliveryAssumption DEF Working, Busy, MergeCommand
  <2>6. Staged \subseteq tree /\ Staged \intersect Config = {} BY DEF Staged
  <2> DEFINE h == Append(branch[at], <<commands, Staged>>)
  <2>7. Changes(h) = Changes(branch[at]) \union Staged /\ h # Absent
    <3>1. /\ branch[at] \in Histories /\ commands \in Nat
          /\ Staged \in SUBSET Changed
      BY <2>5, <2>6 DEF TypeOK
    <3> QED BY <3>1, AppendTyped, NotAbsent
  <2> HIDE DEF h
  <2>8. /\ \A b \in Branches \ {at} : branch'[b] = branch[b]
        /\ Changes(branch'[at]) = Changes(branch[at]) \union Staged
        /\ branch[at] # Absent => branch'[at] # Absent
    <3>1. CASE Staged = {} BY <2>2, <3>1
    <3>2. CASE Staged # {}
      <4>1. branch' = [branch EXCEPT ![at] = h] BY <2>2, <3>2 DEF h
      <4> QED BY <2>5, <2>7, <4>1 DEF TypeOK
    <3> QED BY <3>1, <3>2
  <2>9. \A x : x \in Kept' <=> x \in Kept
    BY <2>2, <2>5, <2>6, <2>8, InKept, InKeptNext
  <2>10. (Known /\ WorkIsKept)' BY <2>2, <2>9 DEF Known, WorkIsKept
  <2>11. Apart' BY <2>2, <2>5, <2>8 DEF Apart, History
  <2>12. Free' BY <2>2, <2>5, <2>8 DEF Free
  <2>13. Working'
    <3>1. /\ \A b \in Branches \ {op.target} : branch[b] = op.before.branch[b]
          /\ Changes(op.rollback) \subseteq Changes(branch[op.target])
          /\ Changes(branch[op.target]) \intersect Mine \subseteq Changes(op.rollback) \union late
          /\ tree \intersect Mine \subseteq Config \union late
      BY <2>1 DEF Working, Busy
    <3>2. Changes(branch'[at]) \intersect Mine \subseteq Changes(op.rollback) \union late
      BY <2>5, <2>6, <2>8, <3>1
    <3>3. Changes(op.rollback) \subseteq Changes(branch'[at]) BY <2>5, <2>8, <3>1
    <3>4. Changes(op.rollback)' = Changes(op.rollback) /\ op'.target = at BY <2>3, <2>5 DEF Changes
    <3>5. Changes(branch[op.target])' = Changes(branch'[at]) BY <3>4 DEF Changes
    <3> QED BY <2>2, <2>3, <2>5, <2>8, <3>1, <3>2, <3>3, <3>4, <3>5 DEF Working, Busy
  <2>14. (NotBegun /\ RolledBack)' BY <2>3 DEF NotBegun, RolledBack, Busy
  <2> QED BY <1>1, <2>4, <2>10, <2>11, <2>12, <2>13, <2>14
<1>7. CASE MergeFails
  <2>1. op \in MergeCommand /\ op.kind = "merge" /\ op.step \in {"apply", "commit"}
    BY <1>7, KindOfCommand DEF MergeFails
  <2>2. UNCHANGED <<branch, at, tree, stash, wts, mine, late, discarded>>
    BY <1>7 DEF MergeFails, ghosts
  <2>3. /\ op'.kind = "merge" /\ op'.step = "rollback" /\ op'.target = op.target
        /\ op'.rollback = op.rollback /\ op'.before = op.before /\ op'.entry = op.entry
    BY <1>7, <2>1 DEF MergeFails, Fails, MergeCommand
  <2>4. Recorded' /\ Placed' BY <2>1, <2>2, <2>3, MergeMovesOn
  <2>5. Working' BY <2>1, <2>2, <2>3 DEF Working, Busy, Changes
  <2>6. (NotBegun /\ RolledBack)' BY <2>3 DEF NotBegun, RolledBack, Busy
  <2> QED BY <1>1, <2>2, <2>4, <2>5, <2>6, RepoSame
<1>8. CASE Rollback
  <2>1. op \in MergeCommand /\ op.kind = "merge" /\ op.step = "rollback"
    BY <1>8, KindOfCommand DEF Rollback, Running
  <2>2. /\ UNCHANGED <<at, stash, wts, mine, late>> /\ tree' = Untracked
        /\ branch' = [branch EXCEPT ![at] = op.rollback]
        /\ discarded' = discarded \union Lost(op.rollback)
    BY <1>8 DEF Rollback
  <2>3. /\ op'.kind = "merge" /\ op'.step \in {"return", "restore", "done"}
        /\ op'.target = op.target
        /\ op'.rollback = op.rollback /\ op'.before = op.before /\ op'.entry = op.entry
    BY <1>8, <2>1 DEF Rollback, To, AfterRollback, Applied, MergeCommand
  <2>4. Recorded' /\ Placed' BY <2>1, <2>2, <2>3, MergeMovesOn
  <2>5. /\ at = op.target
        /\ \A b \in Branches \ {op.target} : branch[b] = op.before.branch[b]
        /\ Changes(op.rollback) \subseteq Changes(branch[op.target])
        /\ Changes(branch[op.target]) \intersect Mine \subseteq Changes(op.rollback) \union late
        /\ tree \intersect Mine \subseteq Config \union late
    BY <2>1 DEF Working, Busy
  <2>6. /\ at \in Branches /\ at # Detached
        /\ op.before.branch \in [Branches -> Histories]
    BY <2>1, <2>5, DeliveryAssumption DEF MergeCommand
  <2>7. \A b \in Branches : branch'[b] = IF b = at THEN op.rollback ELSE branch[b]
    BY <2>2, <2>6 DEF TypeOK
  <2>8. op.rollback = op.before.branch[op.target] /\ op.rollback # Absent
    BY <2>1 DEF Recorded
  <2>9. Untracked \subseteq tree BY DEF Untracked
  <2>10. \A x : x \in Kept' => x \in Kept
    BY <2>2, <2>5, <2>6, <2>7, <2>9, InKept, InKeptNext
  <2>11. Known' BY <2>2, <2>10 DEF Known
  <2>12. There = tree \union Changes(branch[at]) BY <2>6 DEF There, History
  <2>13. \A x \in mine : x \in Kept => x \in Kept' \/ x \in Lost(op.rollback)
    <3> TAKE x \in mine
    <3> HAVE x \in Kept
    <3>1. x \in Mine BY DEF TypeOK
    <3>2. CASE x \in tree \/ x \in Changes(branch[at])
      <4>1. x \in There BY <2>12, <3>2
      <4>2. x \in Config \union late \/ x \in Changes(op.rollback) BY <2>5, <3>1, <3>2
      <4>3. \/ x \in Untracked \/ x \in Changes(op.rollback) \/ x \in Lost(op.rollback)
        BY <4>1, <4>2 DEF Lost
      <4>4. x \in Untracked => x \in Kept' BY <2>2, InKeptNext
      <4>5. x \in Changes(op.rollback) => x \in Kept'
        BY <2>6, <2>7, InKeptNext
      <4> QED BY <4>3, <4>4, <4>5
    <3>3. CASE x \notin tree /\ x \notin Changes(branch[at])
      BY <2>2, <2>7, <3>3, InKept, InKeptNext
    <3> QED BY <3>2, <3>3
  <2>14. WorkIsKept' BY <2>2, <2>13 DEF WorkIsKept
  <2>15. Apart'
    <3>1. at' = at /\ at \in Branches /\ branch'[at] = op.rollback BY <2>2, <2>6, <2>7
    <3>2. History(at)' = op.rollback BY <2>6, <3>1 DEF History
    <3>3. Changes(History(at))' = Changes(op.rollback) BY <3>2 DEF Changes
    <3>4. tree \intersect Changes(branch[at]) = {} BY <2>6 DEF Apart, History
    <3> QED BY <2>2, <2>5, <2>9, <3>3, <3>4 DEF Apart
  <2>16. Free' BY <2>2, <2>7, <2>8 DEF Free
  <2>17. RolledBack'
    <3>1. branch' \in [Branches -> Histories] BY <1>1 DEF TypeOK
    <3>2. \A b \in Branches : branch'[b] = op.before.branch[b] BY <2>5, <2>7, <2>8
    <3>3. branch' = op.before.branch BY <2>6, <3>1, <3>2
    <3> QED BY <2>3, <3>3 DEF RolledBack
  <2>18. (NotBegun /\ Working)' BY <2>3 DEF NotBegun, Working, Busy
  <2> QED BY <1>1, <2>4, <2>11, <2>14, <2>15, <2>16, <2>17, <2>18
<1>9. CASE ReturnToBranch
  <2>1. op \in MergeCommand /\ op.kind = "merge" /\ op.step = "return"
    BY <1>9, KindOfCommand DEF ReturnToBranch, Running
  <2>2. /\ UNCHANGED <<branch, tree, stash, wts, mine, late, discarded>>
        /\ at' = IF CanCheckout(op.before.at) THEN op.before.at ELSE at
    BY <1>9 DEF ReturnToBranch, ghosts
  <2>3. /\ op'.kind = "merge" /\ op'.step \in {"restore", "done"} /\ op'.target = op.target
        /\ op'.rollback = op.rollback /\ op'.before = op.before /\ op'.entry = op.entry
    BY <1>9, <2>1 DEF ReturnToBranch, To, Applied, MergeCommand
  <2>4. Recorded' /\ Placed' BY <2>1, <2>2, <2>3, MergeMovesOn
  <2>5. (Known /\ WorkIsKept)' BY <2>2 DEF Known, WorkIsKept, Kept
  <2>6. (NotBegun /\ Working /\ RolledBack)' BY <2>3 DEF NotBegun, Working, RolledBack, Busy
  <2>7. branch = op.before.branch BY <2>1 DEF RolledBack, Busy
  <2>8. CASE CanCheckout(op.before.at)
    <3>1. at' = op.before.at BY <2>2, <2>8
    <3>2. Free'
      <4>1. op.before.at \in Branches => /\ op.before.branch[op.before.at] # Absent
                                         /\ \A w \in wts : w[2] # op.before.at
        BY <2>1 DEF Recorded
      <4> QED BY <2>2, <2>7, <3>1, <4>1 DEF Free
    <3>3. Apart'
      <4>1. CASE op.before.at = Detached
        BY <3>1, <4>1, AbsentTyped DEF Apart, History, Changes
      <4>2. CASE op.before.at # Detached
        BY <2>2, <2>8, <3>1, <4>2 DEF Apart, History, CanCheckout
      <4> QED BY <4>1, <4>2
    <3> QED BY <1>1, <2>4, <2>5, <2>6, <3>2, <3>3
  <2>9. CASE ~CanCheckout(op.before.at)
    BY <1>1, <2>2, <2>4, <2>6, <2>9, RepoSame
  <2> QED BY <2>8, <2>9
<1>10. CASE \E written \in BOOLEAN : WriteRecovery(written)
  <2>1. PICK written \in BOOLEAN : WriteRecovery(written) BY <1>10
  <2>2. op \in MergeCommand /\ op.kind = "merge" /\ op.step = "recovery"
    BY <2>1, KindOfCommand DEF WriteRecovery, Running
  <2>3. UNCHANGED <<branch, at, tree, stash, wts, mine, late, discarded>>
    BY <2>1 DEF WriteRecovery, repo, ghosts
  <2>4. /\ op'.kind = "merge" /\ op'.step \in {"apply", "done"} /\ op'.target = op.target
        /\ op'.rollback = op.rollback /\ op'.before = op.before /\ op'.entry = op.entry
    BY <2>1, <2>2 DEF WriteRecovery, MergeCommand
  <2>5. Recorded' /\ Placed' BY <2>2, <2>3, <2>4, MergeMovesOn
  <2>6. branch = op.before.branch /\ at = op.target /\ tree \subseteq late
    BY <2>2 DEF NotBegun, Busy
  <2>7. op.rollback = branch[op.target] BY <2>2, <2>6 DEF Recorded
  <2>8. Working' BY <2>3, <2>4, <2>6, <2>7 DEF Working, Busy, Changes
  <2>9. (NotBegun /\ RolledBack)' BY <2>4 DEF NotBegun, RolledBack, Busy
  <2> QED BY <1>1, <2>3, <2>5, <2>8, <2>9, RepoSame
<1>11. CASE \E restored \in BOOLEAN : Restore(restored)
  <2>1. PICK restored \in BOOLEAN : Restore(restored) BY <1>11
  <2>2. op \in MergeCommand /\ op.kind = "merge"
    BY <2>1, KindOfCommand DEF Restore, Running
  <2>3. /\ UNCHANGED <<branch, at, stash, wts, mine, late, discarded>>
        /\ restored => op.entry \intersect There = {}
        /\ tree' = IF restored THEN tree \union op.entry ELSE tree
        /\ op' = [op EXCEPT !.step = "done", !.named = ~(restored /\ op.ok)]
    BY <2>1 DEF Restore, ghosts
  <2>4. /\ op'.kind = "merge" /\ op'.step = "done" /\ op'.target = op.target
        /\ op'.rollback = op.rollback /\ op'.before = op.before /\ op'.entry = op.entry
    BY <2>2, <2>3 DEF MergeCommand
  <2>5. Recorded' /\ Placed' BY <2>2, <2>3, <2>4, MergeMovesOn
  <2>6. (NotBegun /\ Working /\ RolledBack)' BY <2>4 DEF NotBegun, Working, RolledBack, Busy
  <2>7. op.entry \intersect Mine \subseteq mine BY <2>2 DEF Recorded
  <2>8. Known' BY <2>3, <2>7, InKept, InKeptNext DEF Known
  <2>9. \A x : x \in Kept => x \in Kept' BY <2>3, InKept, InKeptNext
  <2>10. WorkIsKept' BY <2>3, <2>9 DEF WorkIsKept
  <2>11. Apart' BY <2>3 DEF Apart, There, History
  <2>12. Free' BY <2>3 DEF Free
  <2> QED BY <1>1, <2>5, <2>6, <2>8, <2>10, <2>11, <2>12
<1> QED
  BY <1>2, <1>3, <1>4, <1>5, <1>6, <1>7, <1>8, <1>9, <1>10, <1>11 DEF MergeNext

LEMMA KillKeepsInv == ASSUME Inv, Kill \/ UNCHANGED vars PROVE Inv'
<1> USE DEF Inv
<1>1. CASE Kill
  <2>1. UNCHANGED <<branch, at, tree, stash, wts, mine, late, discarded>> /\ op' = Idle
    BY <1>1 DEF Kill, repo, ghosts
  <2>2. op'.kind = "none" BY <2>1 DEF Idle
  <2>3. TypeOK' BY <1>1, NextTyped DEF Next
  <2> QED BY <2>1, <2>2, <2>3, NoMerge, NoBranchCommand, RepoSame
<1>2. CASE UNCHANGED vars
  <2>1. UNCHANGED <<branch, at, tree, stash, wts, op, mine, late, discarded>>
    BY <1>2 DEF vars
  <2>2. TypeOK' BY <1>2, NextTyped
  <2>3. (Placed /\ Recorded /\ NotBegun /\ Working /\ RolledBack)'
    BY <2>1 DEF Placed, Place, Recorded, NotBegun, Working, RolledBack, Busy, Changes
  <2> QED BY <2>1, <2>2, <2>3, RepoSame
<1> QED BY <1>1, <1>2

\* Whatever fails or is interrupted, and whatever the user does between the
\* commands and while a merge runs: each change of the user is in the working
\* tree, in a stash entry or in a commit, or is one of the three exceptions
\* that WorkIsKept names.
THEOREM WorkSurvives == Spec => []WorkIsKept
<1>1. Inv /\ [Next]_vars => Inv'
  BY UserKeepsInv, BranchKeepsInv, MergeKeepsInv, KillKeepsInv DEF Next
<1>2. Inv => WorkIsKept BY DEF Inv
<1> QED BY InitInv, <1>1, <1>2, PTL DEF Spec

-----------------------------------------------------------------------------
(* What a merge that fails leaves. *)

Ran == UNION Range(Run)

\* The base patch is only ever in commits.
NoBase == tree \union (UNION stash) \subseteq Mine \union Ran

\* The stash entry of a merge holds the tree before it.
Entered ==
    op.kind = "merge" =>
      /\ op.step \in {"checkout", "stash", "recovery", "apply", "commit"} => op.ok
      /\ op.entry # {} => /\ op.entry \in stash
                          /\ op.before.tree \subseteq op.entry
                          /\ op.entry \subseteq op.before.tree \union late
                          /\ op.target = op.before.at
      /\ op.step = "restore" => op.entry # {}
      /\ op.entry = {} /\ op.step # "stash" => op.before.tree \subseteq Config
      /\ \A b \in Branches : Changes(op.before.branch[b]) \intersect Mine \subseteq mine

\* Until the first diff the user is where he was, with what he had.
Opening ==
    Busy({"checkout", "stash", "recovery"}) =>
      /\ at = op.before.at
      /\ op.step # "recovery" => /\ op.entry = {} /\ op.before.tree \subseteq tree
                                 /\ tree \subseteq op.before.tree \union late
      /\ op.step = "stash" => op.target = at /\ op.before.tree # {}
      /\ op.step = "recovery" => op.entry # {}

\* From then on, what he had and no stash entry holds is in the tree.
InHand ==
    Busy({"apply", "commit", "rollback"}) =>
      /\ tree \intersect Mine \subseteq (op.before.tree \intersect Config) \union late
      /\ op.entry = {} => op.before.tree \subseteq tree

\* Nothing of his keeps a merge from going back.
Returnable ==
    Busy({"apply", "commit", "rollback", "return"}) /\ op.before.at \in Branches =>
        tree \intersect Mine \intersect Changes(op.before.branch[op.before.at]) = {}

\* A merge that commits each diff leaves no new file of the run behind.
Picking ==
    op.kind = "merge" /\ op.strategy = "cherry-pick" =>
      /\ op.step = "apply" => tree \intersect Ran = {}
      /\ op.step = "rollback" => Untracked \intersect Ran = {}

Undone ==
    Busy({"return", "restore"}) /\ (op.step = "restore" => ~op.ok) =>
      /\ branch = op.before.branch
      /\ tree \subseteq op.before.tree \union late \union Leftovers
      /\ op.step = "return" => /\ op.before.at \in Branches /\ op.entry = {}
                               /\ op.before.tree \ discarded \subseteq tree
      /\ op.step = "restore" => at = op.before.at

Reversible == /\ Inv /\ NoBase /\ Entered /\ Opening /\ InHand /\ Returnable
              /\ Picking /\ Undone /\ FailedMergeRestores

\* Those of them that are about a merge.
OfMerge == Entered /\ Opening /\ InHand /\ Returnable /\ Picking /\ Undone /\ FailedMergeRestores

LEMMA RanTyped == /\ \A i \in DOMAIN Run : Run[i] \subseteq Ran
                  /\ Ran \intersect Mine = {} /\ Config \subseteq Mine
BY RunTyped, DeliveryAssumption DEF Ran, Range

LEMMA NoMergeAtAll == ASSUME op'.kind # "merge" PROVE OfMerge'
BY DEF OfMerge, Entered, Opening, InHand, Returnable, Picking, Undone, FailedMergeRestores,
       Ended, Busy

LEMMA InitReversible == Init => Reversible
<1> SUFFICES ASSUME Init PROVE Reversible OBVIOUS
<1>1. op.kind # "merge" BY DEF Init, Idle
<1>2. OfMerge
  BY <1>1 DEF OfMerge, Entered, Opening, InHand, Returnable, Picking, Undone,
              FailedMergeRestores, Ended, Busy
<1>3. NoBase BY DEF Init, NoBase
<1> QED BY <1>2, <1>3, InitInv DEF Reversible, OfMerge

LEMMA UserKeepsReversible == ASSUME Reversible, Inv', UserNext PROVE Reversible'
<1> USE DEF Reversible
<1>1. CASE \E x \in Mine : Edit(x)
  <2>1. PICK x \in Mine : Edit(x) BY <1>1
  <2>2. /\ x \notin mine /\ tree' = tree \union {x} /\ mine' = mine \union {x}
        /\ UNCHANGED <<branch, at, index, stash, wts, discarded>>
    BY <2>1 DEF Edit
  <2>3. NoBase' BY <2>2 DEF NoBase
  <2>4. CASE op' = Idle
    BY <2>3, <2>4, NoMergeAtAll DEF Idle, OfMerge
  <2>5. CASE op.kind = "merge" /\ op.step # "done" /\ op' = op /\ late' = late \union {x}
    <3>1. Entered' BY <2>2, <2>5 DEF Entered, Changes
    <3>2. Opening' BY <2>2, <2>5 DEF Opening, Busy
    <3>3. InHand' BY <2>2, <2>5 DEF InHand, Busy
    <3>4. \A b \in Branches : x \notin Changes(op.before.branch[b])
      BY <2>2, <2>5 DEF Entered
    <3>5. Returnable' BY <2>2, <2>5, <3>4 DEF Returnable, Busy, Changes
    <3>6. x \notin Ran BY RanTyped
    <3>7. Picking' BY <2>2, <2>5, <3>6 DEF Picking, Untracked
    <3>8. Undone' BY <2>2, <2>5 DEF Undone, Busy, Leftovers
    <3>9. FailedMergeRestores' BY <2>5 DEF FailedMergeRestores, Ended
    <3> QED BY <2>3, <3>1, <3>2, <3>3, <3>5, <3>7, <3>8, <3>9
  <2> QED BY <2>1, <2>4, <2>5 DEF Edit, Between
<1>2. CASE Commit \/ \E b \in Branches : Switch(b)
  <2>1. op' = Idle /\ UNCHANGED stash /\ tree' \subseteq tree
    BY <1>2 DEF Commit, Switch, Between
  <2>2. NoBase' BY <2>1 DEF NoBase
  <2> QED BY <2>1, <2>2, NoMergeAtAll DEF Idle, OfMerge
<1> QED BY <1>1, <1>2 DEF UserNext

LEMMA NotAMerge ==
    ASSUME TypeOK, BranchNext \/ DeliverNext
    PROVE  op'.kind # "merge" /\ UNCHANGED <<tree, stash>>
<1>1. CASE \E b \in Branches, push \in BOOLEAN : Deliver(b, push) \/ RunApply(b, push)
  BY <1>1 DEF Deliver, RunApply, Begin, repo
<1>2. CASE BranchNext /\ ~\E b \in Branches, push \in BOOLEAN : RunApply(b, push)
  <2>1. op \in BranchCommand /\ op.kind \in {"deliver", "apply"}
    BY <1>2, KindOfCommand DEF BranchNext, ClearBranch, AddWorktree, CommitBase, CommitOne,
       CommitFails, Push, PushFails, RemoveWorktree, Running
  <2>2. op'.kind = op.kind
    BY <1>2, <2>1 DEF BranchNext, ClearBranch, AddWorktree, CommitBase, CommitOne,
       CommitFails, Push, PushFails, RemoveWorktree, To, Fails, BranchCommand
  <2>3. UNCHANGED <<tree, stash>>
    BY <1>2 DEF BranchNext, ClearBranch, AddWorktree, CommitBase, CommitOne,
       CommitFails, Push, PushFails, RemoveWorktree, CommitInWorktree, repo
  <2> QED BY <2>1, <2>2, <2>3
<1> QED BY <1>1, <1>2 DEF BranchNext, DeliverNext

LEMMA BranchKeepsReversible ==
    ASSUME Reversible, Inv', BranchNext \/ DeliverNext PROVE Reversible'
<1> USE DEF Reversible
<1>1. UNCHANGED <<tree, stash>> /\ op'.kind # "merge" BY NotAMerge DEF Inv
<1>2. NoBase' BY <1>1 DEF NoBase
<1> QED BY <1>1, <1>2, NoMergeAtAll DEF OfMerge

LEMMA BeginMergeReversible ==
    ASSUME Reversible, Inv', NEW strategy \in {"cherry-pick", "squash", "worktree"},
           NEW allowDirty \in BOOLEAN, NEW into \in {"here"} \union Branches,
           Merge(strategy, into, allowDirty)
    PROVE  Reversible'
<1> USE DEF Reversible
<1>1. UNCHANGED <<branch, at, tree, index, stash, wts, mine, late, discarded>>
  BY DEF Merge, repo, ghosts
<1> DEFINE target == IF into = "here" THEN at ELSE into
<1>2. /\ op'.kind = "merge" /\ op'.target = target /\ op'.ok = TRUE /\ op'.entry = {}
      /\ op'.before.at = at /\ op'.before.branch = branch /\ op'.before.tree = tree
      /\ op'.step = IF target # at THEN "checkout" ELSE IF Dirty THEN "stash" ELSE "apply"
      /\ Dirty => target = at
  BY DEF Merge
<1> HIDE DEF target
<1>3. NoBase' BY <1>1 DEF NoBase
<1>4. ~Dirty => tree \subseteq Config BY DEF Dirty
<1>5. \A b \in Branches : Changes(branch[b]) \intersect Mine \subseteq mine
  BY InKept DEF Inv, Known
<1>6. Entered' BY <1>1, <1>2, <1>4, <1>5 DEF Entered, Changes
<1>7. Dirty => tree # {} BY DEF Dirty
<1>8. Opening' BY <1>1, <1>2, <1>7 DEF Opening, Busy
<1>9. InHand' BY <1>1, <1>2, <1>4 DEF InHand, Busy
<1>10. Returnable'
  <2>1. at \in Branches => tree \intersect Changes(branch[at]) = {}
    BY DeliveryAssumption DEF Inv, Apart, History
  <2> QED BY <1>1, <1>2, <2>1 DEF Returnable, Busy, Changes
<1>11. Picking' BY <1>1, <1>2, <1>4, RanTyped DEF Picking
<1>12. (Undone /\ FailedMergeRestores)'
  BY <1>2 DEF Undone, FailedMergeRestores, Ended, Busy
<1> QED BY <1>3, <1>6, <1>8, <1>9, <1>10, <1>11, <1>12

LEMMA MergeKeepsReversible == ASSUME Reversible, Inv', MergeNext PROVE Reversible'
<1> USE DEF Reversible
<1>1. CASE \E strategy \in {"cherry-pick", "squash", "worktree"}, allowDirty \in BOOLEAN,
              into \in {"here"} \union Branches : Merge(strategy, into, allowDirty)
  BY <1>1, BeginMergeReversible
<1>2. CASE CheckoutTarget
  <2>1. op \in MergeCommand /\ op.kind = "merge" /\ op.step = "checkout"
    BY <1>2, KindOfCommand DEF CheckoutTarget, Running, Inv
  <2>2. UNCHANGED <<branch, tree, index, stash, wts, mine, late, discarded>>
    BY <1>2 DEF CheckoutTarget, ghosts
  <2>3. /\ branch = op.before.branch /\ at = op.before.at
        /\ op.entry = {} /\ op.before.tree \subseteq tree
        /\ tree \subseteq op.before.tree \union late /\ tree \subseteq Config \union late
        /\ op.before.tree \subseteq Config /\ op.ok
    BY <2>1 DEF Opening, Busy, Inv, NotBegun, Entered
  <2>4. NoBase' BY <2>2 DEF NoBase
  <2>5. late \subseteq Mine BY DEF Inv, TypeOK
  <2>6. CASE op' = [op EXCEPT !.step = "apply"]
    <3>1. /\ op'.kind = "merge" /\ op'.step = "apply" /\ op'.ok = op.ok
          /\ op'.before = op.before /\ op'.entry = op.entry /\ op'.target = op.target
      BY <2>1, <2>6 DEF MergeCommand
    <3>2. Entered' BY <2>1, <2>2, <2>3, <3>1 DEF Entered, Changes
    <3>3. Opening' BY <3>1 DEF Opening, Busy
    <3>4. InHand' BY <2>2, <2>3, <3>1 DEF InHand, Busy
    <3>5. op.before.at \in Branches =>
             tree \intersect Changes(op.before.branch[op.before.at]) = {}
      BY <2>3, DeliveryAssumption DEF Inv, Apart, History
    <3>6. Returnable' BY <2>2, <3>1, <3>5 DEF Returnable, Busy, Changes
    <3>7. tree \intersect Ran = {} BY <2>3, <2>5, RanTyped
    <3>8. Picking' BY <2>2, <3>1, <3>7 DEF Picking
    <3>9. (Undone /\ FailedMergeRestores)'
      BY <3>1 DEF Undone, FailedMergeRestores, Ended, Busy
    <3> QED BY <2>4, <3>2, <3>3, <3>4, <3>6, <3>8, <3>9
  <2>7. CASE op' = [op EXCEPT !.step = "done", !.ok = FALSE] /\ UNCHANGED at
    <3>1. /\ op'.kind = "merge" /\ op'.step = "done"
          /\ op'.before = op.before /\ op'.entry = op.entry /\ op'.target = op.target
      BY <2>1, <2>7 DEF MergeCommand
    <3>2. Entered' BY <2>1, <2>2, <2>3, <3>1 DEF Entered, Changes
    <3>3. (Opening /\ InHand /\ Returnable /\ Picking /\ Undone)'
      BY <3>1 DEF Opening, InHand, Returnable, Picking, Undone, Busy
    <3>4. FailedMergeRestores'
      BY <2>2, <2>3, <2>7, <3>1 DEF FailedMergeRestores
    <3> QED BY <2>4, <3>2, <3>3, <3>4
  <2> QED BY <1>2, <2>6, <2>7 DEF CheckoutTarget, To, Fails
<1>3. CASE Stash
  <2>1. op \in MergeCommand /\ op.kind = "merge" /\ op.step = "stash"
    BY <1>3, KindOfCommand DEF Stash, Running, Inv
  <2>2. /\ UNCHANGED <<branch, at, wts, mine, late, discarded>>
        /\ stash' = stash \union {tree} /\ tree' = {}
        /\ op' = [op EXCEPT !.step = "recovery", !.entry = tree]
    BY <1>3 DEF Stash, ghosts
  <2>3. /\ op'.kind = "merge" /\ op'.step = "recovery" /\ op'.ok = op.ok
        /\ op'.before = op.before /\ op'.entry = tree /\ op'.target = op.target
    BY <2>1, <2>2 DEF MergeCommand
  <2>4. /\ at = op.before.at /\ op.target = at /\ op.before.tree # {}
        /\ op.before.tree \subseteq tree /\ tree \subseteq op.before.tree \union late
    BY <2>1 DEF Opening, Busy
  <2>5. NoBase' BY <2>2 DEF NoBase
  <2>6. Entered' BY <2>1, <2>2, <2>3, <2>4 DEF Entered, Changes
  <2>7. Opening' BY <2>2, <2>3, <2>4 DEF Opening, Busy
  <2>8. (InHand /\ Returnable /\ Picking /\ Undone /\ FailedMergeRestores)'
    BY <2>3 DEF InHand, Returnable, Picking, Undone, FailedMergeRestores, Ended, Busy
  <2> QED BY <2>5, <2>6, <2>7, <2>8
<1>4. CASE ApplyDiff
  <2>1. op \in MergeCommand /\ op.kind = "merge" /\ op.step = "apply"
    BY <1>4, KindOfCommand DEF ApplyDiff, Running, Inv
  <2>2. /\ UNCHANGED <<branch, at, index, stash, wts, mine, late, discarded>>
        /\ tree' = tree \union Run[op.i]
    BY <1>4 DEF ApplyDiff, ghosts
  <2>3. Run[op.i] \subseteq Ran /\ Ran \intersect Mine = {}
    BY <2>1, RanTyped DEF MergeCommand
  <2>4. /\ op'.kind = "merge" /\ op'.step \in {"apply", "commit", "restore", "done"}
        /\ op'.before = op.before /\ op'.entry = op.entry /\ op'.target = op.target
        /\ op'.ok = op.ok /\ op'.strategy = op.strategy
        /\ op'.step = "apply" => op.strategy # "cherry-pick"
        /\ op'.step = "restore" => op.entry # {}
    BY <1>4, <2>1 DEF ApplyDiff, Applied, MergeCommand
  <2>5. op.ok BY <2>1 DEF Entered
  <2>6. NoBase' BY <2>2, <2>3 DEF NoBase
  <2>7. Entered' BY <2>1, <2>2, <2>4 DEF Entered, Changes
  <2>8. Opening' BY <2>4 DEF Opening, Busy
  <2>9. InHand' BY <2>1, <2>2, <2>3, <2>4 DEF InHand, Busy
  <2>10. Returnable' BY <2>1, <2>2, <2>3, <2>4 DEF Returnable, Busy, Changes
  <2>11. Picking' BY <2>4 DEF Picking
  <2>12. (Undone /\ FailedMergeRestores)'
    BY <2>4, <2>5 DEF Undone, FailedMergeRestores, Ended, Busy
  <2> QED BY <2>6, <2>7, <2>8, <2>9, <2>10, <2>11, <2>12
<1>5. CASE CommitMerged
  <2>1. op \in MergeCommand /\ op.kind = "merge" /\ op.step = "commit"
    BY <1>5, KindOfCommand DEF CommitMerged, Running, Inv
  <2>2. UNCHANGED <<at, stash, wts, mine, late, discarded>> /\ tree' = tree \ Staged
    BY <1>5 DEF CommitMerged, ghosts
  <2>3. /\ op'.kind = "merge" /\ op'.step \in {"apply", "restore", "done"}
        /\ op'.before = op.before /\ op'.entry = op.entry /\ op'.target = op.target
        /\ op'.ok = op.ok /\ op'.strategy = op.strategy
        /\ op'.step = "restore" => op.entry # {}
    BY <1>5, <2>1 DEF CommitMerged, Applied, MergeCommand
  <2>4. op.ok BY <2>1 DEF Entered
  <2>5. tree' = tree \intersect Config BY <2>2 DEF Staged
  <2>6. NoBase' BY <2>2, <2>5 DEF NoBase
  <2>7. Entered' BY <2>1, <2>2, <2>3 DEF Entered, Changes
  <2>8. Opening' BY <2>3 DEF Opening, Busy
  <2>9. InHand'
    <3>1. op.entry = {} => op.before.tree \subseteq Config BY <2>1 DEF Entered
    <3> QED BY <2>1, <2>2, <2>3, <2>5, <3>1 DEF InHand, Busy
  <2>10. Returnable' BY <2>1, <2>3, <2>5 DEF Returnable, Busy, Changes
  <2>11. Picking' BY <2>3, <2>5, RanTyped DEF Picking
  <2>12. (Undone /\ FailedMergeRestores)'
    BY <2>3, <2>4 DEF Undone, FailedMergeRestores, Ended, Busy
  <2> QED BY <2>6, <2>7, <2>8, <2>9, <2>10, <2>11, <2>12
<1>6. CASE MergeFails
  <2>1. op \in MergeCommand /\ op.kind = "merge" /\ op.step \in {"apply", "commit"}
    BY <1>6, KindOfCommand DEF MergeFails, Inv
  <2>2. /\ UNCHANGED <<branch, at, tree, stash, wts, mine, late, discarded>>
        /\ index' = IF op.step = "commit" THEN Staged ELSE index
    BY <1>6 DEF MergeFails, ghosts
  <2>3. /\ op'.kind = "merge" /\ op'.step = "rollback"
        /\ op'.before = op.before /\ op'.entry = op.entry /\ op'.target = op.target
        /\ op'.strategy = op.strategy
    BY <1>6, <2>1 DEF MergeFails, Fails, MergeCommand
  <2>4. NoBase' BY <2>2 DEF NoBase
  <2>5. Entered' BY <2>1, <2>2, <2>3 DEF Entered, Changes
  <2>6. (Opening /\ Undone /\ FailedMergeRestores)'
    BY <2>3 DEF Opening, Undone, FailedMergeRestores, Ended, Busy
  <2>7. InHand' BY <2>1, <2>2, <2>3 DEF InHand, Busy
  <2>8. Returnable' BY <2>1, <2>2, <2>3 DEF Returnable, Busy, Changes
  <2>9. Picking'
    <3>1. CASE op.step = "apply" BY <2>1, <2>2, <2>3, <3>1 DEF Picking, Untracked
    <3>2. CASE op.step = "commit"
      BY <2>2, <2>3, <3>2, RanTyped DEF Picking, Untracked, Staged
    <3> QED BY <2>1, <3>1, <3>2
  <2> QED BY <2>4, <2>5, <2>6, <2>7, <2>8, <2>9
<1>7. CASE Rollback
  <2>1. op \in MergeCommand /\ op.kind = "merge" /\ op.step = "rollback"
    BY <1>7, KindOfCommand DEF Rollback, Running, Inv
  <2>2. /\ UNCHANGED <<at, stash, wts, mine, late>> /\ tree' = Untracked
        /\ branch' = [branch EXCEPT ![at] = op.rollback]
        /\ discarded' = discarded \union Lost(op.rollback)
    BY <1>7 DEF Rollback
  <2>3. /\ op'.kind = "merge" /\ op'.step = AfterRollback
        /\ op'.before = op.before /\ op'.entry = op.entry /\ op'.target = op.target
        /\ op'.strategy = op.strategy /\ op'.ok = op.ok
        /\ AfterRollback \in {"return", "restore", "done"}
        /\ op'.named = op.named /\ op'.gone = op.gone
    BY <1>7, <2>1 DEF Rollback, To, AfterRollback, Applied, MergeCommand
  <2>4. /\ at = op.target /\ at \in Branches /\ at # Detached
        /\ Changes(op.rollback) \subseteq Changes(branch[at])
        /\ op.before.branch \in [Branches -> Histories]
        /\ op.before.at \in Branches \union {Detached}
        /\ late \subseteq Mine
    BY <2>1, DeliveryAssumption DEF Inv, TypeOK, Working, Busy, MergeCommand
  <2>5. branch' = op.before.branch
    <3>1. branch' \in [Branches -> Histories] BY DEF Inv, TypeOK
    <3>2. op.rollback = op.before.branch[at] BY <2>1, <2>4 DEF Inv, Recorded
    <3>3. \A b \in Branches \ {at} : branch[b] = op.before.branch[b]
      BY <2>1, <2>4 DEF Inv, Working, Busy
    <3>4. \A b \in Branches : branch'[b] = op.before.branch[b]
      BY <2>2, <2>4, <3>2, <3>3 DEF Inv, TypeOK
    <3> QED BY <2>4, <3>1, <3>4
  <2>6. Untracked \subseteq tree /\ Untracked \subseteq New BY DEF Untracked
  <2>7. tree \intersect Mine \subseteq (op.before.tree \intersect Config) \union late
    BY <2>1 DEF InHand, Busy
  <2>8. Untracked \subseteq op.before.tree \union late \union Leftovers
    <3> SUFFICES ASSUME NEW x \in Untracked PROVE x \in op.before.tree \union late \union Leftovers
      OBVIOUS
    <3>1. x \in Mine \/ x \in Ran BY <2>6 DEF NoBase
    <3>2. CASE x \in Mine BY <2>6, <2>7, <3>2
    <3>3. CASE x \in Ran
      <4>1. op.strategy # "cherry-pick" BY <2>1, <3>3 DEF Picking
      <4> QED BY <2>6, <3>3, <4>1 DEF Leftovers, Ran
    <3> QED BY <3>1, <3>2, <3>3
  <2>9. op.entry = {} => op.before.tree \ discarded' \subseteq Untracked
    <3> SUFFICES ASSUME op.entry = {}, NEW x \in op.before.tree, x \notin discarded'
                 PROVE  x \in Untracked
      OBVIOUS
    <3>1. x \in tree /\ x \in Config BY <2>1 DEF InHand, Busy, Entered
    <3>2. x \in There BY <3>1 DEF There
    <3>3. x \notin Changes(op.rollback) BY <2>4, <3>1 DEF Inv, Apart, History
    <3>4. x \notin Lost(op.rollback) BY <2>2
    <3> QED BY <3>1, <3>2, <3>3, <3>4 DEF Lost
  <2>10. /\ op.entry # {} => /\ op.entry \in stash /\ op.before.tree \subseteq op.entry
                             /\ op.target = op.before.at
         /\ AfterRollback = "return" => op.target # op.before.at /\ op.before.at # Detached
         /\ AfterRollback # "return" => at = op.before.at \/ op.before.at = Detached
         /\ AfterRollback = "restore" <=> AfterRollback # "return" /\ op.entry # {}
    BY <2>1, <2>4 DEF Entered, AfterRollback, Applied
  <2>11. NoBase' BY <2>2, <2>6 DEF NoBase
  <2>12. Entered' BY <2>1, <2>2, <2>3, <2>10 DEF Entered, Changes
  <2>13. (Opening /\ InHand /\ Picking)' BY <2>3 DEF Opening, InHand, Picking, Busy
  <2>14. Returnable' BY <2>1, <2>2, <2>3, <2>6 DEF Returnable, Busy, Changes
  <2>15. Leftovers' = Leftovers BY <2>3 DEF Leftovers
  <2>16. Undone'
    <3>1. AfterRollback = "restore" => at = op.before.at
      BY <2>4, <2>10
    <3>2. AfterRollback = "return" => op.before.at \in Branches /\ op.entry = {}
      BY <2>4, <2>10
    <3> QED BY <2>2, <2>3, <2>5, <2>8, <2>9, <2>15, <3>1, <3>2 DEF Undone, Busy
  <2>17. FailedMergeRestores'
    <3> SUFFICES ASSUME AfterRollback = "done" PROVE FailedMergeRestores'
      BY <2>3 DEF FailedMergeRestores, Ended
    <3>1. op.entry = {} BY <2>10
    <3>2. at = op.before.at \/ op.before.at = Detached BY <2>10
    <3>3. /\ branch' = op'.before.branch
          /\ at' = op'.before.at \/ op'.before.at = Detached
          /\ op'.before.tree \ discarded' \subseteq tree'
          /\ tree' \subseteq op'.before.tree \union late' \union Leftovers'
      BY <2>2, <2>3, <2>5, <2>8, <2>9, <2>15, <3>1, <3>2
    <3> QED BY <3>3 DEF FailedMergeRestores
  <2> QED BY <2>11, <2>12, <2>13, <2>14, <2>16, <2>17
<1>8. CASE ReturnToBranch
  <2>1. op \in MergeCommand /\ op.kind = "merge" /\ op.step = "return"
    BY <1>8, KindOfCommand DEF ReturnToBranch, Running, Inv
  <2>2. /\ UNCHANGED <<branch, tree, stash, wts, mine, late, discarded>>
        /\ at' = IF CanCheckout(op.before.at) THEN op.before.at ELSE at
    BY <1>8 DEF ReturnToBranch, ghosts
  <2>3. /\ branch = op.before.branch /\ op.entry = {} /\ op.before.at \in Branches
        /\ tree \subseteq op.before.tree \union late \union Leftovers
        /\ op.before.tree \ discarded \subseteq tree
        /\ op.before.tree \subseteq Config
    BY <2>1 DEF Undone, Busy, Entered
  <2>4. /\ op'.kind = "merge" /\ op'.step = "done" /\ op'.target = op.target
        /\ op'.before = op.before /\ op'.entry = op.entry /\ op'.strategy = op.strategy
    BY <1>8, <2>1, <2>3 DEF ReturnToBranch, To, Applied, MergeCommand
  <2>5. NoBase' BY <2>2 DEF NoBase
  <2>6. Entered' BY <2>1, <2>2, <2>3, <2>4 DEF Entered, Changes
  <2>7. (Opening /\ InHand /\ Returnable /\ Picking /\ Undone)'
    BY <2>4 DEF Opening, InHand, Returnable, Picking, Undone, Busy
  <2>8. CanCheckout(op.before.at) \/ tree \intersect Leftovers # {}
    <3> SUFFICES ASSUME tree \intersect Leftovers = {} PROVE CanCheckout(op.before.at)
      OBVIOUS
    <3>1. tree \subseteq Mine BY <2>3, RanTyped DEF Inv, TypeOK
    <3>2. tree \intersect Mine \intersect Changes(branch[op.before.at]) = {}
      BY <2>1, <2>3 DEF Returnable, Busy
    <3>3. \A w \in wts : w[2] # op.before.at BY <2>1, <2>3 DEF Inv, Recorded
    <3> QED BY <3>1, <3>2, <3>3 DEF CanCheckout
  <2>9. Leftovers' = Leftovers BY <2>4 DEF Leftovers
  <2>10. FailedMergeRestores' BY <2>2, <2>3, <2>4, <2>8, <2>9 DEF FailedMergeRestores
  <2> QED BY <2>5, <2>6, <2>7, <2>10
<1>9. CASE \E written \in BOOLEAN : WriteRecovery(written)
  <2>1. PICK written \in BOOLEAN : WriteRecovery(written) BY <1>9
  <2>2. op \in MergeCommand /\ op.kind = "merge" /\ op.step = "recovery"
    BY <2>1, KindOfCommand DEF WriteRecovery, Running, Inv
  <2>3. UNCHANGED <<branch, at, tree, index, stash, wts, mine, late, discarded>>
    BY <2>1 DEF WriteRecovery, repo, ghosts
  <2>4. /\ at = op.before.at /\ op.entry # {} /\ branch = op.before.branch
        /\ tree \subseteq late
    BY <2>2 DEF Opening, Inv, NotBegun, Busy
  <2>5. op.entry \in stash /\ op.before.tree \subseteq op.entry
    BY <2>2, <2>4 DEF Entered
  <2>6. NoBase' BY <2>3 DEF NoBase
  <2>7. CASE op' = [op EXCEPT !.step = "apply", !.named = TRUE]
    <3>1. /\ op'.kind = "merge" /\ op'.step = "apply" /\ op'.ok = op.ok
          /\ op'.before = op.before /\ op'.entry = op.entry /\ op'.target = op.target
      BY <2>2, <2>7 DEF MergeCommand
    <3>2. Entered' BY <2>2, <2>3, <3>1 DEF Entered, Changes
    <3>3. (Opening /\ Undone /\ FailedMergeRestores)'
      BY <3>1 DEF Opening, Undone, FailedMergeRestores, Ended, Busy
    <3>4. InHand' BY <2>3, <2>4, <3>1 DEF InHand, Busy
    <3>5. op.before.at \in Branches =>
             tree \intersect Changes(op.before.branch[op.before.at]) = {}
      BY <2>4, DeliveryAssumption DEF Inv, Apart, History
    <3>6. Returnable' BY <2>3, <3>1, <3>5 DEF Returnable, Busy, Changes
    <3>7. tree \intersect Ran = {} BY <2>4, RanTyped DEF Inv, TypeOK
    <3>8. Picking' BY <2>3, <3>1, <3>7 DEF Picking
    <3> QED BY <2>6, <3>2, <3>3, <3>4, <3>6, <3>8
  <2>8. CASE op' = [op EXCEPT !.step = "done", !.ok = FALSE, !.gone = TRUE]
    <3>1. /\ op'.kind = "merge" /\ op'.step = "done" /\ op'.gone = TRUE
          /\ op'.before = op.before /\ op'.entry = op.entry /\ op'.target = op.target
      BY <2>2, <2>8 DEF MergeCommand
    <3>2. Entered' BY <2>2, <2>3, <3>1 DEF Entered, Changes
    <3>3. (Opening /\ InHand /\ Returnable /\ Picking /\ Undone)'
      BY <3>1 DEF Opening, InHand, Returnable, Picking, Undone, Busy
    <3>4. FailedMergeRestores' BY <2>3, <2>4, <2>5, <3>1 DEF FailedMergeRestores
    <3> QED BY <2>6, <3>2, <3>3, <3>4
  <2> QED BY <2>1, <2>7, <2>8 DEF WriteRecovery
<1>10. CASE \E restored \in BOOLEAN : Restore(restored)
  <2>1. PICK restored \in BOOLEAN : Restore(restored) BY <1>10
  <2>2. op \in MergeCommand /\ op.kind = "merge" /\ op.step = "restore"
    BY <2>1, KindOfCommand DEF Restore, Running, Inv
  <2>3. /\ UNCHANGED <<branch, at, index, stash, wts, mine, late, discarded>>
        /\ tree' = IF restored THEN tree \union op.entry ELSE tree
        /\ op' = [op EXCEPT !.step = "done", !.named = ~(restored /\ op.ok)]
    BY <2>1 DEF Restore, ghosts
  <2>4. /\ op'.kind = "merge" /\ op'.step = "done" /\ op'.ok = op.ok
        /\ op'.before = op.before /\ op'.entry = op.entry /\ op'.target = op.target
        /\ op'.strategy = op.strategy
    BY <2>2, <2>3 DEF MergeCommand
  <2>5. ~op.ok => op'.named = TRUE
    <3>1. op'.named = ~(restored /\ op.ok) BY <2>2, <2>3, Zenon DEF MergeCommand
    <3> QED BY <3>1
  <2>6. /\ op.entry # {} /\ op.entry \in stash /\ op.before.tree \subseteq op.entry
        /\ op.entry \subseteq op.before.tree \union late
    BY <2>2 DEF Entered
  <2>7. NoBase' BY <2>3, <2>6 DEF NoBase
  <2>8. Entered' BY <2>2, <2>3, <2>4, <2>6 DEF Entered, Changes
  <2>9. (Opening /\ InHand /\ Returnable /\ Picking /\ Undone)'
    BY <2>4 DEF Opening, InHand, Returnable, Picking, Undone, Busy
  <2>10. Leftovers' = Leftovers BY <2>4 DEF Leftovers
  <2>11. FailedMergeRestores'
    <3> SUFFICES ASSUME ~op.ok PROVE FailedMergeRestores'
      BY <2>4 DEF FailedMergeRestores, Ended
    <3>1. /\ branch = op.before.branch /\ at = op.before.at
          /\ tree \subseteq op.before.tree \union late \union Leftovers
      BY <2>2 DEF Undone, Busy
    <3>2. Named' BY <2>3, <2>4, <2>5, <2>6 DEF Named
    <3>3. tree' \subseteq op'.before.tree \union late' \union Leftovers'
      BY <2>3, <2>4, <2>6, <2>10, <3>1
    <3> QED BY <2>3, <2>4, <3>1, <3>2, <3>3 DEF FailedMergeRestores
  <2> QED BY <2>7, <2>8, <2>9, <2>11
<1> QED
  BY <1>1, <1>2, <1>3, <1>4, <1>5, <1>6, <1>7, <1>8, <1>9, <1>10 DEF MergeNext

LEMMA KillKeepsReversible ==
    ASSUME Reversible, Inv', Kill \/ UNCHANGED vars PROVE Reversible'
<1> USE DEF Reversible
<1>1. CASE Kill
  <2>1. NoBase' BY <1>1 DEF Kill, repo, NoBase
  <2>2. op'.kind = "none" BY <1>1 DEF Kill, Idle
  <2> QED BY <2>1, <2>2, NoMergeAtAll DEF OfMerge
<1>2. CASE UNCHANGED vars
  BY <1>2 DEF vars, NoBase, Entered, Opening, InHand, Returnable, Picking, Undone,
     FailedMergeRestores, Ended, Busy, Named, Leftovers, Untracked, Changes
<1> QED BY <1>1, <1>2

\* A merge that fails, at any step and whatever the user does meanwhile, has
\* left the branches, the checkout and the tree as FailedMergeRestores says.
THEOREM FailedMergesRestore == Spec => []FailedMergeRestores
<1>1. Inv /\ [Next]_vars => Inv'
  BY UserKeepsInv, BranchKeepsInv, MergeKeepsInv, KillKeepsInv DEF Next
<1>2. Reversible /\ [Next]_vars => Reversible'
  <2> SUFFICES ASSUME Reversible, [Next]_vars PROVE Reversible' OBVIOUS
  <2>1. Inv' BY <1>1 DEF Reversible
  <2> QED BY <2>1, UserKeepsReversible, BranchKeepsReversible, MergeKeepsReversible,
             KillKeepsReversible DEF Next
<1>3. Reversible => FailedMergeRestores BY DEF Reversible
<1> QED BY InitReversible, <1>2, <1>3, PTL DEF Spec

-----------------------------------------------------------------------------
(* What a command that succeeds has delivered. *)

LEMMA NoEmptyAbsent == <<>> # Absent /\ Len(<<>>) = 0
BY DEF Absent

\* The commits that `run apply` or the end of a run make.
Whole == IF op.kind = "apply" THEN <<Base>> \o Run ELSE [Run EXCEPT ![1] = @ \union Base]

\* The branch holds the first n of them.
Begun(n) ==
    LET made == branch[op.branch]
    IN  Len(made) = n /\ \A k \in 1 .. n : made[k] = <<commands, Whole[k]>>

UnderWay ==
    op.kind \in {"deliver", "apply"} =>
      /\ op.step \in {"clear", "add", "base"} => op.i = 1
      /\ op.step \in {"clear", "base"} => op.kind = "apply"
      /\ op.step = "base" => branch[op.branch] = <<>>
      /\ op.step = "commit" => Begun(IF op.kind = "apply" THEN op.i ELSE op.i - 1)
      /\ op.step = "push" => Begun(Len(Whole))
      /\ op.step \in {"remove", "done"} /\ op.ok =>
             /\ Begun(Len(Whole))
             /\ op.push => remote[op.branch] = branch[op.branch]

LEMMA RunSeq == Run \in Seq(SUBSET Changed) /\ Base \in SUBSET Changed /\ Ran \in SUBSET Changed
<1>1. Run \in Seq((SUBSET Changed) \ {{}}) BY DeliveryAssumption
<1>2. Run \in Seq(SUBSET Changed) BY <1>1, SeqMonotonic, (SUBSET Changed) \ {{}} \subseteq SUBSET Changed
<1> QED BY <1>2 DEF Changed, Ran

LEMMA WholeTyped ==
    /\ Whole \in Seq(SUBSET Changed) /\ DOMAIN Whole = 1 .. Len(Whole)
    /\ op.kind = "apply" =>
           /\ Len(Whole) = Len(Run) + 1 /\ Whole[1] = Base
           /\ \A k \in 1 .. Len(Run) : Whole[k + 1] = Run[k]
    /\ op.kind # "apply" =>
           /\ Len(Whole) = Len(Run)
           /\ \A k \in 1 .. Len(Run) :
                  Whole[k] = Run[k] \union IF k = 1 THEN Base ELSE {}
<1>1. CASE op.kind = "apply"
  <2>1. <<Base>> \in Seq(SUBSET Changed) /\ Len(<<Base>>) = 1 /\ <<Base>>[1] = Base
    BY RunSeq
  <2> DEFINE b == <<Base>>
  <2>2. b \in Seq(SUBSET Changed) /\ Len(b) = 1 /\ b[1] = Base BY <2>1
  <2> HIDE DEF b
  <2>3. /\ b \o Run \in Seq(SUBSET Changed) /\ Len(b \o Run) = 1 + Len(Run)
        /\ \A i \in 1 .. 1 + Len(Run) : (b \o Run)[i] = IF i <= 1 THEN b[i] ELSE Run[i - 1]
    <3>1. PICK S : S = SUBSET Changed OBVIOUS
    <3>2. b \in Seq(S) /\ Run \in Seq(S) BY <2>2, <3>1, RunSeq
    <3>3. /\ b \o Run \in Seq(S) /\ Len(b \o Run) = Len(b) + Len(Run)
          /\ \A i \in 1 .. Len(b) + Len(Run) :
                (b \o Run)[i] = IF i <= Len(b) THEN b[i] ELSE Run[i - Len(b)]
      BY <3>2, ConcatProperties
    <3> QED BY <2>2, <3>1, <3>3
  <2>4. Whole = b \o Run BY <1>1 DEF Whole, b
  <2>5. \A k \in 1 .. Len(Run) : Whole[k + 1] = Run[k] BY <2>3, <2>4, RunTyped
  <2>6. Whole[1] = Base BY <2>2, <2>3, <2>4, RunTyped
  <2>7. DOMAIN Whole = 1 .. Len(Whole) BY <2>3, <2>4, LenProperties
  <2> QED BY <1>1, <2>3, <2>4, <2>5, <2>6, <2>7, RunTyped
<1>2. CASE op.kind # "apply"
  <2> DEFINE first == Run[1] \union Base
  <2>1. first \in SUBSET Changed BY RunTyped
  <2>2. Whole = [Run EXCEPT ![1] = first] BY <1>2 DEF Whole
  <2>3. 1 \in 1 .. Len(Run) BY RunTyped
  <2> HIDE DEF first
  <2>4. /\ Whole \in Seq(SUBSET Changed) /\ Len(Whole) = Len(Run)
        /\ \A j \in 1 .. Len(Run) : Whole[j] = IF j = 1 THEN first ELSE Run[j]
    BY <2>1, <2>2, <2>3, RunSeq, ExceptSeq
  <2>5. DOMAIN Whole = 1 .. Len(Whole) BY <2>4, LenProperties
  <2> QED BY <1>2, <2>4, <2>5 DEF first
<1> QED BY <1>1, <1>2

\* What the history of commits on sets is.
LEMMA ByTyped ==
    ASSUME NEW sets \in Seq(SUBSET Changed), commands \in Nat
    PROVE  /\ By(sets) \in Histories /\ Len(By(sets)) = Len(sets)
           /\ \A k \in 1 .. Len(sets) : By(sets)[k] = <<commands, sets[k]>>
<1>1. DOMAIN sets = 1 .. Len(sets) /\ Len(sets) \in Nat BY LenProperties
<1>2. \A k \in 1 .. Len(sets) : <<commands, sets[k]>> \in Int \X SUBSET Changed
  BY ElementOfSeq
<1>3. By(sets) = [k \in 1 .. Len(sets) |-> <<commands, sets[k]>>] BY <1>1 DEF By
<1>4. By(sets) \in [1 .. Len(sets) -> Int \X SUBSET Changed] BY <1>2, <1>3
<1>5. By(sets) \in Histories BY <1>1, <1>4, SeqDef DEF Histories
<1>6. Len(By(sets)) = Len(sets) BY <1>1, <1>3
<1> QED BY <1>3, <1>5, <1>6

LEMMA BranchIsWhole ==
    ASSUME TypeOK, op \in BranchCommand, Begun(Len(Whole))
    PROVE  branch[op.branch] = By(Whole)
<1>1. branch[op.branch] \in Histories /\ commands \in Nat BY DEF TypeOK, BranchCommand
<1>2. Whole \in Seq(SUBSET Changed) BY WholeTyped
<1>3. /\ By(Whole) \in Histories /\ Len(By(Whole)) = Len(Whole)
      /\ \A k \in 1 .. Len(Whole) : By(Whole)[k] = <<commands, Whole[k]>>
  BY <1>1, <1>2, ByTyped
<1>4. /\ Len(branch[op.branch]) = Len(By(Whole))
      /\ \A k \in 1 .. Len(branch[op.branch]) : branch[op.branch][k] = By(Whole)[k]
  BY <1>3 DEF Begun
<1>5. branch[op.branch] \in Seq(Int \X SUBSET Changed) /\ By(Whole) \in Seq(Int \X SUBSET Changed)
  BY <1>1, <1>3 DEF Histories
<1> QED BY <1>4, <1>5, SeqEqual

\* One more commit.
LEMMA OneMore ==
    ASSUME TypeOK, op \in BranchCommand, NEW n \in Nat, Begun(n),
           n < Len(Whole), CommitInWorktree(Whole[n + 1]),
           op'.kind = op.kind, op'.branch = op.branch
    PROVE  Begun(n + 1)'
<1>1. /\ op.branch \in Branches /\ branch[op.branch] \in Histories /\ commands \in Nat
      /\ commands' = commands
  BY DEF TypeOK, BranchCommand, CommitInWorktree
<1> DEFINE made == branch[op.branch]
           now == Append(made, <<commands, Whole[n + 1]>>)
<1>2. branch'[op.branch] = now BY <1>1 DEF CommitInWorktree, TypeOK
<1>3. Whole[n + 1] \in SUBSET Changed
  <2>0. Len(Whole) \in Nat BY WholeTyped, LenProperties
  <2>1. n + 1 \in 1 .. Len(Whole) BY <2>0
  <2> QED BY <2>1, WholeTyped, ElementOfSeq
<1>4. made \in Seq(Int \X SUBSET Changed) /\ <<commands, Whole[n + 1]>> \in Int \X SUBSET Changed
  BY <1>1, <1>3 DEF Histories
<1>5. /\ Len(now) = Len(made) + 1 /\ \A k \in 1 .. Len(made) : now[k] = made[k]
      /\ now[Len(made) + 1] = <<commands, Whole[n + 1]>>
  BY <1>4, AppendProperties
<1>6. Len(made) = n /\ \A k \in 1 .. n : made[k] = <<commands, Whole[k]>> BY DEF Begun
<1>7. Whole' = Whole BY DEF Whole
<1> HIDE DEF made, now
<1>8. Len(now) = n + 1 /\ \A k \in 1 .. n + 1 : now[k] = <<commands, Whole[k]>>
  BY <1>5, <1>6
<1> QED BY <1>1, <1>2, <1>7, <1>8 DEF Begun

LEMMA BranchKeepsUnderWay ==
    ASSUME TypeOK, UnderWay, BranchNext \/ DeliverNext PROVE UnderWay'
<1>1. CASE \E b \in Branches, push \in BOOLEAN : Deliver(b, push) \/ RunApply(b, push)
  <2>1. PICK kind \in {"deliver", "apply"}, b \in Branches, push \in BOOLEAN :
            Begin(kind, b, push)
    BY <1>1 DEF Deliver, RunApply
  <2>2. /\ op'.kind = kind /\ op'.i = 1
        /\ op'.step = IF kind = "apply" THEN "clear" ELSE "add"
    BY <2>1 DEF Begin
  <2> QED BY <2>2 DEF UnderWay
<1>2. CASE ClearBranch
  <2>1. op \in BranchCommand /\ op' = [op EXCEPT !.step = "add"] /\ op.step = "clear"
    BY <1>2, KindOfCommand DEF ClearBranch, Running, To
  <2>2. op'.kind = op.kind /\ op'.step = "add" /\ op'.i = op.i BY <2>1 DEF BranchCommand
  <2> QED BY <2>1, <2>2 DEF UnderWay, BranchCommand
<1>3. CASE AddWorktree
  <2>1. op \in BranchCommand /\ op.step = "add"
    BY <1>3, KindOfCommand DEF AddWorktree, Running
  <2>2. op.i = 1 /\ op.branch \in Branches BY <2>1 DEF UnderWay, BranchCommand
  <2>3. CASE branch[op.branch] = Absent /\ \A w \in wts : w[1] # Place
    <3>1. branch'[op.branch] = <<>> BY <1>3, <2>2, <2>3 DEF AddWorktree, TypeOK
    <3>2. op' = [op EXCEPT !.step = IF op.kind = "apply" THEN "base" ELSE "commit"]
      BY <1>3, <2>3 DEF AddWorktree, To
    <3>3. /\ op'.kind = op.kind /\ op'.branch = op.branch /\ op'.i = 1
          /\ op'.step = IF op.kind = "apply" THEN "base" ELSE "commit"
      BY <2>1, <2>2, <3>2 DEF BranchCommand
    <3>4. Begun(0)' BY <3>1, <3>3, NoEmptyAbsent DEF Begun
    <3>5. op'.kind # "apply" => Begun(op.i - 1)' BY <2>2, <3>3, <3>4
    <3> QED BY <3>1, <3>3, <3>5 DEF UnderWay
  <2>4. CASE ~(branch[op.branch] = Absent /\ \A w \in wts : w[1] # Place)
    <3>1. op' = [op EXCEPT !.step = "done", !.ok = FALSE]
      BY <1>3, <2>4 DEF AddWorktree, Fails
    <3>2. op'.step = "done" /\ op'.ok = FALSE BY <2>1, <3>1 DEF BranchCommand
    <3> QED BY <3>2 DEF UnderWay
  <2> QED BY <2>3, <2>4
<1>4. CASE CommitBase
  <2>1. /\ op \in BranchCommand /\ op' = [op EXCEPT !.step = "commit"]
        /\ CommitInWorktree(Base) /\ op.step = "base"
    BY <1>4, KindOfCommand DEF CommitBase, Running, To
  <2>2. op.kind = "apply" /\ op.i = 1 /\ branch[op.branch] = <<>>
    BY <2>1 DEF UnderWay, BranchCommand
  <2>3. /\ op'.kind = op.kind /\ op'.branch = op.branch /\ op'.i = 1 /\ op'.step = "commit"
    BY <2>1, <2>2 DEF BranchCommand
  <2>4. Begun(0) BY <2>2, NoEmptyAbsent DEF Begun
  <2>5. Whole[0 + 1] = Base /\ 0 < Len(Whole) BY <2>2, WholeTyped, RunTyped
  <2>6. Begun(0 + 1)' BY <2>1, <2>3, <2>4, <2>5, OneMore
  <2>7. Begun(op.i)' BY <2>3, <2>6
  <2> QED BY <2>2, <2>3, <2>7 DEF UnderWay
<1>5. CASE CommitOne
  <2> DEFINE c == Run[op.i] \union IF op.kind = "deliver" /\ op.i = 1 THEN Base ELSE {}
  <2>1. op \in BranchCommand /\ op.step = "commit" /\ CommitInWorktree(c)
    BY <1>5, KindOfCommand DEF CommitOne, Running
  <2>2. /\ op.kind \in {"deliver", "apply"} /\ op.i \in 1 .. Len(Run) /\ Len(Run) \in Nat
    BY <2>1, RunTyped DEF BranchCommand
  <2>0. (IF op.kind = "apply" THEN op.i ELSE op.i - 1) \in Nat BY <2>2
  <2> PICK n \in Nat : n = IF op.kind = "apply" THEN op.i ELSE op.i - 1 BY <2>0
  <2>3. Begun(n) BY <2>1, <2>2 DEF UnderWay
  <2>4. n < Len(Whole) /\ Whole[n + 1] = c
    <3>1. CASE op.kind = "apply" BY <2>2, <3>1, WholeTyped
    <3>2. CASE op.kind = "deliver" BY <2>2, <3>2, WholeTyped
    <3> QED BY <2>2, <3>1, <3>2
  <2>5. /\ op'.kind = op.kind /\ op'.branch = op.branch
        /\ op'.step = IF op.i < Len(Run) THEN "commit" ELSE "push"
        /\ op'.i = IF op.i < Len(Run) THEN op.i + 1 ELSE op.i
    BY <1>5, <2>1 DEF CommitOne, BranchCommand
  <2> HIDE DEF c
  <2>6. Begun(n + 1)' BY <2>1, <2>3, <2>4, <2>5, OneMore
  <2>7. CASE op.i < Len(Run)
    <3>1. (IF op'.kind = "apply" THEN op'.i ELSE op'.i - 1) = n + 1 BY <2>2, <2>5, <2>7
    <3> QED BY <2>5, <2>6, <2>7, <3>1 DEF UnderWay
  <2>8. CASE ~(op.i < Len(Run))
    <3>1. Whole' = Whole BY <2>5 DEF Whole
    <3>2. Len(Whole) = n + 1
      <4>1. op.i = Len(Run) BY <2>2, <2>8
      <4>2. CASE op.kind = "apply" BY <2>2, <4>1, <4>2, WholeTyped
      <4>3. CASE op.kind = "deliver"
        <5>1. n = Len(Run) - 1 BY <4>1, <4>3
        <5>2. Len(Whole) = Len(Run) BY <4>3, WholeTyped
        <5> QED BY <2>2, <5>1, <5>2
      <4> QED BY <2>2, <4>2, <4>3
    <3> QED BY <2>5, <2>6, <2>8, <3>1, <3>2 DEF UnderWay
  <2> QED BY <2>7, <2>8
<1>6. CASE CommitFails \/ PushFails
  <2>1. op \in BranchCommand /\ op' = [op EXCEPT !.step = "remove", !.ok = FALSE]
    BY <1>6, KindOfCommand DEF CommitFails, PushFails, Running, Fails
  <2>2. op'.step = "remove" /\ op'.ok = FALSE BY <2>1 DEF BranchCommand
  <2> QED BY <2>2 DEF UnderWay
<1>7. CASE \E opened \in BOOLEAN : Push(opened)
  <2>1. PICK opened \in BOOLEAN : Push(opened) BY <1>7
  <2>2. op \in BranchCommand /\ op.step = "push" /\ op.branch \in Branches
    BY <2>1, KindOfCommand DEF Push, Running, BranchCommand
  <2>3. Begun(Len(Whole)) BY <2>2 DEF UnderWay, BranchCommand
  <2>4. UNCHANGED <<branch, commands>> BY <2>1 DEF Push
  <2>5. CASE op' = [op EXCEPT !.step = "remove", !.ok = FALSE]
    <3>1. op'.step = "remove" /\ op'.ok = FALSE BY <2>2, <2>5 DEF BranchCommand
    <3> QED BY <3>1 DEF UnderWay
  <2>6. CASE /\ op' = [op EXCEPT !.step = "remove"]
             /\ op.push => remote' = [remote EXCEPT ![op.branch] = branch[op.branch]]
    <3>1. /\ op'.kind = op.kind /\ op'.branch = op.branch /\ op'.step = "remove"
          /\ op'.push = op.push
      BY <2>2, <2>6 DEF BranchCommand
    <3>2. op'.push => remote'[op.branch] = branch[op.branch]
      BY <2>2, <2>6, <3>1 DEF TypeOK
    <3>3. Whole' = Whole BY <3>1 DEF Whole
    <3>4. Begun(Len(Whole))' BY <2>3, <2>4, <3>1, <3>3 DEF Begun
    <3> QED BY <2>4, <3>1, <3>2, <3>4 DEF UnderWay
  <2> QED BY <2>1, <2>5, <2>6 DEF Push, Fails, To
<1>8. CASE RemoveWorktree
  <2>1. op \in BranchCommand /\ op' = [op EXCEPT !.step = "done"] /\ op.step = "remove"
    BY <1>8, KindOfCommand DEF RemoveWorktree, Running, To
  <2>2. /\ op'.kind = op.kind /\ op'.branch = op.branch /\ op'.step = "done"
        /\ op'.push = op.push /\ op'.ok = op.ok
    BY <2>1 DEF BranchCommand
  <2>3. UNCHANGED <<branch, remote, commands>> BY <1>8 DEF RemoveWorktree
  <2>4. Whole' = Whole BY <2>2 DEF Whole
  <2>5. Begun(Len(Whole)) => Begun(Len(Whole))' BY <2>2, <2>3, <2>4 DEF Begun
  <2> QED BY <2>1, <2>2, <2>3, <2>5 DEF UnderWay
<1> QED
  BY <1>1, <1>2, <1>3, <1>4, <1>5, <1>6, <1>7, <1>8 DEF BranchNext, DeliverNext

\* The commits that a merge makes.
Picks == CASE op.strategy = "cherry-pick" -> Run
           [] op.strategy = "squash" -> <<Ran>>
           [] op.strategy = "worktree" -> <<>>

\* The branch is what it was and the first n of them, but for what the user
\* changes meanwhile.
Grown(n) ==
    LET old == op.before.branch[op.target]
        now == branch[op.target]
    IN  /\ Len(now) = Len(old) + n
        /\ \A k \in 1 .. Len(old) : now[k] = old[k]
        /\ \A k \in 1 .. n : now[Len(old) + k][1] = commands
                             /\ now[Len(old) + k][2] \ late = Picks[k]

\* A merge commits each diff, or all at once, or nothing.
EachDiff == op.strategy = "cherry-pick"

\* How far a merge that has not failed is.
Gathered ==
    op.kind = "merge" =>
      /\ op.step \in {"checkout", "stash", "recovery"} => op.i = 1
      /\ op.step = "apply" =>
             /\ at = op.target /\ Grown(IF EachDiff THEN op.i - 1 ELSE 0)
             /\ tree \intersect Ran = IF EachDiff THEN {} ELSE UNION {Run[k] : k \in 1 .. (op.i - 1)}
      /\ op.step = "commit" =>
             /\ at = op.target /\ Grown(IF EachDiff THEN op.i - 1 ELSE 0)
             /\ tree \intersect Ran = IF EachDiff THEN Run[op.i] ELSE Ran
             /\ op.strategy # "worktree" /\ (~EachDiff => op.i = Len(Run))
      /\ op.step \in {"rollback", "return"} => ~op.ok
      /\ op.step \in {"restore", "done"} /\ op.ok =>
             /\ at = op.target /\ Grown(Len(Picks))
             /\ op.strategy = "worktree" => Ran \subseteq tree
      /\ op.step = "done" /\ op.ok =>
             op.before.tree \subseteq tree \union Changes(branch[at]) \/ Named

LEMMA PicksTyped ==
    ASSUME op \in MergeCommand
    PROVE  /\ Picks \in Seq(SUBSET Changed) /\ Len(Picks) \in Nat
           /\ EachDiff => Picks = Run
           /\ op.strategy = "squash" => Len(Picks) = 1 /\ Picks[1] = Ran
           /\ op.strategy = "worktree" => Len(Picks) = 0
<1>1. op.strategy \in {"cherry-pick", "squash", "worktree"} BY DEF MergeCommand
<1>2. CASE op.strategy = "cherry-pick" BY <1>2, RunSeq, RunTyped DEF Picks, EachDiff
<1>3. CASE op.strategy = "squash" BY <1>3, RunSeq DEF Picks, EachDiff
<1>4. CASE op.strategy = "worktree" BY <1>4 DEF Picks, EachDiff
<1> QED BY <1>1, <1>2, <1>3, <1>4

LEMMA FunctionIsSeq ==
    ASSUME NEW S, NEW n \in Nat, NEW f \in [1 .. n -> S]
    PROVE  f \in Seq(S)
BY SeqDef

LEMMA TidyTyped ==
    ASSUME NEW h \in Histories
    PROVE  /\ Tidy(h) \in Histories /\ Len(Tidy(h)) = Len(h)
           /\ \A k \in 1 .. Len(h) : Tidy(h)[k] = <<h[k][1], h[k][2] \ late>>
<1>1. h \in Seq(Int \X SUBSET Changed) BY DEF Histories
<1>2. DOMAIN h = 1 .. Len(h) /\ Len(h) \in Nat BY <1>1, LenProperties
<1>3. \A k \in 1 .. Len(h) : <<h[k][1], h[k][2] \ late>> \in Int \X SUBSET Changed
  BY <1>1, ElementOfSeq
<1>4. Tidy(h) = [k \in 1 .. Len(h) |-> <<h[k][1], h[k][2] \ late>>] BY <1>2 DEF Tidy
<1>5. Tidy(h) \in [1 .. Len(h) -> Int \X SUBSET Changed] BY <1>3, <1>4
<1>6. Tidy(h) \in Histories BY <1>2, <1>5, FunctionIsSeq DEF Histories
<1>7. Len(Tidy(h)) = Len(h) BY <1>2, <1>4
<1> QED BY <1>4, <1>6, <1>7

LEMMA MergedIsTidy ==
    ASSUME TypeOK, op \in MergeCommand, at = op.target, Grown(Len(Picks))
    PROVE  Tidy(branch[at]) = Tidy(op.before.branch[at]) \o By(Picks)
<1> DEFINE old == op.before.branch[op.target]
           now == branch[op.target]
<1>1. old \in Histories /\ now \in Histories /\ commands \in Nat BY DEF TypeOK, MergeCommand
<1>2. Picks \in Seq(SUBSET Changed) /\ Len(Picks) \in Nat BY PicksTyped
<1>3. /\ By(Picks) \in Histories /\ Len(By(Picks)) = Len(Picks)
      /\ \A k \in 1 .. Len(Picks) : By(Picks)[k] = <<commands, Picks[k]>>
  BY <1>1, <1>2, ByTyped
<1>4. /\ Len(now) = Len(old) + Len(Picks)
      /\ \A k \in 1 .. Len(old) : now[k] = old[k]
      /\ \A k \in 1 .. Len(Picks) : now[Len(old) + k][1] = commands
                                    /\ now[Len(old) + k][2] \ late = Picks[k]
  BY DEF Grown
<1> HIDE DEF old, now
<1>5. /\ Tidy(old) \in Histories /\ Len(Tidy(old)) = Len(old)
      /\ \A k \in 1 .. Len(old) : Tidy(old)[k] = <<old[k][1], old[k][2] \ late>>
  BY <1>1, TidyTyped
<1>6. /\ Tidy(now) \in Histories /\ Len(Tidy(now)) = Len(now)
      /\ \A k \in 1 .. Len(now) : Tidy(now)[k] = <<now[k][1], now[k][2] \ late>>
  BY <1>1, TidyTyped
<1> DEFINE both == Tidy(old) \o By(Picks)
<1>7. /\ both \in Histories /\ Len(both) = Len(old) + Len(Picks)
      /\ \A i \in 1 .. Len(old) + Len(Picks) :
             both[i] = IF i <= Len(old) THEN Tidy(old)[i] ELSE By(Picks)[i - Len(old)]
  <2>1. Tidy(old) \in Seq(Int \X SUBSET Changed) /\ By(Picks) \in Seq(Int \X SUBSET Changed)
    BY <1>3, <1>5 DEF Histories
  <2>2. /\ both \in Seq(Int \X SUBSET Changed)
        /\ Len(both) = Len(Tidy(old)) + Len(By(Picks))
        /\ \A i \in 1 .. Len(Tidy(old)) + Len(By(Picks)) :
               both[i] = IF i <= Len(Tidy(old)) THEN Tidy(old)[i]
                         ELSE By(Picks)[i - Len(Tidy(old))]
    BY <2>1, ConcatProperties
  <2> HIDE DEF both
  <2> QED BY <1>3, <1>5, <2>2 DEF Histories
<1> HIDE DEF both
<1>8. Len(old) \in Nat BY <1>1, LenProperties DEF Histories
<1>9. \A i \in 1 .. Len(now) : Tidy(now)[i] = both[i]
  <2> TAKE i \in 1 .. Len(now)
  <2>1. i \in 1 .. Len(old) + Len(Picks) BY <1>4
  <2>2. CASE i <= Len(old)
    <3>1. i \in 1 .. Len(old) BY <1>8, <2>1, <2>2
    <3> QED BY <1>4, <1>5, <1>6, <1>7, <2>1, <2>2, <3>1
  <2>3. CASE ~(i <= Len(old))
    <3>1. PICK k \in 1 .. Len(Picks) : i = Len(old) + k /\ k = i - Len(old)
      <4>1. i - Len(old) \in 1 .. Len(Picks) BY <1>2, <1>8, <2>1, <2>3
      <4>2. i = Len(old) + (i - Len(old)) BY <1>8, <2>1
      <4> QED BY <4>1, <4>2
    <3>2. both[i] = <<commands, Picks[k]>> BY <1>3, <1>7, <2>1, <2>3, <3>1
    <3>3. Tidy(now)[i] = <<now[i][1], now[i][2] \ late>> BY <1>6
    <3> QED BY <1>4, <3>1, <3>2, <3>3
  <2> QED BY <2>2, <2>3
<1>10. Tidy(now) = both
  <2>1. Tidy(now) \in Seq(Int \X SUBSET Changed) /\ both \in Seq(Int \X SUBSET Changed)
    BY <1>6, <1>7 DEF Histories
  <2>2. Len(Tidy(now)) = Len(both) BY <1>4, <1>6, <1>7
  <2>3. \A i \in 1 .. Len(Tidy(now)) : Tidy(now)[i] = both[i] BY <1>6, <1>9
  <2> QED BY <2>1, <2>2, <2>3, SeqEqual
<1> QED BY <1>10 DEF both, old, now

\* What the parts say of a command that has ended.
LEMMA PartsDeliver ==
    ASSUME TypeOK, UnderWay, Gathered
    PROVE  DeliversTheRun
<1>1. CASE Ended({"deliver", "apply"}, TRUE)
  <2>1. op \in BranchCommand /\ op.kind \in {"deliver", "apply"}
    BY <1>1, KindOfCommand DEF Ended
  <2>2. Begun(Len(Whole)) /\ (op.push => remote[op.branch] = branch[op.branch])
    BY <1>1, <2>1 DEF UnderWay, Ended
  <2>3. branch[op.branch] = By(Whole) BY <2>1, <2>2, BranchIsWhole
  <2> QED BY <2>1, <2>2, <2>3 DEF DeliversTheRun, Ended, Whole
<1>2. CASE Ended({"merge"}, TRUE)
  <2>1. op \in MergeCommand /\ op.kind = "merge" /\ op.step = "done" /\ op.ok
    BY <1>2, KindOfCommand DEF Ended
  <2>2. /\ at = op.target /\ Grown(Len(Picks))
        /\ op.strategy = "worktree" => Ran \subseteq tree
        /\ op.before.tree \subseteq tree \union Changes(branch[at]) \/ Named
    BY <2>1 DEF Gathered
  <2>3. Tidy(branch[at]) = Tidy(op.before.branch[at]) \o By(Picks)
    BY <2>1, <2>2, MergedIsTidy
  <2>4. By(Picks) = CASE op.strategy = "cherry-pick" -> By(Run)
                      [] op.strategy = "squash" -> By(<<UNION Range(Run)>>)
                      [] op.strategy = "worktree" -> <<>>
    <3>1. op.strategy \in {"cherry-pick", "squash", "worktree"} BY <2>1 DEF MergeCommand
    <3>2. By(<<>>) = <<>> BY DEF By
    <3> QED BY <3>1, <3>2 DEF Picks, Ran
  <2> QED BY <2>1, <2>2, <2>3, <2>4 DEF DeliversTheRun, Ended, Ran
<1>3. CASE ~Ended({"deliver", "apply"}, TRUE) /\ ~Ended({"merge"}, TRUE)
  BY <1>3 DEF DeliversTheRun, Ended
<1> QED BY <1>1, <1>2, <1>3

\* A step that leaves the histories alone leaves what was merged alone.
LEMMA GrownSame ==
    ASSUME op'.before = op.before, op'.target = op.target, op'.strategy = op.strategy,
           UNCHANGED <<branch, commands, late>>, NEW n, Grown(n)
    PROVE  Grown(n)' /\ Picks' = Picks /\ EachDiff' = EachDiff
BY DEF Grown, Picks, EachDiff

LEMMA PicksNotMine ==
    ASSUME op \in MergeCommand
    PROVE  \A k \in 1 .. Len(Picks) : Picks[k] \intersect Mine = {}
<1>1. op.strategy \in {"cherry-pick", "squash", "worktree"} BY DEF MergeCommand
<1>2. CASE op.strategy = "cherry-pick" BY <1>2, PicksTyped, RunTyped DEF EachDiff
<1>3. CASE op.strategy = "squash"
  <2>1. Len(Picks) = 1 /\ Picks[1] = Ran /\ \A k \in 1 .. 1 : k = 1 BY <1>3, PicksTyped
  <2>2. Picks[1] \intersect Mine = {} BY <2>1, RanTyped
  <2> QED BY <2>1, <2>2
<1>4. CASE op.strategy = "worktree" BY <1>4, PicksTyped
<1> QED BY <1>1, <1>2, <1>3, <1>4

\* One more commit.
LEMMA GrownMore ==
    ASSUME TypeOK, op \in MergeCommand, at = op.target, NEW n \in Nat, Grown(n),
           n < Len(Picks), NEW s \in SUBSET Changed, s \ late = Picks[n + 1],
           branch' = [branch EXCEPT ![at] = Append(@, <<commands, s>>)],
           UNCHANGED <<commands, late>>,
           op'.before = op.before, op'.target = op.target, op'.strategy = op.strategy
    PROVE  Grown(n + 1)'
<1> DEFINE old == op.before.branch[op.target]
           was == branch[op.target]
           now == Append(was, <<commands, s>>)
<1>1. /\ op.target \in Branches /\ was \in Histories /\ old \in Histories
      /\ commands \in Nat
  BY DEF TypeOK, MergeCommand
<1>2. branch'[op.target] = now BY <1>1 DEF TypeOK
<1>3. was \in Seq(Int \X SUBSET Changed) /\ <<commands, s>> \in Int \X SUBSET Changed
  BY <1>1 DEF Histories
<1>4. /\ Len(now) = Len(was) + 1 /\ \A k \in 1 .. Len(was) : now[k] = was[k]
      /\ now[Len(was) + 1] = <<commands, s>>
  BY <1>3, AppendProperties
<1>5. /\ Len(was) = Len(old) + n
      /\ \A k \in 1 .. Len(old) : was[k] = old[k]
      /\ \A k \in 1 .. n : was[Len(old) + k][1] = commands
                           /\ was[Len(old) + k][2] \ late = Picks[k]
  BY DEF Grown
<1>6. Len(old) \in Nat BY <1>1, LenProperties DEF Histories
<1>7. Picks' = Picks BY DEF Picks
<1> HIDE DEF was, now, old
<1>8. Len(now) = Len(old) + (n + 1) BY <1>4, <1>5, <1>6
<1>9. \A k \in 1 .. Len(old) : now[k] = old[k] BY <1>4, <1>5, <1>6
<1>10. \A k \in 1 .. n + 1 : now[Len(old) + k][1] = commands
                             /\ now[Len(old) + k][2] \ late = Picks[k]
  <2> TAKE k \in 1 .. n + 1
  <2>1. CASE k \in 1 .. n
    <3>1. Len(old) + k \in 1 .. Len(was) BY <1>5, <1>6, <2>1
    <3> QED BY <1>4, <1>5, <2>1, <3>1
  <2>2. CASE k = n + 1
    <3>1. Len(old) + k = Len(was) + 1 BY <1>5, <1>6, <2>2
    <3> QED BY <1>4, <2>2, <3>1
  <2> QED BY <2>1, <2>2
<1>11. op'.before.branch[op'.target] = old /\ branch'[op'.target] = now BY <1>2 DEF old
<1> QED BY <1>7, <1>8, <1>9, <1>10, <1>11 DEF Grown

LEMMA UserKeepsGathered == ASSUME Inv, Gathered, UserNext PROVE Gathered'
<1>1. CASE op' = Idle BY <1>1 DEF Gathered, Idle
<1>2. CASE \E x \in Mine : Edit(x) /\ op' # Idle
  <2>1. PICK x \in Mine : Edit(x) /\ op' # Idle BY <1>2
  <2>2. /\ op.kind = "merge" /\ op.step # "done" /\ op' = op
        /\ tree' = tree \union {x} /\ late' = late \union {x}
        /\ UNCHANGED <<branch, at, commands>>
    BY <2>1 DEF Edit, Between
  <2>3. op \in MergeCommand BY <2>2, KindOfCommand DEF Inv
  <2>4. x \notin Ran BY RanTyped
  <2>5. tree' \intersect Ran = tree \intersect Ran BY <2>2, <2>4
  <2>6. ASSUME NEW n, Grown(n), n <= Len(Picks), n \in Nat PROVE Grown(n)'
    <3>1. \A k \in 1 .. n : x \notin Picks[k]
      BY <2>3, <2>6, PicksTyped, PicksNotMine
    <3>2. Picks' = Picks BY <2>2 DEF Picks
    <3> QED BY <2>2, <2>6, <3>1, <3>2 DEF Grown
  <2>7. /\ op.i \in 1 .. Len(Run) /\ Len(Picks) \in Nat
        /\ EachDiff => Len(Picks) = Len(Run)
    BY <2>3, RunTyped, PicksTyped DEF MergeCommand
  <2>8. Picks' = Picks /\ EachDiff' = EachDiff BY <2>2 DEF Picks, EachDiff
  <2>9. (IF EachDiff THEN op.i - 1 ELSE 0) \in 0 .. Len(Picks) BY <2>7
  <2>10. PICK n \in 0 .. Len(Picks) : n = IF EachDiff THEN op.i - 1 ELSE 0 BY <2>9
  <2>11. Grown(n) => Grown(n)' BY <2>6
  <2>12. PICK m : m = Len(Picks) OBVIOUS
  <2>13. Grown(m) => Grown(m)' BY <2>6, <2>7, <2>12
  <2>14. /\ Grown(IF EachDiff THEN op.i - 1 ELSE 0) => Grown(IF EachDiff THEN op.i - 1 ELSE 0)'
         /\ Grown(Len(Picks)) => Grown(Len(Picks))'
    BY <2>2, <2>8, <2>10, <2>11, <2>12, <2>13
  <2> QED BY <2>2, <2>5, <2>8, <2>14 DEF Gathered
<1> QED BY <1>1, <1>2 DEF UserNext, Commit, Switch, Between

LEMMA BeginMergeGathered ==
    ASSUME Inv, Gathered, NEW strategy \in {"cherry-pick", "squash", "worktree"},
           NEW allowDirty \in BOOLEAN, NEW into \in {"here"} \union Branches,
           Merge(strategy, into, allowDirty)
    PROVE  Gathered'
<1>1. UNCHANGED <<branch, at, tree>> BY DEF Merge, repo
<1> DEFINE target == IF into = "here" THEN at ELSE into
<1>2. /\ op'.kind = "merge" /\ op'.target = target /\ op'.i = 1
      /\ op'.before.branch = branch
      /\ op'.step = IF target # at THEN "checkout" ELSE IF Dirty THEN "stash" ELSE "apply"
  BY DEF Merge
<1>3. target \in Branches BY DEF Merge, Inv, TypeOK
<1> HIDE DEF target
<1>4. SUFFICES ASSUME op'.step = "apply" PROVE Gathered'
  BY <1>2 DEF Gathered
<1>5. tree \intersect Ran = {} BY <1>2, <1>4, RanTyped DEF Dirty
<1>6. Len(branch[target]) \in Nat
  <2>1. branch[target] \in Seq(Int \X SUBSET Changed) BY <1>3 DEF Inv, TypeOK, Histories
  <2> QED BY <2>1, LenProperties
<1>7. Grown(0)' BY <1>1, <1>2, <1>6 DEF Grown
<1>8. 1 - 1 = 0 /\ UNION {Run[k] : k \in 1 .. (1 - 1)} = {} OBVIOUS
<1>9. Grown(IF EachDiff THEN op.i - 1 ELSE 0)' BY <1>2, <1>7, <1>8
<1> QED BY <1>1, <1>2, <1>4, <1>5, <1>8, <1>9 DEF Gathered

LEMMA MergeKeepsGathered ==
    ASSUME Reversible, Inv', Gathered, MergeNext PROVE Gathered'
<1> USE DEF Reversible
<1>0. TypeOK BY DEF Inv
<1>1. CASE \E strategy \in {"cherry-pick", "squash", "worktree"}, allowDirty \in BOOLEAN,
              into \in {"here"} \union Branches : Merge(strategy, into, allowDirty)
  BY <1>1, BeginMergeGathered
<1>2. CASE CheckoutTarget \/ \E written \in BOOLEAN : WriteRecovery(written)
  <2>1. op \in MergeCommand /\ op.kind = "merge" /\ op.step \in {"checkout", "recovery"}
    BY <1>2, KindOfCommand DEF CheckoutTarget, WriteRecovery, Running, Inv
  <2>2. UNCHANGED <<branch, tree, commands, late>>
    BY <1>2 DEF CheckoutTarget, WriteRecovery, repo, ghosts
  <2>3. op.i = 1 /\ branch = op.before.branch /\ tree \subseteq Config \union late
    BY <2>1 DEF Gathered, Inv, NotBegun, Busy
  <2>4. /\ op'.before = op.before /\ op'.target = op.target /\ op'.strategy = op.strategy
        /\ op'.kind = "merge" /\ op'.i = 1
        /\ \/ op'.step = "apply" /\ at' = op.target
           \/ op'.step = "done" /\ ~op'.ok
    <3>1. CASE CheckoutTarget
      <4>1. \/ op' = [op EXCEPT !.step = "apply"] /\ at' = op.target
            \/ op' = [op EXCEPT !.step = "done", !.ok = FALSE]
        BY <3>1 DEF CheckoutTarget, To, Fails
      <4> QED BY <2>1, <2>3, <4>1 DEF MergeCommand
    <3>2. CASE \E written \in BOOLEAN : WriteRecovery(written)
      <4>1. /\ \/ op' = [op EXCEPT !.step = "apply", !.named = TRUE]
               \/ op' = [op EXCEPT !.step = "done", !.ok = FALSE, !.gone = TRUE]
            /\ at' = at /\ op.step = "recovery"
        BY <3>2 DEF WriteRecovery, Running, repo
      <4>2. at = op.target BY <2>1, <4>1 DEF Inv, NotBegun, Busy
      <4> QED BY <2>1, <2>3, <4>1, <4>2 DEF MergeCommand
    <3> QED BY <1>2, <3>1, <3>2
  <2>5. CASE op'.step = "done" /\ ~op'.ok BY <2>5 DEF Gathered
  <2>6. CASE op'.step = "apply" /\ at' = op.target
    <3>1. tree \intersect Ran = {} BY <2>3, RanTyped DEF Inv, TypeOK
    <3>2. Len(branch[op.target]) \in Nat
      <4>1. branch[op.target] \in Seq(Int \X SUBSET Changed)
        BY <2>1 DEF MergeCommand, Inv, TypeOK, Histories
      <4> QED BY <4>1, LenProperties
    <3>3. Grown(0) BY <2>3, <3>2 DEF Grown
    <3>4. Grown(0)' BY <2>2, <2>4, <3>3, GrownSame
    <3>5. 1 - 1 = 0 /\ UNION {Run[k] : k \in 1 .. (1 - 1)} = {} OBVIOUS
    <3>6. Grown(IF EachDiff THEN op.i - 1 ELSE 0)' BY <2>4, <3>4, <3>5
    <3> QED BY <2>2, <2>4, <2>6, <3>1, <3>5, <3>6 DEF Gathered
  <2> QED BY <2>4, <2>5, <2>6
<1>3. CASE Stash
  <2>1. op \in MergeCommand /\ op.kind = "merge" /\ op.step = "stash"
    BY <1>3, KindOfCommand DEF Stash, Running, Inv
  <2>2. op'.step = "recovery" /\ op'.i = op.i BY <1>3, <2>1 DEF Stash, MergeCommand
  <2> QED BY <2>1, <2>2 DEF Gathered
<1>4. CASE ApplyDiff
  <2>1. op \in MergeCommand /\ op.kind = "merge" /\ op.step = "apply"
    BY <1>4, KindOfCommand DEF ApplyDiff, Running, Inv
  <2>2. UNCHANGED <<branch, at, stash, commands, late>> /\ tree' = tree \union Run[op.i]
    BY <1>4 DEF ApplyDiff, ghosts
  <2>3. /\ op.i \in 1 .. Len(Run) /\ Len(Run) \in Nat /\ Run[op.i] \subseteq Ran
        /\ op.strategy \in {"cherry-pick", "squash", "worktree"}
    BY <2>1, RunTyped, RanTyped DEF MergeCommand
  <2>4. /\ op'.before = op.before /\ op'.target = op.target /\ op'.strategy = op.strategy
        /\ op'.kind = "merge" /\ op'.ok = op.ok /\ op'.entry = op.entry
    BY <1>4, <2>1 DEF ApplyDiff, MergeCommand
  <2>5. /\ at = op.target /\ Grown(IF EachDiff THEN op.i - 1 ELSE 0)
        /\ tree \intersect Ran = IF EachDiff THEN {} ELSE UNION {Run[k] : k \in 1 .. (op.i - 1)}
    BY <2>1 DEF Gathered
  <2>6. Picks' = Picks /\ EachDiff' = EachDiff BY <2>4 DEF Picks, EachDiff
  <2>7. CASE EachDiff
    <3>1. op'.step = "commit" /\ op'.i = op.i
      BY <1>4, <2>1, <2>7 DEF ApplyDiff, EachDiff, MergeCommand
    <3>2. PICK n : n = op.i - 1 OBVIOUS
    <3>3. Grown(n)' BY <2>2, <2>4, <2>5, <2>7, <3>2, GrownSame
    <3>4. Grown(IF EachDiff THEN op.i - 1 ELSE 0)' BY <2>6, <2>7, <3>1, <3>2, <3>3
    <3>5. tree' \intersect Ran = Run[op.i] BY <2>2, <2>3, <2>5, <2>7
    <3>6. op'.strategy # "worktree" BY <2>4, <2>7 DEF EachDiff
    <3> QED BY <2>2, <2>4, <2>5, <2>6, <2>7, <3>1, <3>4, <3>5, <3>6 DEF Gathered
  <2>8. CASE ~EachDiff
    <3>1. Grown(0)' BY <2>2, <2>4, <2>5, <2>8, GrownSame
    <3>2. tree' \intersect Ran = UNION {Run[k] : k \in 1 .. op.i}
      <4>1. \A k \in 1 .. op.i : k \in 1 .. (op.i - 1) \/ k = op.i BY <2>3
      <4>2. \A k \in 1 .. (op.i - 1) : k \in 1 .. op.i BY <2>3
      <4>3. op.i \in 1 .. op.i BY <2>3
      <4>4. tree' \intersect Ran = Run[op.i] \union UNION {Run[k] : k \in 1 .. (op.i - 1)}
        BY <2>2, <2>3, <2>5, <2>8
      <4> QED BY <4>1, <4>2, <4>3, <4>4
    <3>3. CASE op.i < Len(Run)
      <4>1. op'.step = "apply" /\ op'.i = op.i + 1
        BY <1>4, <2>1, <2>8, <3>3 DEF ApplyDiff, EachDiff, MergeCommand
      <4>2. op'.i - 1 = op.i BY <2>3, <4>1
      <4>3. Grown(IF EachDiff THEN op.i - 1 ELSE 0)' BY <2>6, <2>8, <3>1
      <4> QED BY <2>2, <2>4, <2>5, <2>6, <2>8, <3>2, <4>1, <4>2, <4>3 DEF Gathered
    <3>4. CASE ~(op.i < Len(Run))
      <4>1. op.i = Len(Run) BY <2>3, <3>4
      <4>2. tree' \intersect Ran = Ran
        BY <3>2, <4>1, RunTyped DEF Ran, Range
      <4>3. CASE op.strategy = "squash"
        <5>1. op'.step = "commit" /\ op'.i = op.i
          BY <1>4, <2>1, <2>8, <3>4, <4>3 DEF ApplyDiff, EachDiff, MergeCommand
        <5>2. Grown(IF EachDiff THEN op.i - 1 ELSE 0)' BY <2>6, <2>8, <3>1
        <5> QED BY <2>2, <2>4, <2>5, <2>6, <2>8, <4>1, <4>2, <4>3, <5>1, <5>2 DEF Gathered
      <4>4. CASE op.strategy = "worktree"
        <5>1. op'.step = Applied
          BY <1>4, <2>1, <2>8, <3>4, <4>4 DEF ApplyDiff, EachDiff, MergeCommand
        <5>2. Len(Picks) = 0 BY <2>1, <4>4, PicksTyped
        <5>3. Grown(Len(Picks))' BY <2>6, <3>1, <5>2
        <5>4. op'.step = "done" => op'.before.tree \subseteq tree'
          BY <2>1, <2>2, <2>4, <5>1 DEF Applied, InHand, Busy
        <5>5. op'.step \in {"restore", "done"} BY <5>1 DEF Applied
        <5> QED BY <2>2, <2>4, <2>5, <4>2, <5>3, <5>4, <5>5 DEF Gathered
      <4> QED BY <2>3, <2>8, <4>3, <4>4 DEF EachDiff
    <3> QED BY <3>3, <3>4
  <2> QED BY <2>7, <2>8
<1>5. CASE CommitMerged
  <2>1. op \in MergeCommand /\ op.kind = "merge" /\ op.step = "commit"
    BY <1>5, KindOfCommand DEF CommitMerged, Running, Inv
  <2>2. UNCHANGED <<at, commands, late>> /\ tree' = tree \ Staged
    BY <1>5 DEF CommitMerged, ghosts
  <2>3. /\ op.i \in 1 .. Len(Run) /\ Len(Run) \in Nat /\ Run[op.i] # {}
        /\ op.strategy \in {"cherry-pick", "squash"} /\ late \subseteq Mine
        /\ Run[op.i] \subseteq Ran
    BY <2>1, RunTyped, RanTyped DEF MergeCommand, Gathered, Inv, TypeOK
  <2>4. /\ op'.before = op.before /\ op'.target = op.target /\ op'.strategy = op.strategy
        /\ op'.kind = "merge" /\ op'.ok = op.ok /\ op'.entry = op.entry
        /\ op'.step = IF op.i < Len(Run) THEN "apply" ELSE Applied
        /\ op'.i = IF op.i < Len(Run) THEN op.i + 1 ELSE op.i
    BY <1>5, <2>1 DEF CommitMerged, MergeCommand
  <2>5. /\ at = op.target /\ Grown(IF EachDiff THEN op.i - 1 ELSE 0)
        /\ tree \intersect Ran = IF EachDiff THEN Run[op.i] ELSE Ran
        /\ ~EachDiff => op.i = Len(Run)
    BY <2>1 DEF Gathered
  <2>6. Picks' = Picks /\ EachDiff' = EachDiff BY <2>4 DEF Picks, EachDiff
  <2>7. Staged \ late = tree \intersect Ran
    <3>1. tree \subseteq Mine \union Ran BY DEF NoBase
    <3>2. tree \intersect Mine \subseteq Config \union late BY <2>1 DEF Inv, Working, Busy
    <3> QED BY <2>3, <3>1, <3>2, RanTyped DEF Staged
  <2>8. (IF EachDiff THEN op.i - 1 ELSE 0) \in Nat BY <2>3
  <2>9. PICK n \in Nat : n = IF EachDiff THEN op.i - 1 ELSE 0 BY <2>8
  <2>10. /\ n < Len(Picks) /\ Picks[n + 1] = tree \intersect Ran /\ Picks[n + 1] # {}
         /\ EachDiff => n + 1 = op.i /\ Len(Picks) = Len(Run)
         /\ ~EachDiff => n + 1 = Len(Picks)
    <3>1. CASE EachDiff
      <4>1. n = op.i - 1 /\ n + 1 = op.i BY <2>3, <2>9, <3>1
      <4>2. Picks = Run BY <2>1, <3>1, PicksTyped
      <4> QED BY <2>3, <2>5, <3>1, <4>1, <4>2
    <3>2. CASE ~EachDiff
      <4>1. n = 0 BY <2>9, <3>2
      <4>2. Len(Picks) = 1 /\ Picks[1] = Ran BY <2>1, <2>3, <3>2, PicksTyped DEF EachDiff
      <4> QED BY <2>3, <2>5, <3>2, <4>1, <4>2
    <3> QED BY <3>1, <3>2
  <2>11. branch' = [branch EXCEPT ![at] = Append(@, <<commands, Staged>>)]
    BY <1>5, <2>7, <2>10 DEF CommitMerged
  <2>12. Staged \in SUBSET Changed BY DEF Staged, Inv, TypeOK
  <2>13. PICK s \in SUBSET Changed : s = Staged BY <2>12
  <2>14. Grown(n) BY <2>5, <2>9
  <2>15. Grown(n + 1)'
    BY <1>0, <2>1, <2>2, <2>4, <2>5, <2>7, <2>10, <2>11, <2>13, <2>14, GrownMore
  <2>16. tree' \intersect Ran = {} BY <2>2, RanTyped DEF Staged
  <2>17. CASE op.i < Len(Run)
    <3>1. EachDiff BY <2>3, <2>5, <2>17
    <3>2. op'.step = "apply" /\ op'.i - 1 = n + 1
      <4>1. op'.i - 1 = op.i BY <2>3, <2>4, <2>17
      <4> QED BY <2>4, <2>10, <2>17, <3>1, <4>1
    <3>3. Grown(IF EachDiff THEN op.i - 1 ELSE 0)' BY <2>6, <2>15, <3>1, <3>2
    <3> QED BY <2>2, <2>4, <2>5, <2>6, <2>16, <3>1, <3>2, <3>3 DEF Gathered
  <2>18. CASE ~(op.i < Len(Run))
    <3>1. op.i = Len(Run) BY <2>3, <2>18
    <3>2. n + 1 = Len(Picks) BY <2>10, <3>1
    <3>3. Grown(Len(Picks))' BY <2>6, <2>15, <3>2
    <3>4. op'.step = Applied /\ op'.step \in {"restore", "done"} BY <2>4, <2>18 DEF Applied
    <3>5. op'.step = "done" => op'.before.tree \subseteq tree'
      <4>1. op.entry = {} => op.before.tree \subseteq tree /\ op.before.tree \subseteq Config
        BY <2>1 DEF InHand, Entered, Busy
      <4> QED BY <2>2, <2>4, <3>4, <4>1 DEF Applied, Staged
    <3>6. op'.strategy # "worktree" BY <2>3, <2>4
    <3> QED BY <2>2, <2>4, <2>5, <3>3, <3>4, <3>5, <3>6 DEF Gathered
  <2> QED BY <2>17, <2>18
<1>6. CASE MergeFails \/ Rollback \/ ReturnToBranch
  <2>1. op \in MergeCommand /\ op.kind = "merge"
    BY <1>6, KindOfCommand DEF MergeFails, Rollback, ReturnToBranch, Running, Inv
  <2>2. op.step \in {"rollback", "return"} => ~op.ok BY <2>1 DEF Gathered
  <2>3. op'.step \in {"rollback", "return", "restore", "done"} /\ ~op'.ok
    BY <1>6, <2>1, <2>2
    DEF MergeFails, Rollback, ReturnToBranch, Running, To, Fails, AfterRollback, Applied,
        MergeCommand
  <2> QED BY <2>3 DEF Gathered
<1>7. CASE \E restored \in BOOLEAN : Restore(restored)
  <2>1. PICK restored \in BOOLEAN : Restore(restored) BY <1>7
  <2>2. op \in MergeCommand /\ op.kind = "merge" /\ op.step = "restore"
    BY <2>1, KindOfCommand DEF Restore, Running, Inv
  <2>3. /\ UNCHANGED <<branch, at, stash, commands, late>>
        /\ tree' = IF restored THEN tree \union op.entry ELSE tree
        /\ op' = [op EXCEPT !.step = "done", !.named = ~(restored /\ op.ok)]
    BY <2>1 DEF Restore, ghosts
  <2>4. /\ op'.kind = "merge" /\ op'.step = "done" /\ op'.ok = op.ok
        /\ op'.before = op.before /\ op'.entry = op.entry /\ op'.target = op.target
        /\ op'.strategy = op.strategy
    BY <2>2, <2>3 DEF MergeCommand
  <2>5. SUFFICES ASSUME op.ok PROVE Gathered' BY <2>4 DEF Gathered
  <2>6. ~restored => op'.named = TRUE
    <3>1. op'.named = ~(restored /\ op.ok) BY <2>2, <2>3, Zenon DEF MergeCommand
    <3> QED BY <3>1
  <2>7. op.entry \in stash /\ op.before.tree \subseteq op.entry BY <2>2 DEF Entered
  <2>8. /\ at = op.target /\ Grown(Len(Picks))
        /\ op.strategy = "worktree" => Ran \subseteq tree
    BY <2>2, <2>5 DEF Gathered
  <2>9. PICK n : n = Len(Picks) OBVIOUS
  <2>10. Grown(n)' /\ Picks' = Picks BY <2>3, <2>4, <2>8, <2>9, GrownSame
  <2>11. Grown(Len(Picks))' BY <2>9, <2>10
  <2>12. op'.before.tree \subseteq tree' \/ Named'
    BY <2>3, <2>4, <2>6, <2>7 DEF Named
  <2> QED BY <2>3, <2>4, <2>8, <2>11, <2>12 DEF Gathered
<1> QED BY <1>1, <1>2, <1>3, <1>4, <1>5, <1>6, <1>7 DEF MergeNext

LEMMA StaysAMerge == ASSUME TypeOK, MergeNext PROVE op'.kind = "merge"
<1>1. CASE \E strategy \in {"cherry-pick", "squash", "worktree"}, allowDirty \in BOOLEAN,
              into \in {"here"} \union Branches : Merge(strategy, into, allowDirty)
  BY <1>1 DEF Merge
<1>2. CASE CheckoutTarget \/ Stash \/ ApplyDiff \/ CommitMerged
  <2>1. op \in MergeCommand /\ op.kind = "merge"
    BY <1>2, KindOfCommand DEF CheckoutTarget, Stash, ApplyDiff, CommitMerged, Running
  <2> QED
    BY <1>2, <2>1 DEF CheckoutTarget, Stash, ApplyDiff, CommitMerged, To, Fails, MergeCommand
<1>3. CASE MergeFails \/ Rollback \/ ReturnToBranch
  <2>1. op \in MergeCommand /\ op.kind = "merge"
    BY <1>3, KindOfCommand DEF MergeFails, Rollback, ReturnToBranch, Running
  <2> QED BY <1>3, <2>1 DEF MergeFails, Rollback, ReturnToBranch, To, Fails, MergeCommand
<1>4. CASE \E done \in BOOLEAN : WriteRecovery(done) \/ Restore(done)
  <2>1. op \in MergeCommand /\ op.kind = "merge"
    BY <1>4, KindOfCommand DEF WriteRecovery, Restore, Running
  <2> QED BY <1>4, <2>1 DEF WriteRecovery, Restore, MergeCommand
<1> QED BY <1>1, <1>2, <1>3, <1>4 DEF MergeNext

LEMMA PartsKept ==
    ASSUME Reversible, Inv', UnderWay, Gathered, [Next]_vars
    PROVE  UnderWay' /\ Gathered'
<1>0. TypeOK BY DEF Reversible, Inv
<1>1. CASE UserNext
  <2>1. Gathered' BY <1>1, UserKeepsGathered DEF Reversible
  <2>2. op'.kind \notin {"deliver", "apply"}
    BY <1>1 DEF UserNext, Edit, Commit, Switch, Between, Idle
  <2> QED BY <2>1, <2>2 DEF UnderWay
<1>2. CASE BranchNext \/ DeliverNext
  <2>1. UnderWay' BY <1>0, <1>2, BranchKeepsUnderWay
  <2>2. op'.kind # "merge" BY <1>2, NotAMerge DEF Reversible, Inv
  <2> QED BY <2>1, <2>2 DEF Gathered
<1>3. CASE MergeNext
  <2>1. Gathered' BY <1>3, MergeKeepsGathered
  <2>2. op'.kind = "merge" BY <1>0, <1>3, StaysAMerge
  <2> QED BY <2>1, <2>2 DEF UnderWay
<1>4. CASE Kill BY <1>4 DEF Kill, Idle, UnderWay, Gathered
<1>5. CASE UNCHANGED vars
  <2>1. op' = op /\ UNCHANGED <<branch, remote, at, tree, stash, commands, late>>
    BY <1>5 DEF vars
  <2>2. /\ Whole' = Whole /\ Picks' = Picks /\ EachDiff' = EachDiff /\ Named' = Named
        /\ Changes(branch[at])' = Changes(branch[at])
    BY <2>1 DEF Whole, Picks, EachDiff, Named, Changes
  <2>3. \A n : (Begun(n) => Begun(n)') /\ (Grown(n) => Grown(n)')
    BY <2>1, <2>2 DEF Begun, Grown
  <2>4. UnderWay' BY <2>1, <2>2, <2>3 DEF UnderWay
  <2>5. Gathered' BY <2>1, <2>2, <2>3 DEF Gathered
  <2> QED BY <2>4, <2>5
<1> QED BY <1>1, <1>2, <1>3, <1>4, <1>5 DEF Next

\* A command that succeeds has delivered the commits of the run, and no more.
THEOREM DeliveryIsExact == Spec => []DeliversTheRun
<1> DEFINE All == Reversible /\ UnderWay /\ Gathered
<1>1. Init => All
  BY InitReversible DEF Init, Idle, UnderWay, Gathered
<1>2. All /\ [Next]_vars => All'
  <2> SUFFICES ASSUME All, [Next]_vars PROVE All' OBVIOUS
  <2>1. Inv'
    BY UserKeepsInv, BranchKeepsInv, MergeKeepsInv, KillKeepsInv DEF Next, Reversible
  <2>2. Reversible'
    BY <2>1, UserKeepsReversible, BranchKeepsReversible, MergeKeepsReversible,
       KillKeepsReversible DEF Next
  <2> QED BY <2>1, <2>2, PartsKept
<1>3. All => DeliversTheRun BY PartsDeliver DEF Reversible, Inv
<1> HIDE DEF All
<1> QED BY <1>1, <1>2, <1>3, PTL DEF Spec

-----------------------------------------------------------------------------
(* The repository. *)

LEMMA StepsOfDelivery ==
    ASSUME [DeliveryNext]_<<vars, session, stage>> PROVE [Next]_vars
<1>1. CASE UNCHANGED vars BY <1>1
<1>2. CASE DeliverNext \/ UserNext \/ BranchNext \/ MergeNext \/ Kill BY <1>2 DEF Next
<1> QED BY <1>1, <1>2 DEF DeliveryNext, EndSession

\* The repository goes through a behaviour of HostDelivery, whatever the
\* session did.
THEOREM RunImplementsHostDelivery == DeliverySpec => Spec
<1>1. DeliveryInit => Init BY DEF DeliveryInit
<1>2. [DeliveryNext]_<<vars, session, stage>> => [Next]_vars BY StepsOfDelivery
<1> QED BY <1>1, <1>2, PTL DEF DeliverySpec, Spec

\* Whatever the run, its delivery and the later commands on it do, each change
\* of the user is in the working tree, in a stash entry or in a commit, or is
\* one of the exceptions WorkIsKept names.
THEOREM WorkSurvivesTheRun == DeliverySpec => []WorkIsKept
BY RunImplementsHostDelivery, WorkSurvives, PTL

\* A merge that fails after any run leaves the repository as
\* FailedMergeRestores says.
THEOREM FailedMergesRestoreTheHost == DeliverySpec => []FailedMergeRestores
BY RunImplementsHostDelivery, FailedMergesRestore, PTL

\* What is delivered of a run, at once or by a later command, is its commits.
THEOREM RunIsDeliveredExactly == DeliverySpec => []DeliversTheRun
BY RunImplementsHostDelivery, DeliveryIsExact, PTL

-----------------------------------------------------------------------------
(* The session: what there is of each engine at each step of its life, and *)
(* what the cleanup has come by.                                           *)

Kinds == {"net", "compose", "coder", "image", "app", "tests"}

\* Steps in which the registry knows of the engine.
Active == {"net", "compose", "setup", "ready", "running", "image", "app", "staged",
           "tests", "finally", "thrown"}

Steps == {"idle", "detached", "removing", "closed", "paused"} \union Active

EnginesTyped ==
    /\ docker \subseteq Session!Engines \X Kinds
    /\ pc \in [Session!Engines -> Steps]
         /\ infra \in [Session!Engines -> SUBSET (Kinds \union Session!None)]
    /\ engines \in Seq(Session!Engines) /\ todo \in Seq(Session!Engines)
    /\ sig \in {"none", "hook", "next", "network", "exited"}
    /\ sig = "network" => todo # <<>>
    /\ sig = "exited" => todo = <<>>

\* A thing that one of the reasons is about.
Excused(e, k) == <<e, k>> \in unreturned \union missed

\* What there is of an engine at each step of its life.
Engine(e) ==
    /\ infra[e] = Session!None \/ infra[e] \subseteq Kinds
    /\ pc[e] \in {"idle", "net", "compose", "setup", "thrown"} => infra[e] = Session!None
    /\ e = 0 /\ pc[e] \in {"ready", "running"} => "coder" \in infra[e]
    /\ pc[e] = "paused" => e = 0
    /\ pc[e] = "compose" => e \in Composed
    /\ pc[e] \in {"ready", "running", "image", "app", "staged", "tests"}
         => infra[e] \subseteq Kinds
    /\ e = 0 => infra[e] = Session!None \/ infra[e] \subseteq {"net", "compose", "coder"}
    /\ e = 0 => pc[e] \notin {"image", "app", "staged", "tests"}
    /\ \A k \in Kinds : <<e, k>> \in docker =>
         /\ k \in infra[e] \/ Excused(e, k)
         /\ pc[e] \notin {"idle", "net"}
         /\ pc[e] = "compose" => k = "net"
         /\ pc[e] = "setup" => k = "net" \/ (k = "compose" /\ e \in Composed)
         /\ pc[e] = "ready" => k \in infra[e]
         /\ pc[e] = "image" => k \in infra[e] \union {"image"}
         /\ pc[e] = "app" => k \in infra[e] \union {"image", "app"}
         /\ pc[e] = "removing" => k = "net" \/ Excused(e, k)
         /\ pc[e] \in {"closed", "thrown"} => Excused(e, k)
         /\ pc[e] = "paused" => k \in {"net", "compose"} \/ Excused(e, k)

\* Until the cleanup the registry knows of every engine that has anything to
\* tear down.
Registered(e) == sig \in {"none", "hook"} /\ pc[e] \in Active => e \in Session!Range(engines)

\* What the cleanup leaves of an engine it has come by.
Cleaned(e) ==
    Session!CleanedUp(e) => \A k \in Kinds : <<e, k>> \in docker =>
        \/ Excused(e, k)
        \/ pc[e] \in {"detached", "removing"}
        \/ pc[e] = "paused" /\ k \in {"net", "compose"}
        \/ sig = "network" /\ Head(todo) = e /\ k = "net" /\ held # Session!None

WholeEngine(e) == Engine(e) /\ Registered(e) /\ Cleaned(e)

EnginesInv == EnginesTyped /\ \A e \in Session!Engines : WholeEngine(e)

-----------------------------------------------------------------------------

LEMMA EnginesBegin == Session!Init => EnginesInv
BY DEF Session!Init, EnginesInv, EnginesTyped, WholeEngine, Engine, Registered, Cleaned,
     Session!CleanedUp, Steps, Active

LEMMA AppendRange ==
    ASSUME NEW s \in Seq(Session!Engines), NEW e \in Session!Engines
    PROVE  Append(s, e) \in Seq(Session!Engines) /\ e \in Session!Range(Append(s, e))
           /\ Session!Range(s) \subseteq Session!Range(Append(s, e))
<1>1. /\ Append(s, e) \in Seq(Session!Engines) /\ Len(Append(s, e)) = Len(s) + 1
      /\ \A i \in 1 .. Len(s) : Append(s, e)[i] = s[i]
      /\ Append(s, e)[Len(s) + 1] = e
  BY AppendProperties
<1>2. Len(s) \in Nat /\ DOMAIN s = 1 .. Len(s) /\ DOMAIN Append(s, e) = 1 .. Len(s) + 1
  BY <1>1, LenProperties
<1>3. DOMAIN s \subseteq DOMAIN Append(s, e) /\ Len(s) + 1 \in DOMAIN Append(s, e) BY <1>2
<1> QED BY <1>1, <1>2, <1>3 DEF Session!Range

\* The engines a step of another one leaves alone.
LEMMA Others ==
    ASSUME NEW f \in Session!Engines, WholeEngine(f), pc'[f] = pc[f], infra'[f] = infra[f],
           UNCHANGED <<sig, todo, held>>,
           \A k \in Kinds : /\ <<f, k>> \in docker' => <<f, k>> \in docker
                            /\ Excused(f, k) => Excused(f, k)',
           f \in Session!Range(engines) => f \in Session!Range(engines')
    PROVE  WholeEngine(f)'
<1>1. Session!CleanedUp(f)' = Session!CleanedUp(f) BY DEF Session!CleanedUp
<1>2. Engine(f)' BY DEF WholeEngine, Engine
<1>3. Registered(f)' BY DEF WholeEngine, Registered
<1>4. Cleaned(f)' BY <1>1 DEF WholeEngine, Cleaned
<1> QED BY <1>2, <1>3, <1>4 DEF WholeEngine

\* A step of engine e, which needs an argument for e alone.
LEMMA OneEngine ==
    ASSUME EnginesInv, NEW e \in Session!Engines, NEW from, NEW to \in Steps,
           Session!Go(e, from, to),
           UNCHANGED <<sig, todo, held>>,
           engines' \in Seq(Session!Engines),
           \A f \in Session!Engines \ {e} : f \in Session!Range(engines)
             => f \in Session!Range(engines'),
           docker' \subseteq Session!Engines \X Kinds,
           infra' \in [Session!Engines -> SUBSET (Kinds \union Session!None)],
           \A f \in Session!Engines \ {e} : infra'[f] = infra[f],
           \A f \in Session!Engines \ {e} : \A k \in Kinds :
               /\ <<f, k>> \in docker' => <<f, k>> \in docker
               /\ Excused(f, k) => Excused(f, k)',
           WholeEngine(e)'
    PROVE  EnginesInv'
<1>1. pc' \in [Session!Engines -> Steps] /\ \A f \in Session!Engines \ {e} : pc'[f] = pc[f]
  BY DEF Session!Go, EnginesInv, EnginesTyped
<1>2. EnginesTyped' BY <1>1 DEF EnginesInv, EnginesTyped
<1>3. \A f \in Session!Engines \ {e} : WholeEngine(f)' BY <1>1, Others DEF EnginesInv
<1> QED BY <1>2, <1>3 DEF EnginesInv

\* What a step makes after the cleanup has come by is missed.
LEMMA MakesIt ==
    ASSUME EnginesTyped, NEW e \in Session!Engines, NEW k \in Kinds, Session!Makes(e, {k})
    PROVE  /\ docker' = docker \union {<<e, k>>} /\ docker' \subseteq Session!Engines \X Kinds
           /\ Excused(e, k)'
           /\ Session!CleanedUp(e) => <<e, k>> \in missed'
           /\ \A f \in Session!Engines, j \in Kinds : Excused(f, j) => Excused(f, j)'
<1>1. Session!Things(e, {k}) = {<<e, k>>} BY DEF Session!Things
<1>2. missed' = IF Session!CleanedUp(e) THEN missed \union {<<e, k>>} ELSE missed
  BY <1>1 DEF Session!Makes, Session!TooLate
<1>3. docker' = docker \union {<<e, k>>} /\ unreturned' = unreturned \union {<<e, k>>}
  BY <1>1 DEF Session!Makes
<1>4. <<e, k>> \in Session!Engines \X Kinds OBVIOUS
<1>5. docker' \subseteq Session!Engines \X Kinds BY <1>3, <1>4 DEF EnginesTyped
<1>6. unreturned \subseteq unreturned' /\ missed \subseteq missed' BY <1>2, <1>3
<1> QED BY <1>2, <1>3, <1>5, <1>6 DEF Excused

\* A step that returns leaves nothing without an excuse.
LEMMA ReturnsIt ==
    ASSUME EnginesTyped, NEW e \in Session!Engines, NEW what \in SUBSET Kinds,
           Session!Returns(e, what)
    PROVE  /\ infra' = [infra EXCEPT ![e] = what] /\ UNCHANGED docker
           /\ Session!CleanedUp(e) => \A k \in what : <<e, k>> \in missed'
           /\ \A f \in Session!Engines \ {e}, j \in Kinds : Excused(f, j) => Excused(f, j)'
           /\ \A j \in Kinds : <<e, j>> \in missed => <<e, j>> \in missed'
<1>1. Session!Things(e, what) = {e} \X what BY DEF Session!Things
<1>2. missed' = IF Session!CleanedUp(e) THEN missed \union ({e} \X what) ELSE missed
  BY <1>1 DEF Session!Returns, Session!TooLate
<1>3. unreturned' = unreturned \ {x \in docker : x[1] = e} BY DEF Session!Returns, Session!Of
<1> QED BY <1>2, <1>3 DEF Session!Returns, Excused, EnginesTyped

LEMMA SetUpKeepsEngines ==
    ASSUME EnginesInv, TestRetries \in Nat, NEW e \in Session!Engines,
           Session!CreateNetwork(e) \/ Session!ComposeUp(e) \/ Session!SetupReturns(e)
             \/ Session!SetupThrows(e)
    PROVE  EnginesInv'
<1>1. EnginesTyped /\ WholeEngine(e) BY DEF EnginesInv
<1>2. CASE Session!CreateNetwork(e)
  <2> DEFINE to == IF e \in Composed THEN "compose" ELSE "setup"
  <2>1. /\ Session!Go(e, "net", to) /\ to \in Steps /\ Session!Makes(e, {"net"})
        /\ UNCHANGED <<sig, todo, held, infra, engines>>
    BY <1>2 DEF Session!CreateNetwork, Session!Kept, Steps, Active
  <2>2. pc[e] = "net" /\ pc'[e] = to BY <1>1, <2>1 DEF Session!Go, EnginesTyped
  <2>3. /\ docker' = docker \union {<<e, "net">>} /\ docker' \subseteq Session!Engines \X Kinds
        /\ Excused(e, "net")' /\ (Session!CleanedUp(e) => <<e, "net">> \in missed')
        /\ \A f \in Session!Engines, j \in Kinds : Excused(f, j) => Excused(f, j)'
    BY <1>1, <2>1, MakesIt DEF Kinds
  <2>4. Engine(e)' BY <1>1, <2>1, <2>2, <2>3 DEF WholeEngine, Engine
  <2>5. Registered(e)' BY <1>1, <2>1, <2>2 DEF WholeEngine, Registered, Active
  <2>6. Session!CleanedUp(e)' = Session!CleanedUp(e) BY <2>1 DEF Session!CleanedUp
  <2>7. Cleaned(e)' BY <1>1, <2>2, <2>3, <2>6 DEF WholeEngine, Engine, Cleaned, Excused
  <2> QED BY <1>1, <2>1, <2>3, <2>4, <2>5, <2>7, OneEngine DEF WholeEngine, EnginesTyped
<1>3. CASE Session!ComposeUp(e)
  <2>1. /\ Session!Go(e, "compose", "setup") /\ "setup" \in Steps
             /\ Session!Makes(e, {"compose"})
        /\ UNCHANGED <<sig, todo, held, infra, engines>>
    BY <1>3 DEF Session!ComposeUp, Session!Kept, Steps, Active
  <2>2. pc[e] = "compose" /\ pc'[e] = "setup" BY <1>1, <2>1 DEF Session!Go, EnginesTyped
  <2>3. /\ docker' = docker \union {<<e, "compose">>}
             /\ docker' \subseteq Session!Engines \X Kinds
        /\ Excused(e, "compose")' /\ (Session!CleanedUp(e) => <<e, "compose">> \in missed')
        /\ \A f \in Session!Engines, j \in Kinds : Excused(f, j) => Excused(f, j)'
    BY <1>1, <2>1, MakesIt DEF Kinds
  <2>4. e \in Composed BY <1>1, <2>2 DEF WholeEngine, Engine
  <2>5. Engine(e)' BY <1>1, <2>1, <2>2, <2>3, <2>4 DEF WholeEngine, Engine
  <2>6. Registered(e)' BY <1>1, <2>1, <2>2 DEF WholeEngine, Registered, Active
  <2>7. Session!CleanedUp(e)' = Session!CleanedUp(e) BY <2>1 DEF Session!CleanedUp
  <2>8. Cleaned(e)' BY <1>1, <2>1, <2>2, <2>3, <2>7 DEF WholeEngine, Cleaned
  <2> QED BY <1>1, <2>1, <2>3, <2>5, <2>6, <2>8, OneEngine DEF WholeEngine, EnginesTyped
<1>4. CASE Session!SetupReturns(e)
  <2> DEFINE what == {"net"} \union (IF e \in Composed THEN {"compose"} ELSE {})
                             \union (IF e = 0 THEN {"coder"} ELSE {})
  <2>1. /\ Session!Go(e, "setup", "ready") /\ "ready" \in Steps /\ Session!Returns(e, what)
        /\ UNCHANGED <<sig, todo, held, engines>>
    BY <1>4 DEF Session!SetupReturns, Session!Kept, Steps, Active
  <2>2. pc[e] = "setup" /\ pc'[e] = "ready" BY <1>1, <2>1 DEF Session!Go, EnginesTyped
  <2>3. what \in SUBSET Kinds BY DEF Kinds
  <2>4. /\ infra' = [infra EXCEPT ![e] = what] /\ UNCHANGED docker
        /\ Session!CleanedUp(e) => \A k \in what : <<e, k>> \in missed'
        /\ \A f \in Session!Engines \ {e}, j \in Kinds : Excused(f, j) => Excused(f, j)'
    BY <1>1, <2>1, <2>3, ReturnsIt
  <2>5. \A k \in Kinds : <<e, k>> \in docker => k \in what
    BY <1>1, <2>2 DEF WholeEngine, Engine
  <2>6. e = 0 => what \subseteq {"net", "compose", "coder"} /\ "coder" \in what OBVIOUS
  <2> HIDE DEF what
  <2>7. infra'[e] = what /\ infra' \in [Session!Engines -> SUBSET (Kinds \union Session!None)]
    BY <1>1, <2>3, <2>4 DEF EnginesTyped
  <2>8. Engine(e)' BY <2>2, <2>3, <2>4, <2>5, <2>6, <2>7 DEF Engine
  <2>9. Registered(e)' BY <1>1, <2>1, <2>2 DEF WholeEngine, Registered, Active
  <2>10. Session!CleanedUp(e)' = Session!CleanedUp(e) BY <2>1 DEF Session!CleanedUp
  <2>11. Cleaned(e)' BY <2>4, <2>5, <2>10 DEF Cleaned, Excused
  <2>12. \A f \in Session!Engines \ {e} : infra'[f] = infra[f] BY <2>4
  <2>13. docker' \subseteq Session!Engines \X Kinds BY <1>1, <2>4 DEF EnginesTyped
  <2> QED BY <1>1, <2>1, <2>4, <2>7, <2>8, <2>9, <2>11, <2>12, <2>13, OneEngine
       DEF WholeEngine, EnginesTyped
<1>5. CASE Session!SetupThrows(e)
  <2> DEFINE to == IF e = 0 THEN "finally" ELSE "thrown"
  <2>1. /\ Session!Go(e, pc[e], to) /\ to \in Steps /\ pc[e] \in {"net", "compose", "setup"}
        /\ UNCHANGED <<docker, unreturned, missed, sig, todo, held, infra, engines>>
    BY <1>5 DEF Session!SetupThrows, Session!MakesNothing, Session!Kept, Steps, Active
  <2>2. pc'[e] = to BY <1>1, <2>1 DEF Session!Go, EnginesTyped
  <2>3. Engine(e)' BY <1>1, <2>1, <2>2 DEF WholeEngine, Engine, Excused, Session!None, Kinds
  <2>4. Registered(e)' BY <1>1, <2>1, <2>2 DEF WholeEngine, Registered, Active
  <2>5. Session!CleanedUp(e)' = Session!CleanedUp(e) BY <2>1 DEF Session!CleanedUp
  <2>6. Cleaned(e)' BY <1>1, <2>1, <2>2, <2>5 DEF WholeEngine, Cleaned, Excused
  <2>7. \A f \in Session!Engines, k \in Kinds : Excused(f, k)' = Excused(f, k) BY <2>1
          DEF Excused
  <2> QED BY <1>1, <2>1, <2>3, <2>4, <2>6, <2>7, OneEngine DEF WholeEngine, EnginesTyped
<1> QED BY <1>2, <1>3, <1>4, <1>5

LEMMA RegisterKeepsEngines ==
    ASSUME EnginesInv, TestRetries \in Nat, NEW e \in Session!Engines,
           Session!Go(e, "idle", "net"), Session!Register(e)
    PROVE  EnginesInv'
<1>1. EnginesTyped /\ WholeEngine(e) BY DEF EnginesInv
<1>2. /\ engines' = Append(engines, e)
      /\ UNCHANGED <<docker, unreturned, missed, sig, todo, held, infra>>
  BY DEF Session!Register, Session!MakesNothing, Session!Kept
<1>3. engines' \in Seq(Session!Engines) /\ e \in Session!Range(engines')
        /\ Session!Range(engines) \subseteq Session!Range(engines')
  BY <1>1, <1>2, AppendRange DEF EnginesTyped
<1>4. pc[e] = "idle" /\ pc'[e] = "net" BY <1>1 DEF Session!Go, EnginesTyped
<1>5. Engine(e)' BY <1>1, <1>2, <1>4 DEF WholeEngine, Engine
<1>6. Registered(e)' BY <1>3 DEF Registered
<1>7. Cleaned(e)' BY <1>1, <1>2, <1>4 DEF WholeEngine, Engine, Cleaned
<1>8. \A f \in Session!Engines, k \in Kinds : Excused(f, k)' = Excused(f, k) BY <1>2 DEF Excused
<1>9. "net" \in Steps BY DEF Steps, Active
<1> QED BY <1>1, <1>2, <1>3, <1>5, <1>6, <1>7, <1>8, <1>9, OneEngine DEF WholeEngine,
     EnginesTyped

LEMMA AgentKeepsEngines ==
    ASSUME EnginesInv, TestRetries \in Nat, Session!RunAgent \/ Session!AgentEnds
           PROVE EnginesInv'
<1>1. EnginesTyped /\ 0 \in Session!Engines /\ WholeEngine(0) BY DEF EnginesInv, Session!Engines
<1>2. CASE Session!RunAgent
  <2>1. /\ Session!Go(0, "ready", "running") /\ docker' = docker \union {<<0, "coder">>}
        /\ missed' = IF Session!CleanedUp(0) THEN missed \union {<<0, "coder">>} ELSE missed
        /\ UNCHANGED <<sig, todo, held, infra, engines, unreturned>>
    BY <1>2 DEF Session!RunAgent, Session!Coder, Session!Kept, Session!TooLate, Session!Things
  <2>2. pc[0] = "ready" /\ pc'[0] = "running" BY <1>1, <2>1 DEF Session!Go, EnginesTyped
  <2>3. missed \subseteq missed' /\ (Session!CleanedUp(0) => <<0, "coder">> \in missed') BY <2>1
  <2>4. \A f \in Session!Engines, k \in Kinds : Excused(f, k) => Excused(f, k)'
    BY <2>1, <2>3 DEF Excused
  <2>5. Engine(0)' BY <1>1, <2>1, <2>2, <2>4 DEF WholeEngine, Engine
  <2>6. Registered(0)' BY <1>1, <2>1, <2>2 DEF WholeEngine, Registered, Active
  <2>7. Session!CleanedUp(0)' = Session!CleanedUp(0) BY <2>1 DEF Session!CleanedUp
  <2>8. Cleaned(0)'
    <3>1. Session!CleanedUp(0) => Excused(0, "coder")' BY <2>3 DEF Excused
    <3> QED BY <1>1, <2>1, <2>2, <2>4, <2>7, <3>1 DEF WholeEngine, Cleaned
  <2>9. <<0, "coder">> \in Session!Engines \X Kinds BY <1>1 DEF Kinds
  <2>10. docker' \subseteq Session!Engines \X Kinds BY <1>1, <2>1, <2>9 DEF EnginesTyped
  <2>11. "running" \in Steps BY DEF Steps, Active
  <2> QED BY <1>1, <2>1, <2>4, <2>5, <2>6, <2>8, <2>10, <2>11, OneEngine DEF WholeEngine,
       EnginesTyped
<1>3. CASE Session!AgentEnds
  <2>1. /\ Session!Go(0, pc[0], "finally") /\ pc[0] \in {"ready", "running"}
             /\ "finally" \in Steps
        /\ UNCHANGED <<docker, missed, sig, todo, held, infra, engines, unreturned>>
    BY <1>3 DEF Session!AgentEnds, Session!MakesNothing, Session!Kept, Steps, Active
  <2>2. pc'[0] = "finally" BY <1>1, <2>1 DEF Session!Go, EnginesTyped
  <2>3. Engine(0)' BY <1>1, <2>1, <2>2 DEF WholeEngine, Engine, Excused
  <2>4. Registered(0)' BY <1>1, <2>1, <2>2 DEF WholeEngine, Registered, Active
  <2>5. Session!CleanedUp(0)' = Session!CleanedUp(0) BY <2>1 DEF Session!CleanedUp
  <2>6. Cleaned(0)' BY <1>1, <2>1, <2>2, <2>5 DEF WholeEngine, Cleaned, Excused
  <2>7. \A f \in Session!Engines, k \in Kinds : Excused(f, k)' = Excused(f, k) BY <2>1
          DEF Excused
  <2> QED BY <1>1, <2>1, <2>3, <2>4, <2>6, <2>7, OneEngine DEF WholeEngine, EnginesTyped
<1> QED BY <1>2, <1>3

\* A step of an engine that makes one thing and goes from one step to the next.
LEMMA MakesKeepsEngines ==
    ASSUME EnginesInv, NEW e \in Session!Engines, e # 0, NEW k \in Kinds, NEW from, NEW to,
           <<from, to, k>> \in {<<"ready", "image", "image">>, <<"image", "app", "app">>,
                                <<"staged", "tests", "tests">>},
           Session!Go(e, from, to), Session!Makes(e, {k}), Session!Kept, UNCHANGED <<infra,
             engines>>
    PROVE  EnginesInv'
<1>1. EnginesTyped /\ WholeEngine(e) BY DEF EnginesInv
<1>2. UNCHANGED <<sig, todo, held>> BY DEF Session!Kept
<1>3. pc[e] = from /\ pc'[e] = to BY <1>1 DEF Session!Go, EnginesTyped
<1>4. /\ docker' = docker \union {<<e, k>>} /\ docker' \subseteq Session!Engines \X Kinds
      /\ Excused(e, k)'
      /\ \A f \in Session!Engines, j \in Kinds : Excused(f, j) => Excused(f, j)'
  BY <1>1, MakesIt
<1>5. Engine(e)' BY <1>1, <1>3, <1>4 DEF WholeEngine, Engine
<1>6. Registered(e)' BY <1>1, <1>2, <1>3 DEF WholeEngine, Registered, Active
<1>7. Session!CleanedUp(e)' = Session!CleanedUp(e) BY <1>2 DEF Session!CleanedUp
<1>8. Cleaned(e)' BY <1>1, <1>2, <1>3, <1>4, <1>7 DEF WholeEngine, Cleaned
<1>9. to \in Steps BY DEF Steps, Active
<1> QED BY <1>1, <1>2, <1>4, <1>5, <1>6, <1>8, <1>9, OneEngine DEF WholeEngine, EnginesTyped

LEMMA StagingKeepsEngines ==
    ASSUME EnginesInv, TestRetries \in Nat, NEW e \in Session!Engines,
           \/ Session!BuildImage(e) \/ Session!CreateApp(e) \/ Session!StagingReturns(e)
                \/ Session!CreateTests(e)
           \/ Session!StagingThrows(e)
                \/ \E result \in {"passed", "failed"} : Session!TestsEnd(e, result)
    PROVE  EnginesInv'
<1>1. EnginesTyped /\ WholeEngine(e) BY DEF EnginesInv
<1>2. e # 0
  BY <1>1 DEF Session!BuildImage, Session!CreateApp, Session!StagingReturns,
       Session!CreateTests, Session!StagingThrows, Session!TestsEnd, Session!Go,
     WholeEngine, Engine
<1>3. CASE Session!BuildImage(e) \/ Session!CreateApp(e) \/ Session!CreateTests(e)
  <2>1. "image" \in Kinds /\ "app" \in Kinds /\ "tests" \in Kinds BY DEF Kinds
  <2> QED BY <1>2, <1>3, <2>1, MakesKeepsEngines DEF Session!BuildImage, Session!CreateApp,
       Session!CreateTests
<1>4. CASE Session!StagingReturns(e)
  <2> DEFINE what == infra[e] \union {"image", "app"}
  <2>1. /\ Session!Go(e, "app", "staged") /\ "staged" \in Steps /\ Session!Returns(e, what)
        /\ UNCHANGED <<sig, todo, held, engines>>
    BY <1>4 DEF Session!StagingReturns, Session!Kept, Steps, Active
  <2>2. pc[e] = "app" /\ pc'[e] = "staged" BY <1>1, <2>1 DEF Session!Go, EnginesTyped
  <2>3. what \in SUBSET Kinds BY <1>1, <2>2 DEF WholeEngine, Engine, Kinds
  <2>4. /\ infra' = [infra EXCEPT ![e] = what] /\ UNCHANGED docker
        /\ Session!CleanedUp(e) => \A k \in what : <<e, k>> \in missed'
        /\ \A f \in Session!Engines \ {e}, j \in Kinds : Excused(f, j) => Excused(f, j)'
    BY <1>1, <2>1, <2>3, ReturnsIt
  <2>5. \A k \in Kinds : <<e, k>> \in docker => k \in what
    BY <1>1, <2>2 DEF WholeEngine, Engine
  <2> HIDE DEF what
  <2>6. infra'[e] = what /\ infra' \in [Session!Engines -> SUBSET (Kinds \union Session!None)]
    BY <1>1, <2>3, <2>4 DEF EnginesTyped
  <2>7. Engine(e)' BY <1>2, <2>2, <2>3, <2>4, <2>5, <2>6 DEF Engine
  <2>8. Registered(e)' BY <1>1, <2>1, <2>2 DEF WholeEngine, Registered, Active
  <2>9. Session!CleanedUp(e)' = Session!CleanedUp(e) BY <2>1 DEF Session!CleanedUp
  <2>10. Cleaned(e)' BY <2>4, <2>5, <2>9 DEF Cleaned, Excused
  <2>11. \A f \in Session!Engines \ {e} : infra'[f] = infra[f] BY <2>4
  <2>12. docker' \subseteq Session!Engines \X Kinds BY <1>1, <2>4 DEF EnginesTyped
  <2> QED BY <1>1, <2>1, <2>4, <2>6, <2>7, <2>8, <2>10, <2>11, <2>12, OneEngine
       DEF WholeEngine, EnginesTyped
<1>5. CASE Session!StagingThrows(e)
             \/ \E result \in {"passed", "failed"} : Session!TestsEnd(e, result)
  <2>1. /\ Session!Go(e, pc[e], "finally") /\ pc[e] \in {"ready", "image", "app", "tests"}
        /\ UNCHANGED <<sig, todo, held, infra, engines, missed>>
        /\ docker' \subseteq docker
        /\ \A f \in Session!Engines, k \in Kinds : <<f, k>> \in docker' /\ Excused(f, k)
             => Excused(f, k)'
        /\ \A f \in Session!Engines \ {e}, k \in Kinds : Excused(f, k) => Excused(f, k)'
    <3>1. CASE Session!StagingThrows(e) BY <3>1 DEF Session!StagingThrows, Excused
    <3>2. CASE \E result \in {"passed", "failed"} : Session!TestsEnd(e, result)
      BY <3>2 DEF Session!TestsEnd, Excused, Session!Go, Session!Things
    <3> QED BY <1>5, <3>1, <3>2
  <2>2. pc'[e] = "finally" BY <1>1, <2>1 DEF Session!Go, EnginesTyped
  <2>3. Engine(e)' BY <1>1, <1>2, <2>1, <2>2 DEF WholeEngine, Engine
  <2>4. Registered(e)' BY <1>1, <2>1, <2>2 DEF WholeEngine, Registered, Active
  <2>5. Session!CleanedUp(e)' = Session!CleanedUp(e) BY <2>1 DEF Session!CleanedUp
  <2>6. Cleaned(e)' BY <1>1, <2>1, <2>2, <2>5 DEF WholeEngine, Cleaned
  <2>7. "finally" \in Steps /\ docker' \subseteq Session!Engines \X Kinds
    BY <1>1, <2>1 DEF Steps, Active, EnginesTyped
  <2> QED BY <1>1, <2>1, <2>3, <2>4, <2>6, <2>7, OneEngine DEF WholeEngine, EnginesTyped
<1> QED BY <1>3, <1>4, <1>5

\* What is left when one element leaves a sequence.
LEMMA RemoveAtRange ==
    ASSUME NEW s \in Seq(Session!Engines), NEW i \in DOMAIN s
    PROVE  /\ Session!RemoveAt(s, i) \in Seq(Session!Engines)
           /\ \A f \in Session!Engines \ {s[i]} : f \in Session!Range(s)
                => f \in Session!Range(Session!RemoveAt(s, i))
<1> DEFINE a == SubSeq(s, 1, i - 1)
           b == SubSeq(s, i + 1, Len(s))
<1>1. Len(s) \in Nat /\ DOMAIN s = 1 .. Len(s) /\ i \in 1 .. Len(s) BY LenProperties
<1>2. \A j \in 1 .. Len(s) : s[j] \in Session!Engines BY ElementOfSeq
<1>3. /\ a \in Seq(Session!Engines) /\ Len(a) = i - 1
      /\ \A j \in 1 .. i - 1 : a[j] = s[j]
  <2>1. 1 \in Int /\ i - 1 \in Int /\ \A j \in 1 .. i - 1 : s[j] \in Session!Engines
    BY <1>1, <1>2
  <2>2. /\ a \in Seq(Session!Engines) /\ Len(a) = IF 1 <= i - 1 THEN i - 1 - 1 + 1 ELSE 0
        /\ \A j \in 1 .. i - 1 - 1 + 1 : a[j] = s[1 + j - 1]
    BY <2>1, SubSeqProperties
  <2> QED BY <1>1, <2>2
<1>4. /\ b \in Seq(Session!Engines) /\ Len(b) = Len(s) - i
      /\ \A j \in 1 .. Len(s) - i : b[j] = s[i + j]
  <2>1. i + 1 \in Int /\ Len(s) \in Int /\ \A j \in i + 1 .. Len(s) : s[j] \in Session!Engines
    BY <1>1, <1>2
  <2>2. /\ b \in Seq(Session!Engines)
        /\ Len(b) = IF i + 1 <= Len(s) THEN Len(s) - (i + 1) + 1 ELSE 0
        /\ \A j \in 1 .. Len(s) - (i + 1) + 1 : b[j] = s[i + 1 + j - 1]
    BY <2>1, SubSeqProperties
  <2> QED BY <1>1, <2>2
<1> HIDE DEF a, b
<1> DEFINE c == a \o b
<1>5. /\ c \in Seq(Session!Engines) /\ Len(c) = Len(s) - 1
      /\ \A j \in 1 .. Len(s) - 1 : c[j] = IF j <= i - 1 THEN a[j] ELSE b[j - (i - 1)]
  <2>1. /\ c \in Seq(Session!Engines) /\ Len(c) = Len(a) + Len(b)
        /\ \A j \in 1 .. Len(a) + Len(b) : c[j] = IF j <= Len(a) THEN a[j] ELSE b[j - Len(a)]
    BY <1>3, <1>4, ConcatProperties
  <2> HIDE DEF c
  <2>2. Len(a) + Len(b) = Len(s) - 1 BY <1>1, <1>3, <1>4
  <2> QED BY <1>3, <2>1, <2>2
<1> HIDE DEF c
<1>6. DOMAIN c = 1 .. Len(s) - 1 BY <1>5, LenProperties
<1>7. \A j \in 1 .. Len(s) : j # i =>
         \E m \in 1 .. Len(s) - 1 : c[m] = s[j]
  <2> SUFFICES ASSUME NEW j \in 1 .. Len(s), j # i
               PROVE  \E m \in 1 .. Len(s) - 1 : c[m] = s[j]
    OBVIOUS
  <2>1. CASE j < i
    <3>1. j \in 1 .. Len(s) - 1 /\ j \in 1 .. i - 1 /\ j <= i - 1 BY <1>1, <2>1
    <3> QED BY <1>3, <1>5, <3>1
  <2>2. CASE j > i
    <3>1. /\ j - 1 \in 1 .. Len(s) - 1 /\ ~(j - 1 <= i - 1) /\ j - i \in 1 .. Len(s) - i
          /\ (j - 1) - (i - 1) = j - i /\ i + (j - i) = j
      BY <1>1, <2>2
    <3>2. c[j - 1] = b[j - i] BY <1>5, <3>1
    <3>3. b[j - i] = s[j] BY <1>4, <3>1
    <3> QED BY <3>1, <3>2, <3>3
  <2> QED BY <1>1, <2>1, <2>2
<1>8. \A f \in Session!Engines \ {s[i]} : f \in Session!Range(s) => f \in Session!Range(c)
  <2> SUFFICES ASSUME NEW f \in Session!Engines \ {s[i]}, f \in Session!Range(s)
               PROVE  f \in Session!Range(c)
    OBVIOUS
  <2>1. PICK j \in 1 .. Len(s) : f = s[j] BY <1>1 DEF Session!Range
  <2>2. PICK m \in 1 .. Len(s) - 1 : c[m] = f BY <1>7, <2>1
  <2> QED BY <1>6, <2>2 DEF Session!Range
<1>9. Session!RemoveAt(s, i) = c BY DEF Session!RemoveAt, a, b, c
<1> QED BY <1>5, <1>8, <1>9

\* A network in use stays, and has the excuse of what uses it.
LEMMA NetworkExcused ==
    ASSUME EnginesTyped, NEW e \in Session!Engines, Session!RemoveNetwork(e),
           unreturned' = unreturned
    PROVE  /\ docker' \subseteq docker
           /\ \A f \in Session!Engines, k \in Kinds : Excused(f, k) => Excused(f, k)'
           /\ <<e, "net">> \in docker' =>
                \E j \in Kinds \ {"net"} : <<e, j>> \in docker
                                           /\ (Excused(e, j) => Excused(e, "net")')
<1>1. Session!Things(e, {"net"}) = {<<e, "net">>} BY DEF Session!Things
<1>2. /\ docker' = IF Session!Attached(e) = {} THEN docker \ {<<e, "net">>} ELSE docker
      /\ missed' = IF Session!Attached(e) \intersect (unreturned \union missed) = {} THEN missed
                   ELSE missed \union {<<e, "net">>}
  BY <1>1 DEF Session!RemoveNetwork
<1>3. missed \subseteq missed' BY <1>2
<1>4. ASSUME <<e, "net">> \in docker'
      PROVE  \E j \in Kinds \ {"net"} : <<e, j>> \in docker
                                        /\ (Excused(e, j) => Excused(e, "net")')
  <2>1. PICK x : x \in Session!Attached(e) BY <1>2, <1>4
  <2>2. PICK j \in Session!Containers \union {"compose"} : x = <<e, j>>
    BY <2>1 DEF Session!Attached, Session!Things
  <2>3. j \in Kinds \ {"net"} /\ <<e, j>> \in docker
    BY <2>1, <2>2 DEF Session!Containers, Kinds, Session!Attached, Session!Of
  <2>4. Excused(e, j) => <<e, "net">> \in missed' BY <1>2, <2>1, <2>2 DEF Excused
  <2> QED BY <2>3, <2>4 DEF Excused
<1>5. docker' \subseteq docker BY <1>2
<1> QED BY <1>3, <1>4, <1>5 DEF Excused

LEMMA EndKeepsEngines ==
    ASSUME EnginesInv, TestRetries \in Nat, NEW e \in Session!Engines,
           Session!Deregister(e) \/ Session!TeardownContainers(e) \/ Session!TeardownNetwork(e)
    PROVE  EnginesInv'
<1>1. EnginesTyped /\ WholeEngine(e) BY DEF EnginesInv
<1>2. CASE Session!Deregister(e)
  <2>1. /\ Session!Go(e, "finally", "detached")
        /\ UNCHANGED <<docker, missed, sig, todo, held, infra, unreturned>>
    BY <1>2 DEF Session!Deregister, Session!MakesNothing, Session!Kept
  <2>2. engines' \in Seq(Session!Engines)
          /\ \A f \in Session!Engines \ {e} : f \in Session!Range(engines)
          => f \in Session!Range(engines')
    <3>1. CASE e \in Session!Range(engines)
      <4>1. PICK i \in DOMAIN engines : engines[i] = e
              /\ engines' = Session!RemoveAt(engines, i)
        BY <1>2, <3>1 DEF Session!Deregister
      <4> QED BY <1>1, <4>1, RemoveAtRange DEF EnginesTyped
    <3>2. CASE e \notin Session!Range(engines) BY <1>1, <1>2, <3>2 DEF Session!Deregister,
                 EnginesTyped
    <3> QED BY <3>1, <3>2
  <2>3. pc[e] = "finally" /\ pc'[e] = "detached" BY <1>1, <2>1 DEF Session!Go, EnginesTyped
  <2>4. Engine(e)' BY <1>1, <2>1, <2>3 DEF WholeEngine, Engine, Excused
  <2>5. Registered(e)' BY <2>3 DEF Registered, Active
  <2>6. Cleaned(e)' BY <2>3 DEF Cleaned
  <2>7. \A f \in Session!Engines, k \in Kinds : Excused(f, k)' = Excused(f, k) BY <2>1
          DEF Excused
  <2>8. "detached" \in Steps BY DEF Steps
  <2> QED BY <1>1, <2>1, <2>2, <2>4, <2>5, <2>6, <2>7, <2>8, OneEngine DEF EnginesTyped,
       WholeEngine
<1>3. CASE Session!TeardownContainers(e)
  <2> DEFINE to == IF infra[e] = Session!None THEN "closed" ELSE "removing"
  <2>1. /\ Session!Go(e, "detached", to) /\ to \in Steps
        /\ docker' = docker \ ({e} \X (infra[e] \ {"net"}))
        /\ UNCHANGED <<missed, sig, todo, held, infra, engines, unreturned>>
    BY <1>3 DEF Session!TeardownContainers, Session!Kept, Session!Without, Session!Things, Steps
  <2>2. pc[e] = "detached" /\ pc'[e] = to BY <1>1, <2>1 DEF Session!Go, EnginesTyped
  <2>3. \A f \in Session!Engines, k \in Kinds : Excused(f, k)' = Excused(f, k) BY <2>1
          DEF Excused
  <2>4. docker' \subseteq docker BY <2>1
  <2>5. \A k \in Kinds : <<e, k>> \in docker' =>
           /\ k = "net" \/ Excused(e, k)
           /\ infra[e] = Session!None => Excused(e, k)
    BY <1>1, <2>1 DEF WholeEngine, Engine, Session!None, Kinds
  <2>6. Engine(e)' BY <1>1, <2>1, <2>2, <2>3, <2>4, <2>5 DEF WholeEngine, Engine
  <2>7. Registered(e)' BY <2>2 DEF Registered, Active
  <2>8. Cleaned(e)' BY <2>2, <2>3, <2>5 DEF Cleaned
  <2> QED BY <1>1, <2>1, <2>3, <2>4, <2>6, <2>7, <2>8, OneEngine DEF EnginesTyped, WholeEngine
<1>4. CASE Session!TeardownNetwork(e)
  <2>1. /\ Session!Go(e, "removing", "closed") /\ "closed" \in Steps /\ Session!RemoveNetwork(e)
        /\ UNCHANGED <<sig, todo, held, infra, engines, unreturned>>
    BY <1>4 DEF Session!TeardownNetwork, Session!Kept, Steps
  <2>2. pc[e] = "removing" /\ pc'[e] = "closed" BY <1>1, <2>1 DEF Session!Go, EnginesTyped
  <2>3. /\ docker' \subseteq docker
        /\ \A f \in Session!Engines, k \in Kinds : Excused(f, k) => Excused(f, k)'
        /\ <<e, "net">> \in docker' =>
             \E j \in Kinds \ {"net"} : <<e, j>> \in docker
                                        /\ (Excused(e, j) => Excused(e, "net")')
    BY <1>1, <2>1, NetworkExcused
  <2>4. \A k \in Kinds : <<e, k>> \in docker => k = "net" \/ Excused(e, k)
    BY <1>1, <2>2 DEF WholeEngine, Engine
  <2>5. \A k \in Kinds : <<e, k>> \in docker' => Excused(e, k)' BY <2>3, <2>4
  <2>6. Engine(e)' BY <1>1, <2>1, <2>2, <2>5 DEF WholeEngine, Engine
  <2>7. Registered(e)' BY <2>2 DEF Registered, Active
  <2>8. Cleaned(e)' BY <2>5 DEF Cleaned
  <2> QED BY <1>1, <2>1, <2>3, <2>6, <2>7, <2>8, OneEngine DEF EnginesTyped, WholeEngine
<1> QED BY <1>2, <1>3, <1>4

LEMMA PauseKeepsEngines ==
    ASSUME EnginesInv, TestRetries \in Nat, Session!PauseInfra PROVE EnginesInv'
<1>1. EnginesTyped /\ 0 \in Session!Engines /\ WholeEngine(0) BY DEF EnginesInv, Session!Engines
<1>2. /\ Session!Go(0, "detached", "paused") /\ infra[0] # Session!None
      /\ docker' = docker \ {<<0, "coder">>}
      /\ UNCHANGED <<missed, sig, todo, held, infra, engines, unreturned>>
  BY DEF Session!PauseInfra, Session!Coder, Session!Kept, Session!Things
<1>3. pc[0] = "detached" /\ pc'[0] = "paused" BY <1>1, <1>2 DEF Session!Go, EnginesTyped
<1>4. \A f \in Session!Engines, k \in Kinds : Excused(f, k)' = Excused(f, k) BY <1>2 DEF Excused
<1>5. docker' \subseteq docker BY <1>2
<1>6. \A k \in Kinds : <<0, k>> \in docker' => k \in {"net", "compose"} \/ Excused(0, k)
  BY <1>1, <1>2 DEF WholeEngine, Engine
<1>7. Engine(0)' BY <1>1, <1>2, <1>3, <1>4, <1>5, <1>6 DEF WholeEngine, Engine
<1>8. Registered(0)' BY <1>3 DEF Registered, Active
<1>9. Cleaned(0)' BY <1>1, <1>3, <1>4, <1>6 DEF Cleaned
<1>10. "paused" \in Steps BY DEF Steps
<1> QED BY <1>1, <1>2, <1>4, <1>5, <1>7, <1>8, <1>9, <1>10, OneEngine DEF EnginesTyped,
     WholeEngine

\* The steps of the cleanup leave the engines where they are.
LEMMA CleanupKeepsEngines ==
    ASSUME EnginesInv, Session!Signal \/ Session!TakeEngines \/ Session!CleanupContainers
           \/ Session!CleanupNetwork \/ Session!Exit
    PROVE  EnginesInv'
<1>1. EnginesTyped /\ \A e \in Session!Engines : Engine(e) /\ Registered(e) /\ Cleaned(e)
  BY DEF EnginesInv, WholeEngine
<1>2. pc' = pc /\ infra' = infra /\ unreturned' = unreturned
  BY DEF Session!Signal, Session!TakeEngines, Session!CleanupContainers,
       Session!CleanupNetwork, Session!Exit
<1> SUFFICES /\ EnginesTyped'
             /\ docker' \subseteq docker
             /\ \A e \in Session!Engines, k \in Kinds : Excused(e, k) => Excused(e, k)'
             /\ \A e \in Session!Engines : Registered(e)' /\ Cleaned(e)'
  <2>1. ASSUME docker' \subseteq docker, NEW e \in Session!Engines,
               \A k \in Kinds : Excused(e, k) => Excused(e, k)'
        PROVE  Engine(e)'
    BY <1>1, <1>2, <2>1 DEF Engine
  <2> QED BY <2>1 DEF EnginesInv, WholeEngine
<1>3. CASE Session!Signal
  <2>1. sig = "none" /\ sig' = "hook" /\ UNCHANGED <<docker, pc, engines, todo, missed>>
    BY <1>3 DEF Session!Signal
  <2>2. EnginesTyped' BY <1>1, <1>2, <2>1 DEF EnginesTyped
  <2>3. \A e \in Session!Engines : Registered(e)' /\ Cleaned(e)'
    BY <1>1, <1>2, <2>1 DEF Registered, Cleaned, Session!CleanedUp
  <2> QED BY <1>2, <2>1, <2>2, <2>3 DEF Excused
<1>4. CASE Session!TakeEngines
  <2>1. /\ sig = "hook" /\ sig' = "next" /\ todo' = engines /\ engines' = <<>>
        /\ UNCHANGED <<docker, missed>>
    BY <1>4 DEF Session!TakeEngines
  <2>2. EnginesTyped' BY <1>1, <1>2, <2>1, EmptySeq DEF EnginesTyped
  <2>3. \A e \in Session!Engines : Registered(e)' BY <2>1 DEF Registered
  <2>4. ASSUME NEW e \in Session!Engines PROVE Cleaned(e)'
    <3>1. SUFFICES ASSUME Session!CleanedUp(e)', NEW k \in Kinds, <<e, k>> \in docker
                   PROVE  \/ Excused(e, k)' \/ pc[e] \in {"detached", "removing"}
                          \/ pc[e] = "paused" /\ k \in {"net", "compose"}
      BY <1>2, <2>1 DEF Cleaned
    <3>2. e \notin Session!Range(engines) BY <2>1, <3>1 DEF Session!CleanedUp
    <3>3. pc[e] \in {"idle", "detached", "removing", "closed", "paused"}
      BY <1>1, <2>1, <3>2 DEF Registered, EnginesTyped, Steps
    <3>4. Excused(e, k)' = Excused(e, k) BY <1>2, <2>1 DEF Excused
    <3> QED BY <1>1, <3>1, <3>3, <3>4 DEF Engine
  <2> QED BY <1>2, <2>1, <2>2, <2>3, <2>4 DEF Excused
<1>5. CASE Session!CleanupContainers
  <2>0. PICK h \in Session!Engines : h = Head(todo)
    BY <1>1, <1>5, HeadTailProperties DEF EnginesTyped, Session!CleanupContainers
  <2>1. /\ sig = "next" /\ sig' = "network" /\ todo # <<>> /\ held' = infra[h]
        /\ docker' = docker \ ({h} \X (infra[h] \ {"net"}))
        /\ UNCHANGED <<engines, todo, missed>>
    BY <1>5, <2>0 DEF Session!CleanupContainers, Session!Without, Session!Things
  <2>3. EnginesTyped' BY <1>1, <1>2, <2>1 DEF EnginesTyped
  <2>4. \A e \in Session!Engines : Registered(e)' BY <2>1 DEF Registered
  <2>5. \A e \in Session!Engines, k \in Kinds : Excused(e, k)' = Excused(e, k)
    BY <1>2, <2>1 DEF Excused
  <2>6. Cleaned(h)'
    <3>1. \A k \in Kinds : <<h, k>> \in docker' =>
             Excused(h, k) \/ (k = "net" /\ infra[h] # Session!None)
      BY <1>1, <2>1 DEF Engine, Session!None, Kinds
    <3> QED BY <2>0, <2>1, <2>5, <3>1 DEF Cleaned
  <2>7. ASSUME NEW e \in Session!Engines \ {h} PROVE Cleaned(e)'
    <3>1. Session!CleanedUp(e)' => Session!CleanedUp(e) BY <2>0, <2>1 DEF Session!CleanedUp
    <3> QED BY <1>1, <1>2, <2>1, <2>5, <3>1 DEF Cleaned
  <2> QED BY <2>1, <2>3, <2>4, <2>5, <2>6, <2>7
<1>6. CASE Session!CleanupNetwork
  <2>0. PICK h \in Session!Engines : h = Head(todo)
    BY <1>1, <1>6, HeadTailProperties DEF EnginesTyped, Session!CleanupNetwork
  <2>1. /\ sig = "network" /\ sig' = "next" /\ todo # <<>> /\ todo' = Tail(todo)
        /\ UNCHANGED <<engines, held>>
        /\ IF held = Session!None THEN UNCHANGED <<docker,
             missed>> ELSE Session!RemoveNetwork(h)
    BY <1>1, <1>6, <2>0 DEF Session!CleanupNetwork, EnginesTyped
  <2>2. todo' \in Seq(Session!Engines)
    BY <1>1, <2>1, HeadTailProperties DEF EnginesTyped
  <2>3. \A e \in Session!Engines : e # h /\ e \in Session!Range(todo)
          => e \in Session!Range(todo')
    <3>1. SUFFICES ASSUME NEW e \in Session!Engines, e # h, NEW i \in DOMAIN todo, todo[i] = e
                   PROVE  e \in Session!Range(todo')
      BY DEF Session!Range
    <3>2. /\ Len(todo) \in Nat /\ DOMAIN todo = 1 .. Len(todo)
          /\ Len(todo') = Len(todo) - 1 /\ DOMAIN todo' = 1 .. Len(todo')
          /\ \A j \in 1 .. Len(todo') : todo'[j] = todo[j + 1]
      BY <1>1, <2>1, <2>2, HeadTailProperties, LenProperties DEF EnginesTyped
    <3>3. h = todo[1] BY <1>1, <2>0, <2>1 DEF EnginesTyped
    <3>4. i - 1 \in 1 .. Len(todo') /\ (i - 1) + 1 = i BY <3>1, <3>2, <3>3
    <3>5. todo'[i - 1] = e BY <3>1, <3>2, <3>4
    <3> QED BY <3>2, <3>4, <3>5 DEF Session!Range
  <2>4. /\ docker' \subseteq docker
        /\ \A f \in Session!Engines, k \in Kinds : Excused(f, k) => Excused(f, k)'
        /\ held # Session!None /\ <<h, "net">> \in docker' =>
             \E j \in Kinds \ {"net"} : <<h, j>> \in docker
                                        /\ (Excused(h, j) => Excused(h, "net")')
    <3>1. CASE held = Session!None BY <1>2, <2>1, <3>1 DEF Excused
    <3>2. CASE held # Session!None BY <1>1, <1>2, <2>1, <2>2, <3>2, NetworkExcused
    <3> QED BY <3>1, <3>2
  <2>5. EnginesTyped' BY <1>1, <1>2, <2>1, <2>2, <2>4 DEF EnginesTyped
  <2>6. \A e \in Session!Engines : Registered(e)' BY <2>1 DEF Registered
  <2>7. ASSUME NEW e \in Session!Engines \ {h} PROVE Cleaned(e)'
    <3>1. Session!CleanedUp(e)' => Session!CleanedUp(e) BY <2>0, <2>1, <2>3
            DEF Session!CleanedUp
    <3> QED BY <1>1, <1>2, <2>0, <2>1, <2>4, <3>1 DEF Cleaned
  <2>8. Cleaned(h)'
    <3>1. Session!CleanedUp(h) BY <2>0, <2>1 DEF Session!CleanedUp
    <3>2. \A k \in Kinds : <<h, k>> \in docker =>
             \/ Excused(h, k)
             \/ pc[h] \in {"detached", "removing"}
             \/ pc[h] = "paused" /\ k \in {"net", "compose"}
             \/ k = "net" /\ held # Session!None
      BY <1>1, <2>2, <3>1 DEF Cleaned
    <3>3. <<h, "net">> \in docker' =>
             \/ Excused(h, "net")' \/ pc[h] \in {"detached", "removing", "paused"}
      BY <2>2, <2>4, <3>2 DEF Kinds
    <3> QED BY <1>2, <2>2, <2>4, <3>2, <3>3 DEF Cleaned
  <2> QED BY <2>4, <2>5, <2>6, <2>7, <2>8
<1>7. CASE Session!Exit
  <2>1. /\ sig = "next" /\ sig' = "exited" /\ todo = <<>>
        /\ UNCHANGED <<docker, engines, todo, missed>>
    BY <1>7 DEF Session!Exit
  <2>2. EnginesTyped' BY <1>1, <1>2, <2>1 DEF EnginesTyped
  <2>3. Session!Range(todo) = {} BY <2>1 DEF Session!Range
  <2>4. \A e \in Session!Engines : Registered(e)' /\ Cleaned(e)'
    BY <1>1, <1>2, <2>1, <2>3 DEF Registered, Cleaned, Session!CleanedUp, Excused
  <2> QED BY <1>2, <2>1, <2>2, <2>4 DEF Excused
<1> QED BY <1>3, <1>4, <1>5, <1>6, <1>7

LEMMA StepKeepsEngines ==
    ASSUME EnginesInv, TestRetries \in Nat, [Session!Next]_Session!vars PROVE EnginesInv'
<1>1. 0 \in Session!Engines /\ Session!Attempts \subseteq Session!Engines BY
        DEF Session!Engines, Session!Attempts
<1>2. CASE Session!StartCoding BY <1>1, <1>2, RegisterKeepsEngines DEF Session!StartCoding
<1>3. CASE \E e \in Session!Attempts : Session!StartTests(e)
  BY <1>1, <1>3, RegisterKeepsEngines DEF Session!StartTests
<1>4. CASE Session!RunAgent \/ Session!AgentEnds BY <1>4, AgentKeepsEngines
<1>5. CASE Session!PauseInfra BY <1>5, PauseKeepsEngines
<1>6. CASE \E e \in Session!Engines : Session!CreateNetwork(e) \/ Session!ComposeUp(e)
             \/ Session!SetupReturns(e) \/ Session!SetupThrows(e)
  BY <1>6, SetUpKeepsEngines
<1>7. CASE \E e \in Session!Engines :
              \/ Session!BuildImage(e) \/ Session!CreateApp(e) \/ Session!StagingReturns(e)
                   \/ Session!CreateTests(e)
              \/ Session!StagingThrows(e)
                   \/ \E result \in {"passed", "failed"} : Session!TestsEnd(e, result)
  BY <1>7, StagingKeepsEngines
<1>8. CASE \E e \in Session!Engines : Session!Deregister(e) \/ Session!TeardownContainers(e)
             \/ Session!TeardownNetwork(e)
  BY <1>8, EndKeepsEngines
<1>9. CASE Session!Signal \/ Session!TakeEngines \/ Session!CleanupContainers
             \/ Session!CleanupNetwork \/ Session!Exit
  BY <1>9, CleanupKeepsEngines
<1>10. CASE UNCHANGED Session!vars
  <2>1. /\ EnginesTyped' = EnginesTyped
        /\ \A e \in Session!Engines : Engine(e)' = Engine(e) /\ Registered(e)' = Registered(e)
                              /\ Cleaned(e)' = Cleaned(e)
    BY <1>10 DEF Session!vars, EnginesTyped, Engine, Registered, Cleaned, Session!CleanedUp,
         Excused
  <2> QED BY <2>1 DEF EnginesInv, WholeEngine
<1> QED BY <1>2, <1>3, <1>4, <1>5, <1>6, <1>7, <1>8, <1>9, <1>10 DEF Session!Next

LEMMA EnginesExcuseAll ==
    ASSUME EnginesInv PROVE Session!NothingLeaks
<1> SUFFICES ASSUME Session!Gone, NEW x \in docker
             PROVE  \/ x[1] = 0 /\ pc[0] = "paused" /\ x[2] \in {"net", "compose"}
                    \/ x \in unreturned \union missed
                    \/ sig = "exited" /\ pc[x[1]] \in {"detached", "removing"}
  BY DEF Session!NothingLeaks
<1>1. PICK e \in Session!Engines, k \in Kinds : x = <<e, k>> BY DEF EnginesInv, EnginesTyped
<1>2. /\ Engine(e) /\ Cleaned(e) /\ pc[e] \in Steps
      /\ sig \in {"none", "hook", "next", "network", "exited"}
      /\ sig = "exited" => todo = <<>>
  BY DEF EnginesInv, WholeEngine, EnginesTyped
<1>3. x[1] = e /\ x[2] = k /\ (Excused(e, k) => x \in unreturned \union missed)
  BY <1>1 DEF Excused
<1>4. pc[e] = "paused" => e = 0 BY <1>2 DEF Engine
<1>5. CASE sig = "exited"
  <2>1. Session!CleanedUp(e) BY <1>2, <1>5 DEF Session!CleanedUp, Session!Range
  <2>2. Excused(e, k) \/ pc[e] \in {"detached", "removing"}
        \/ (pc[e] = "paused" /\ k \in {"net", "compose"})
    BY <1>1, <1>2, <1>5, <2>1 DEF Cleaned
  <2> QED BY <1>3, <1>4, <1>5, <2>2
<1>6. CASE Session!SessionOver
  <2>1. pc[e] \in {"closed", "paused", "idle", "thrown"}
    <3>1. CASE e = 0 BY <1>6, <3>1 DEF Session!SessionOver
    <3>2. CASE e # 0
      <4>1. e \in Session!Attempts BY <3>2 DEF Session!Engines, Session!Attempts
      <4> QED BY <1>6, <4>1 DEF Session!SessionOver
    <3> QED BY <3>1, <3>2
  <2>2. Excused(e, k) \/ (pc[e] = "paused" /\ k \in {"net", "compose"})
    BY <1>1, <1>2, <2>1 DEF Engine
  <2> QED BY <1>3, <1>4, <2>2
<1> QED BY <1>5, <1>6 DEF Session!Gone

-----------------------------------------------------------------------------

\* A session that is over leaves the variables as one that has not begun.
LEMMA EndOfSession == ASSUME EndSession PROVE Session!Init'
BY DEF EndSession, Session!Init

\* However many times the tests are tried, whichever engines have a compose
\* file and wherever Ctrl+C finds the session, nothing is left in Docker when
\* the process is gone but for the reasons NothingLeaks names; and one session
\* after the other.
THEOREM NothingIsLeftOfTheRun == DeliverySpec => []NothingLeaks
<1>1. Session!Init => EnginesInv BY EnginesBegin
<1>2. DeliveryInit => Session!Init BY DEF DeliveryInit
<1>3. EnginesInv /\ [DeliveryNext]_<<vars, session, stage>> =>
         EnginesInv' \/ Session!Init'
  <2> SUFFICES ASSUME EnginesInv, [DeliveryNext]_<<vars, session, stage>>
               PROVE  EnginesInv' \/ Session!Init'
    OBVIOUS
  <2>1. TestRetries \in Nat BY RetriesAssumption
  <2>2. CASE Session!Next BY <2>1, <2>2, StepKeepsEngines
  <2>3. CASE EndSession BY <2>3, EndOfSession
  <2>4. CASE UNCHANGED session
    <3>1. UNCHANGED Session!vars BY <2>4 DEF session, Session!vars
    <3> QED BY <2>1, <3>1, StepKeepsEngines
  <2> QED BY <2>2, <2>3, <2>4 DEF DeliveryNext
<1>4. EnginesInv => NothingLeaks BY EnginesExcuseAll DEF NothingLeaks
<1> QED BY <1>1, <1>2, <1>3, <1>4, PTL DEF DeliverySpec
=============================================================================
