---------------------------- MODULE HostDelivery ----------------------------
(***************************************************************************)
(* How the commits of a run reach the host's repository: applyPatchToHost  *)
(* at the end of a run that passed, `run apply` (runApplyCore over         *)
(* createArtifactRunWorktree) and `run merge` (runMergeIntoHost), next to  *)
(* the work the user has there.                                            *)
(*                                                                         *)
(* A change is an edit of a tracked file, or a new file.  A commit is a    *)
(* pair: the number of the command that made it (0 for the user's) and its *)
(* changes.  A branch is its history since baseCommitSha.                  *)
(***************************************************************************)
EXTENDS Integers, Sequences, FiniteSets, SequencesExt

CONSTANTS
    Run,         \* runCommits: the changes of each
    Base,        \* basePatchDiff, host-base.patch
    Mine,        \* the changes the user may make
    New,         \* the changes that add a file
    Config,      \* the changes under .saifctl/
    Out,         \* resolveHostApplyBranchName without --branch
    Branches,    \* that branch and those of the user
    MaxEdits,    \* bound of the model: changes the user makes
    MaxCommands  \* bound of the model: commands

Main == "main"
Detached == "detached"

\* A history that no branch has.
Absent == <<<<-1, {}>>>>

\* All changes there are.
Changed == Mine \union Base \union UNION Range(Run)

\* No commit of a run is empty, and its diffs leave out .saifctl/.
ASSUME DeliveryAssumption ==
    /\ MaxEdits \in Nat /\ MaxCommands \in Nat
    /\ {Out, Main} \subseteq Branches /\ Out # Main /\ Detached \notin Branches
    /\ Run \in Seq((SUBSET Changed) \ {{}}) /\ Run # <<>>
    /\ Mine \intersect (Base \union UNION Range(Run)) = {} /\ Config \subseteq Mine

VARIABLES
    branch,    \* the branches of the repository
    at,        \* what its working tree has checked out
    tree,      \* the uncommitted changes there
    index,     \* those that are staged
    stash,     \* the stash entries
    remote,    \* the branches of the remote
    wts,       \* the registered worktrees: a place and a branch
    op,        \* the command in progress, or the last one
    commands,  \* the number of commands so far
    mine,      \* ghost: what the user has changed
    late,      \* ghost: what of it during a merge
    discarded  \* ghost: what was lost in a way WorkIsKept names

vars == <<branch, at, tree, index, stash, remote, wts, op, commands, mine, late, discarded>>

repo == <<branch, at, tree, index, stash, remote, wts>>
ghosts == <<mine, late, discarded>>

Changes(history) == UNION {c[2] : c \in Range(history)}
History(b) == IF b = Detached THEN <<>> ELSE branch[b]
There == tree \union Changes(History(at))

\* dirtyStatusLines
Dirty == tree \ Config # {}

Idle == [kind |-> "none", step |-> "done", ok |-> TRUE]

Histories == Seq(Int \X SUBSET Changed)

BranchCommand == [kind: {"deliver", "apply"}, ok: BOOLEAN, i: DOMAIN Run,
    step: {"clear", "add", "base", "commit", "push", "remove", "done"},
    branch: Branches, push: BOOLEAN]

MergeCommand == [kind: {"merge"}, ok: BOOLEAN, i: DOMAIN Run,
    step: {"checkout", "stash", "recovery", "apply", "commit", "rollback", "return",
           "restore", "done"},
    strategy: {"cherry-pick", "squash", "worktree"},
    target: Branches, rollback: Histories, entry: SUBSET Changed,
    named: BOOLEAN, gone: BOOLEAN,
    before: [at: Branches \union {Detached}, branch: [Branches -> Histories],
             tree: SUBSET Changed]]

TypeOK ==
    /\ branch \in [Branches -> Histories] /\ remote \in [Branches -> Histories]
    /\ at \in Branches \union {Detached}
    /\ tree \subseteq Changed /\ index \subseteq Changed
    /\ stash \subseteq SUBSET Changed
    /\ wts \subseteq {"sandbox", "apply"} \X Branches
    /\ op \in {Idle} \union BranchCommand \union MergeCommand
    /\ commands \in Nat
    /\ mine \subseteq Mine /\ late \subseteq mine /\ discarded \subseteq Mine

Running(kinds, step) == op.kind \in kinds /\ op.step = step
To(step) == op' = [op EXCEPT !.step = step]
Fails(step) == op' = [op EXCEPT !.step = step, !.ok = FALSE]

Init ==
    /\ branch = [b \in Branches |-> IF b = Out THEN Absent ELSE <<>>]
    /\ at \in {Main, Detached} /\ tree = {} /\ index = {}
    /\ stash = {} /\ remote = [b \in Branches |-> Absent] /\ wts = {}
    /\ op = Idle /\ commands = 0 /\ mine = {} /\ late = {} /\ discarded = {}

-----------------------------------------------------------------------------
(* The user. *)

Between == op.step = "done" /\ op' = Idle

\* Before a command or while a merge runs: the others leave the tree alone.
Edit(x) ==
    /\ x \notin mine /\ Cardinality(mine) < MaxEdits
    /\ tree' = tree \union {x} /\ mine' = mine \union {x}
    /\ \/ Between /\ UNCHANGED late
       \/ op.kind = "merge" /\ op.step # "done" /\ late' = late \union {x} /\ UNCHANGED op
    /\ UNCHANGED <<branch, at, index, stash, remote, wts, commands, discarded>>

Commit ==
    /\ Between /\ at # Detached /\ tree \intersect mine # {}
    /\ branch' = [branch EXCEPT ![at] = Append(@, <<0, tree>>)]
    /\ tree' = {} /\ index' = {}
    /\ UNCHANGED <<at, stash, remote, wts, commands, ghosts>>

CanCheckout(b) ==
    /\ tree \intersect Changes(branch[b]) = {}
    /\ \A w \in wts : w[2] # b

Switch(b) ==
    /\ Between /\ ~Dirty /\ b # at /\ branch[b] # Absent /\ CanCheckout(b)
    /\ at' = b
    /\ UNCHANGED <<branch, tree, index, stash, remote, wts, commands, ghosts>>

-----------------------------------------------------------------------------
(* applyPatchToHost and runApplyCore: a branch made in a worktree of its own *)

Place == IF op.kind = "deliver" THEN "sandbox" ELSE "apply"

\* b is the branch of --branch, or Out; push is --push.
Begin(kind, b, push) ==
    /\ op.step = "done" /\ commands < MaxCommands
    /\ commands' = commands + 1
    /\ op' = [kind |-> kind, step |-> IF kind = "apply" THEN "clear" ELSE "add",
              ok |-> TRUE, branch |-> b, push |-> push, i |-> 1]
    /\ UNCHANGED <<repo, ghosts>>

Deliver(b, push) == Begin("deliver", b, push)
RunApply(b, push) == Begin("apply", b, push)

\* A worktree an earlier `run apply` has left goes, and the branch with it by
\* `git branch -D`, unless it is checked out.
ClearBranch ==
    LET b == op.branch
        rest == {w \in wts : w[1] # Place}
        inUse == at = b \/ \E w \in rest : w[2] = b
    IN  /\ Running({"apply"}, "clear") /\ To("add")
        /\ wts' = rest
        /\ IF inUse \/ branch[b] = Absent THEN UNCHANGED <<branch, discarded>>
           ELSE /\ branch' = [branch EXCEPT ![b] = Absent]
                /\ discarded' = discarded \union (mine \intersect Changes(branch[b]))
        /\ UNCHANGED <<at, tree, index, stash, remote, commands, mine, late>>

\* `git worktree add -b` at baseCommitSha, outside of the try.
AddWorktree ==
    LET b == op.branch
        free == branch[b] = Absent /\ \A w \in wts : w[1] # Place
    IN  /\ Running({"deliver", "apply"}, "add")
        /\ IF free
           THEN /\ branch' = [branch EXCEPT ![b] = <<>>]
                /\ wts' = wts \union {<<Place, b>>}
                /\ To(IF op.kind = "apply" THEN "base" ELSE "commit")
           ELSE Fails("done") /\ UNCHANGED <<branch, wts>>
        /\ UNCHANGED <<at, tree, index, stash, remote, commands, ghosts>>

CommitInWorktree(changes) ==
    /\ branch' = [branch EXCEPT ![op.branch] = Append(@, <<commands, changes>>)]
    /\ UNCHANGED <<at, tree, index, stash, remote, wts, commands, ghosts>>

\* `run apply` has a commit for the base patch, even when that is empty.
CommitBase == Running({"apply"}, "base") /\ To("commit") /\ CommitInWorktree(Base)

\* Mutant: the base patch is not applied.
CommitOneWithoutBase ==
    /\ Running({"deliver", "apply"}, "commit")
    /\ op' = IF op.i < Len(Run) THEN [op EXCEPT !.i = @ + 1] ELSE [op EXCEPT !.step = "push"]
    /\ CommitInWorktree(Run[op.i])

\* At the end of a run the base patch becomes part of the first commit.
CommitOne ==
    /\ Running({"deliver", "apply"}, "commit")
    /\ op' = IF op.i < Len(Run) THEN [op EXCEPT !.i = @ + 1] ELSE [op EXCEPT !.step = "push"]
    /\ CommitInWorktree(Run[op.i] \union IF op.kind = "deliver" /\ op.i = 1 THEN Base ELSE {})

\* A patch does not apply or a hook refuses the commit.  The branch stays.
CommitFails ==
    /\ Running({"deliver", "apply"}, op.step) /\ op.step \in {"base", "commit"}
    /\ Fails("remove")
    /\ UNCHANGED <<repo, commands, ghosts>>

\* A push is refused unless it only adds commits.
Push(opened) ==
    LET b == op.branch
        forward == remote[b] = Absent \/ IsPrefix(remote[b], branch[b])
    IN  /\ Running({"deliver", "apply"}, "push")
        /\ IF ~op.push \/ ~forward THEN UNCHANGED remote
           ELSE remote' = [remote EXCEPT ![b] = branch[b]]
        /\ IF op.push /\ ~(forward /\ opened) THEN Fails("remove") ELSE To("remove")
        /\ UNCHANGED <<branch, at, tree, index, stash, wts, commands, ghosts>>

\* The remote does not answer.
PushFails ==
    /\ Running({"deliver", "apply"}, "push") /\ op.push /\ Fails("remove")
    /\ UNCHANGED <<repo, commands, ghosts>>

\* In the finally.
RemoveWorktree ==
    /\ Running({"deliver", "apply"}, "remove") /\ To("done")
    /\ wts' = {w \in wts : w[1] # Place}
    /\ UNCHANGED <<branch, at, tree, index, stash, remote, commands, ghosts>>

-----------------------------------------------------------------------------
(* runMergeIntoHost: the checkout of the user *)

\* into: --into, or "here", where the user is.  The checks that change nothing.
Merge(strategy, into, allowDirty) ==
    LET target == IF into = "here" THEN at ELSE into
        switches == target # at
    IN  /\ op.step = "done" /\ commands < MaxCommands
        /\ commands' = commands + 1
        /\ target # Detached /\ History(target) # Absent
        /\ Dirty => allowDirty /\ ~switches
        /\ op' = [kind |-> "merge", ok |-> TRUE, strategy |-> strategy, i |-> 1,
                  step |-> IF switches THEN "checkout" ELSE IF Dirty THEN "stash" ELSE "apply",
                  target |-> target, rollback |-> History(target), entry |-> {},
                  named |-> FALSE, gone |-> FALSE, before |-> [at |-> at, branch |-> branch, tree |-> tree]]
        /\ UNCHANGED <<repo, ghosts>>

\* A branch that is checked out elsewhere, or files that would be overwritten:
\* the error leaves the function.
CheckoutTarget ==
    /\ Running({"merge"}, "checkout")
    /\ IF CanCheckout(op.target) THEN at' = op.target /\ To("apply")
       ELSE Fails("done") /\ UNCHANGED at
    /\ UNCHANGED <<branch, tree, index, stash, remote, wts, commands, ghosts>>

\* Mutant: without --include-untracked.
StashTracked ==
    LET entry == {x \in tree : x \in New => x \in index}
    IN  /\ Running({"merge"}, "stash")
        /\ stash' = stash \union {entry} /\ tree' = tree \ entry /\ index' = {}
        /\ op' = [op EXCEPT !.step = "recovery", !.entry = entry]
        /\ UNCHANGED <<branch, at, remote, wts, commands, ghosts>>

\* stashUserState
Stash ==
    /\ Running({"merge"}, "stash")
    /\ stash' = stash \union {tree} /\ tree' = {} /\ index' = {}
    /\ op' = [op EXCEPT !.step = "recovery", !.entry = tree]
    /\ UNCHANGED <<branch, at, remote, wts, commands, ghosts>>

\* writeRecoveryFile.  Its error leaves the function with the tree in the stash.
WriteRecovery(written) ==
    /\ Running({"merge"}, "recovery")
    /\ op' = IF written THEN [op EXCEPT !.step = "apply", !.named = TRUE]
             ELSE [op EXCEPT !.step = "done", !.ok = FALSE, !.gone = TRUE]
    /\ UNCHANGED <<repo, commands, ghosts>>

Applied == IF op.entry # {} THEN "restore" ELSE "done"

\* `git apply --check`, then `git apply`, of one diff.
ApplyDiff ==
    /\ Running({"merge"}, "apply") /\ Run[op.i] \intersect There = {}
    /\ tree' = tree \union Run[op.i]
    /\ op' = IF op.strategy = "cherry-pick" THEN [op EXCEPT !.step = "commit"]
             ELSE IF op.i < Len(Run) THEN [op EXCEPT !.i = @ + 1]
             ELSE [op EXCEPT !.step = IF op.strategy = "squash" THEN "commit" ELSE Applied]
    /\ UNCHANGED <<branch, at, index, stash, remote, wts, commands, ghosts>>

Staged == tree \ Config

\* `git add .`, without .saifctl, and the commit.
CommitMerged ==
    /\ Running({"merge"}, "commit")
    /\ branch' = IF Staged = {} THEN branch
                 ELSE [branch EXCEPT ![at] = Append(@, <<commands, Staged>>)]
    /\ tree' = tree \ Staged /\ index' = {}
    /\ op' = IF op.i < Len(Run) THEN [op EXCEPT !.step = "apply", !.i = @ + 1]
             ELSE [op EXCEPT !.step = Applied]
    /\ UNCHANGED <<at, stash, remote, wts, commands, ghosts>>

\* A diff does not apply, or a hook refuses the commit.
MergeFails ==
    /\ op.kind = "merge" /\ op.step \in {"apply", "commit"}
    /\ Fails("rollback")
    /\ index' = IF op.step = "commit" THEN Staged ELSE index
    /\ UNCHANGED <<branch, at, tree, stash, remote, wts, commands, ghosts>>

Untracked == {x \in tree : x \in New /\ x \notin index}

AfterRollback == IF op.target # op.before.at /\ op.before.at # Detached THEN "return"
                 ELSE Applied

\* What a reset to a history loses of the user's: changes under .saifctl/ and
\* those made while the merge ran.
Lost(to) == ((Config \union late) \intersect There) \ (Untracked \union Changes(to))

\* Mutant: a reset to HEAD.
RollbackToHead ==
    /\ Running({"merge"}, "rollback") /\ To(AfterRollback)
    /\ tree' = Untracked /\ index' = {}
    /\ discarded' = discarded \union Lost(branch[at])
    /\ UNCHANGED <<branch, at, stash, remote, wts, commands, mine, late>>

\* `git reset --hard` to the head before the merge; untracked files stay.
Rollback ==
    /\ Running({"merge"}, "rollback") /\ To(AfterRollback)
    /\ branch' = [branch EXCEPT ![at] = op.rollback]
    /\ tree' = Untracked /\ index' = {}
    /\ discarded' = discarded \union Lost(op.rollback)
    /\ UNCHANGED <<at, stash, remote, wts, commands, mine, late>>

\* The checkout may fail over what is left in the tree.
ReturnToBranch ==
    /\ Running({"merge"}, "return") /\ To(Applied)
    /\ at' = IF CanCheckout(op.before.at) THEN op.before.at ELSE at
    /\ UNCHANGED <<branch, tree, index, stash, remote, wts, commands, ghosts>>

\* applyStashBySha; the recovery file goes if all has worked.
Restore(restored) ==
    /\ Running({"merge"}, "restore")
    /\ restored => op.entry \intersect There = {}
    /\ tree' = IF restored THEN tree \union op.entry ELSE tree
    /\ op' = [op EXCEPT !.step = "done", !.named = ~(restored /\ op.ok)]
    /\ UNCHANGED <<branch, at, index, stash, remote, wts, commands, ghosts>>

-----------------------------------------------------------------------------

\* Ctrl+C or a kill, before any step.
Kill ==
    /\ op.step # "done"
    /\ op' = Idle
    /\ UNCHANGED <<repo, commands, ghosts>>

UserNext == \/ \E x \in Mine : Edit(x)
            \/ Commit
            \/ \E b \in Branches : Switch(b)

BranchNext ==
    \/ \E b \in Branches, push \in BOOLEAN : RunApply(b, push)
    \/ ClearBranch \/ AddWorktree \/ CommitBase \/ CommitOne \/ CommitFails
    \/ \E opened \in BOOLEAN : Push(opened)
    \/ PushFails \/ RemoveWorktree

MergeNext ==
    \/ \E strategy \in {"cherry-pick", "squash", "worktree"}, allowDirty \in BOOLEAN,
          into \in {"here"} \union Branches : Merge(strategy, into, allowDirty)
    \/ CheckoutTarget \/ Stash \/ ApplyDiff \/ CommitMerged \/ MergeFails
    \/ Rollback \/ ReturnToBranch
    \/ \E done \in BOOLEAN : WriteRecovery(done) \/ Restore(done)

DeliverNext == \E b \in Branches, push \in BOOLEAN : Deliver(b, push)

Next == UserNext \/ DeliverNext \/ BranchNext \/ MergeNext \/ Kill

Spec == Init /\ [][Next]_vars

-----------------------------------------------------------------------------
(* Properties *)

Kept == tree \union (UNION stash) \union UNION {Changes(branch[b]) : b \in Branches}

\* Whatever fails or is interrupted, what the user has changed is in the
\* working tree, in a stash entry or in a commit.  The code has three
\* exceptions: the rollback of a merge resets what nothing stashed, changes
\* under .saifctl/ and those made while the merge ran; and `run apply` deletes
\* a branch that has the name it wants, with the commits the user has on it.
WorkIsKept == mine \subseteq Kept \union discarded

Ended(kinds, ok) == op.kind \in kinds /\ op.step = "done" /\ op.ok = ok

\* The stash entry a user is told of holds what the tree held.
Named == op.named /\ op.entry \in stash /\ op.before.tree \subseteq op.entry

\* What of the run a merge that does not commit each diff leaves in new files.
Leftovers == IF op.strategy = "cherry-pick" THEN {} ELSE New \intersect UNION Range(Run)

\* A merge that failed has left the branches and the checkout as they were,
\* and the tree, or has named the stash entry that holds it.  It leaves the
\* new files of a squash or worktree merge; it does not go back to a detached
\* HEAD, nor over a file left behind; and it names no entry when the recovery
\* file cannot be written.
FailedMergeRestores ==
    Ended({"merge"}, FALSE) =>
        /\ branch = op.before.branch
        /\ at = op.before.at \/ op.before.at = Detached \/ tree \intersect Leftovers # {}
        /\ \/ op.before.tree \ discarded \subseteq tree
           \/ Named
           \/ op.gone /\ \E entry \in stash : op.before.tree \subseteq entry
        /\ tree \subseteq op.before.tree \union late \union Leftovers

\* What a commit of the run holds, whatever the user changed meanwhile.
Tidy(history) == [k \in DOMAIN history |-> <<history[k][1], history[k][2] \ late>>]
By(sets) == [k \in DOMAIN sets |-> <<commands, sets[k]>>]

\* A command that succeeds has delivered exactly the commits of the run, with
\* the base patch where the branch starts without it, to its branch and if
\* asked to the remote; and a merge has not committed any of the user's work.
DeliversTheRun ==
    /\ Ended({"deliver"}, TRUE) =>
           branch[op.branch] = By([Run EXCEPT ![1] = @ \union Base])
    /\ Ended({"apply"}, TRUE) => branch[op.branch] = By(<<Base>> \o Run)
    /\ Ended({"deliver", "apply"}, TRUE) /\ op.push => remote[op.branch] = branch[op.branch]
    /\ Ended({"merge"}, TRUE) =>
           /\ at = op.target
           /\ Tidy(branch[at]) = Tidy(op.before.branch[at])
                  \o (CASE op.strategy = "cherry-pick" -> By(Run)
                        [] op.strategy = "squash" -> By(<<UNION Range(Run)>>)
                        [] op.strategy = "worktree" -> <<>>)
           /\ op.strategy = "worktree" => UNION Range(Run) \subseteq tree
           /\ op.before.tree \subseteq tree \union Changes(branch[at]) \/ Named
=============================================================================
