------------------------------ MODULE RoundPatch ------------------------------
(***************************************************************************)
(* From the tree an agent leaves behind to the commits saifctl records: the *)
(* extraction of a round, the paths it leaves out, the inspection of test  *)
(* files, and the replay of the recorded commits in a new sandbox          *)
(* (orchestrator/sandbox.ts, loop.ts, mutability-check.ts, patch.ts).      *)
(*                                                                         *)
(* RunLoop takes a commit for an atom; here a commit is a diff of trees.   *)
(* Git is external: a diff is a set of file sections, exact renames are    *)
(* recognised, and a section applies to the content it was made from.      *)
(***************************************************************************)
EXTENDS Naturals, Sequences, FiniteSets, SequencesExt

CONSTANTS
    Paths,        \* the files there are or may be
    Place,        \* where each of them lies
    Committed,    \* the files of the project
    Dirty,        \* those the user has changed, or not committed yet
    Holdout,      \* those in a hidden/ directory of a feature
    Locked,       \* the tests that immutable-files names
    Rows,         \* the number of subtasks
    MaxRuns,      \* --max-runs
    Strict,       \* --strict
    MaxCommits,   \* bound of the model: commits an agent makes in a round
    MaxEdits,     \* bound of the model: changes agents make
    MaxStarts     \* bound of the model: times the run is started

\* product: the code.  project, feature, phase: tests under saifctl/tests,
\* <feature>/tests, <feature>/phases/<id>/tests.  spec: the rest of the feature.
\* workspace: .saifctl.  ignored: what .gitignore names.
Places == {"product", "project", "feature", "phase", "spec", "workspace", "ignored"}
Scoped == {"feature", "phase"}

ASSUME PatchAssumption ==
    /\ IsFiniteSet(Paths)
    /\ Place \in [Paths -> Places]
    /\ Committed \subseteq Paths /\ Dirty \subseteq Paths
    /\ Holdout \union Locked \subseteq {p \in Paths : Place[p] \in Scoped}
    /\ Strict \in BOOLEAN
    /\ {Rows, MaxRuns, MaxCommits, MaxEdits, MaxStarts} \subseteq Nat \ {0}

VARIABLES
    allow,    \* allowSaifctlInPatch: a `sandbox` run, without staging tests
    dirty,    \* --include-dirty
    catalog,  \* the feature has a tests.json
    config,   \* tests.mutable, which the user may edit at any time
    pc,       \* where the loop is
    row,      \* the subtask
    tries,    \* the attempts at it
    pre,      \* perSubtaskPreRoundHead, and whether it is beyond the base
    history,  \* the trees of the commits since then
    work,     \* the tree in the sandbox
    got,      \* the run commits of this round
    ledger,   \* runCommits
    crossed,  \* history: a rename crossed the excluded boundary, in the rounds
              \* taken in and in this one
    edits, starts

run  == <<allow, dirty, catalog>>
vars == <<allow, dirty, catalog, config, pc, row, tries, pre, history, work, got, ledger, crossed, edits, starts>>

\* A file is what it was made as and whether it has been edited since.
Absent == <<>>
Contents == {Absent} \union (Paths \X {"base", "edited"})
Trees == [Paths -> Contents]

\* The tree of the host that the run is based on: HEAD, with host-base.patch.
HostTree == [p \in Paths |->
    IF dirty /\ p \in Dirty THEN <<p, "edited">>
    ELSE IF p \in Committed THEN <<p, "base">> ELSE Absent]

\* createSandbox imports it, and hides the holdout tests from the agent.
Base == [p \in Paths |-> IF catalog /\ p \in Holdout THEN Absent ELSE HostTree[p]]

Tip(before, since) == IF since = <<>> THEN before ELSE Last(since)
HeadTree == Tip(pre.tree, history)

-----------------------------------------------------------------------------
(* Diffs *)

\* A file that is gone and a new one with its content are a rename; each of
\* them belongs to one rename at most.
Exact(t, u) ==
    {m \in Paths \X Paths : /\ t[m[1]] # Absent /\ u[m[1]] = Absent
                            /\ t[m[2]] = Absent /\ u[m[2]] = t[m[1]]}
Pairings(t, u) ==
    {M \in SUBSET Exact(t, u) : \A m, n \in M : m[1] = n[1] <=> m[2] = n[2]}
Renames(t, u) ==
    CHOOSE M \in Pairings(t, u) : \A N \in Pairings(t, u) : M \subseteq N => N = M

\* The sections of `git diff`: a renamed file has one, from its old path.
Diff(t, u) ==
    LET renamed == Renames(t, u)
        changed == {p \in Paths : t[p] # u[p] /\ \A m \in renamed : p \notin {m[1], m[2]}}
    IN  {[from |-> m[1], to |-> m[2], old |-> t[m[1]], new |-> u[m[2]]] : m \in renamed}
          \union {[from |-> p, to |-> p, old |-> t[p], new |-> u[p]] : p \in changed}

\* buildPatchExcludeRules: the saifctl directory unless it is allowed, .saifctl.
IsExcluded(p) ==
    \/ Place[p] = "workspace"
    \/ ~allow /\ Place[p] \in {"project", "feature", "phase", "spec"}

\* A section is judged by its old path.
FilterPatchHunks(patch) == {s \in patch : ~IsExcluded(s.from)}

\* A rename between what is recorded and what is not.
Crosses(t, u) == \E s \in Diff(t, u) : IsExcluded(s.from) # IsExcluded(s.to)

Applies(t, patch) ==
    \A s \in patch : t[s.from] = s.old /\ (s.to # s.from => t[s.to] = Absent)

ApplyPatch(t, patch) ==
    [p \in Paths |->
        IF \E s \in patch : s.to = p THEN (CHOOSE s \in patch : s.to = p).new
        ELSE IF \E s \in patch : s.from = p THEN Absent ELSE t[p]]

\* replayRunCommits
Replay(t, commits) ==
    LET after[n \in 0 .. Len(commits)] ==
            IF n = 0 THEN t ELSE ApplyPatch(after[n - 1], commits[n])
    IN  after[Len(commits)]
Replays(t, commits) ==
    \A i \in DOMAIN commits : Applies(Replay(t, SubSeq(commits, 1, i - 1)), commits[i])

-----------------------------------------------------------------------------
(* Which tests may be changed *)

\* resolveMutable
ResolveMutable(explicit) == IF explicit = "unset" THEN ~Strict ELSE explicit = "true"

\* classifyTestPaths
IsMutable(p) ==
    CASE Place[p] = "project" -> FALSE
      [] p \in Locked -> FALSE
      [] Place[p] \in Scoped -> ResolveMutable(config[Place[p]])
      [] OTHER -> TRUE

\* `git diff --name-only`, which names a renamed file by its new path.
ChangedPaths(t, u) == {s.to : s \in Diff(t, u)}

\* inspectImmutableTestChanges
Violations(t, u) == {p \in ChangedPaths(t, u) : ~IsMutable(p)}

-----------------------------------------------------------------------------

Configs == [Scoped \intersect Range(Place) -> {"unset", "true", "false"}]

TypeOK ==
    /\ allow \in BOOLEAN /\ dirty \in BOOLEAN /\ catalog \in BOOLEAN
    /\ config \in Configs
    /\ pc \in {"agent", "reported", "verify", "failed", "broken", "done"}
    /\ row \in 1 .. Rows /\ tries \in 1 .. MaxRuns
    /\ pre \in [tree: Trees, beyond: BOOLEAN]
    /\ history \in Seq(Trees) /\ Len(history) <= MaxCommits + 1
    /\ work \in Trees
    /\ got \in Seq(SUBSET [from: Paths, to: Paths, old: Contents, new: Contents])
    /\ ledger \in Seq(SUBSET [from: Paths, to: Paths, old: Contents, new: Contents])
    /\ crossed \in [taken: BOOLEAN, round: BOOLEAN]
    /\ edits \in 0 .. MaxEdits /\ starts \in 1 .. MaxStarts

Init ==
    /\ allow \in BOOLEAN /\ dirty \in BOOLEAN /\ catalog \in BOOLEAN
    /\ allow => ~catalog
    /\ dirty => Dirty # {}
    /\ config \in Configs
    /\ pc = "agent" /\ row = 1 /\ tries = 1
    /\ pre = [tree |-> Base, beyond |-> FALSE]
    /\ history = <<>> /\ work = Base
    /\ got = <<>> /\ ledger = <<>>
    /\ crossed = [taken |-> FALSE, round |-> FALSE]
    /\ edits = 0 /\ starts = 1

-----------------------------------------------------------------------------
(* The agent *)

Edits(tree) ==
    /\ pc = "agent" /\ edits < MaxEdits
    /\ edits' = edits + 1 /\ work' = tree
    /\ UNCHANGED <<run, config, pc, row, tries, pre, history, got, ledger, crossed, starts>>

Creates(p) ==
    /\ work[p] = Absent
    /\ p \notin {work[q][1] : q \in {q \in Paths : work[q] # Absent}}
    /\ Edits([work EXCEPT ![p] = <<p, "base">>])
Changes(p) ==
    /\ work[p] # Absent
    /\ Edits([work EXCEPT ![p] = <<@[1], IF @[2] = "base" THEN "edited" ELSE "base">>])
Deletes(p) == work[p] # Absent /\ Edits([work EXCEPT ![p] = Absent])
RenamesFile(p, q) ==
    /\ work[p] # Absent /\ work[q] = Absent
    /\ Edits([work EXCEPT ![p] = Absent, ![q] = work[p]])

\* It commits some of its changes, those to its workspace among them.
AgentCommits ==
    /\ pc = "agent" /\ Len(history) < MaxCommits
    /\ \E S \in SUBSET {p \in Paths : Place[p] # "ignored" /\ work[p] # HeadTree[p]} \ {{}} :
          history' = Append(history, [p \in Paths |-> IF p \in S THEN work[p] ELSE HeadTree[p]])
    /\ UNCHANGED <<run, config, pc, row, tries, pre, work, got, ledger, crossed, edits, starts>>

\* The user edits feature.yml or phase.yml, which is read anew in every round.
UserEditsConfig ==
    /\ config' \in Configs
    /\ UNCHANGED <<run, pc, row, tries, pre, history, work, got, ledger, crossed, edits, starts>>

-----------------------------------------------------------------------------
(* The round is over *)

\* What `git add .` and `git reset HEAD -- .saifctl` leave staged.
Staged == [p \in Paths |->
              IF Place[p] \in {"ignored", "workspace"} THEN HeadTree[p] ELSE work[p]]

\* The patches that are kept, in their order.
NonEmpty(patches) ==
    LET kept[n \in 0 .. Len(patches)] ==
            IF n = 0 THEN <<>>
            ELSE IF patches[n] = {} THEN kept[n - 1] ELSE Append(kept[n - 1], patches[n])
    IN  kept[Len(patches)]

\* extractIncrementalRoundPatch: a run commit for every commit of the agent and
\* one for what it left uncommitted, unless nothing of them is kept.
ExtractIncrementalRoundPatch ==
    LET Before(i) == Tip(pre.tree, SubSeq(history, 1, i - 1))
        made == [i \in DOMAIN history |-> FilterPatchHunks(Diff(Before(i), history[i]))]
        wip == FilterPatchHunks(Diff(HeadTree, Staged))
    IN  /\ pc = "agent" /\ pc' = "reported"
        /\ got' = NonEmpty(Append(made, wip))
        /\ history' = IF wip = {} THEN history ELSE Append(history, Staged)
        /\ crossed' = [crossed EXCEPT !.round =
                \/ \E i \in DOMAIN history : Crosses(Before(i), history[i])
                \/ Crosses(HeadTree, Staged)]
        /\ UNCHANGED <<run, config, row, tries, pre, work, ledger, edits, starts>>

\* sandboxHasCommitsBeyondInitialImport
HasPriorWork == pre.beyond \/ history # <<>>

\* Mutant: only what is recorded is inspected.
RejectedAsRecorded == \E i \in DOMAIN got : \E s \in got[i] : ~IsMutable(s.to)
Rejected == got # <<>> /\ Violations(pre.tree, HeadTree) # {}

\* git reset --hard and git clean -fd, which leaves ignored files.
ResetRound ==
    /\ history' = <<>>
    /\ work' = [p \in Paths |-> IF Place[p] = "ignored" THEN work[p] ELSE pre.tree[p]]

\* The next attempt at the subtask, if there is one left.
Retry ==
    /\ got' = <<>> /\ crossed' = [crossed EXCEPT !.round = FALSE]
    /\ IF tries < MaxRuns THEN pc' = "agent" /\ tries' = tries + 1
                          ELSE pc' = "failed" /\ UNCHANGED tries

\* The round has changed tests that are not the agent's to change.
RejectRound ==
    /\ pc = "reported" /\ Rejected
    /\ ResetRound /\ Retry
    /\ UNCHANGED <<run, config, row, pre, ledger, edits, starts>>

\* Nothing to test: the last subtask of a `sandbox` run is done, others are
\* tried again in the tree as it is.
NoChanges ==
    /\ pc = "reported" /\ got = <<>> /\ ~HasPriorWork
    /\ IF allow /\ row = Rows THEN pc' = "done" /\ UNCHANGED <<tries, got, crossed>>
                             ELSE Retry
    /\ UNCHANGED <<run, config, row, pre, history, work, ledger, edits, starts>>

\* The commits of the round join the ledger; without any, the tests judge what
\* there is.
AcceptRound ==
    /\ pc = "reported" /\ ~Rejected
    /\ got # <<>> \/ HasPriorWork
    /\ ledger' = ledger \o got
    /\ pc' = "verify"
    /\ UNCHANGED <<run, config, row, tries, pre, history, work, got, crossed, edits, starts>>

\* The tests pass, or the run has none.
RoundPasses ==
    /\ pc = "verify"
    /\ pre' = [tree |-> HeadTree, beyond |-> HasPriorWork]
    /\ history' = <<>> /\ got' = <<>> /\ tries' = 1
    /\ crossed' = [taken |-> crossed.taken \/ crossed.round, round |-> FALSE]
    /\ IF row < Rows THEN pc' = "agent" /\ row' = row + 1 ELSE pc' = "done" /\ UNCHANGED row
    /\ UNCHANGED <<run, config, work, ledger, edits, starts>>

\* Mutant: one commit is taken for the round.
RoundFailsOnce ==
    /\ pc = "verify" /\ ~allow
    /\ ledger' = IF got = <<>> THEN ledger ELSE Front(ledger)
    /\ ResetRound /\ Retry
    /\ UNCHANGED <<run, config, row, pre, edits, starts>>

\* The tests fail: the round leaves the ledger and the sandbox.
RoundFails ==
    /\ pc = "verify" /\ ~allow
    /\ ledger' = SubSeq(ledger, 1, Len(ledger) - Len(got))
    /\ ResetRound /\ Retry
    /\ UNCHANGED <<run, config, row, pre, edits, starts>>

\* `run start`: createSandbox imports the project and replays the ledger; a
\* commit that does not apply throws.
CreateSandbox ==
    LET tree == Replay(Base, ledger)
    IN  /\ pc = "failed" /\ starts < MaxStarts
        /\ starts' = starts + 1
        /\ tries' = 1
        /\ IF Replays(Base, ledger)
           THEN /\ pc' = "agent"
                /\ pre' = [tree |-> tree, beyond |-> ledger # <<>>]
                /\ work' = tree /\ history' = <<>>
           ELSE pc' = "broken" /\ UNCHANGED <<pre, work, history>>
        /\ UNCHANGED <<run, config, row, got, ledger, crossed, edits>>

Next ==
    \/ \E p \in Paths : Creates(p) \/ Changes(p) \/ Deletes(p)
    \/ \E p, q \in Paths : RenamesFile(p, q)
    \/ AgentCommits \/ UserEditsConfig
    \/ ExtractIncrementalRoundPatch
    \/ RejectRound \/ NoChanges \/ AcceptRound
    \/ RoundPasses \/ RoundFails \/ CreateSandbox

Spec == Init /\ [][Next]_vars

-----------------------------------------------------------------------------
(* Properties *)

Carried == {p \in Paths : ~IsExcluded(p) /\ Place[p] # "ignored"}

Crossed == crossed.taken \/ crossed.round

\* The recorded commits apply one after the other, both in a new sandbox and on
\* the host the run is based on, though parts of them are left out; and when
\* the tests run, and when the run is done, they give every file they can carry
\* as it is in the sandbox: what is delivered is what was tested, and nothing
\* of a round that was dropped. The exception: a file was renamed between what
\* is recorded and what is not, for filterPatchHunks takes or leaves the whole
\* section by its old path. Then the ledger may name an excluded path, and a
\* replay may miss a file or fail, whatever git-and-patches.md:128 and 149 say.
LedgerIsTheTree ==
    ~Crossed =>
       /\ Replays(Base, ledger) /\ Replays(HostTree, ledger) /\ pc # "broken"
       /\ pc \in {"verify", "done"} =>
             LET inSandbox == Replay(Base, ledger)
                 onHost == Replay(HostTree, ledger)
             IN  \A p \in Carried : work[p] = HeadTree[p] /\ work[p] = inSandbox[p]
                                                         /\ work[p] = onHost[p]

\* A round that is recorded leaves every test that is immutable when the round
\* is taken in as it was, in the commits of the sandbox and, unless a rename
\* crossed what is recorded, in what is delivered, though it may hold what
\* rounds before have left staged, commits that undo each other and commits of
\* which only a part is recorded. The exception: a test the round has renamed,
\* for git diff --name-only names the new path alone: renamed to a file the
\* agent may change it is gone, and the round is recorded, where mutability.ts:35
\* says that touching it fails the gate.
ImmutableTestsStay ==
    [][pc = "reported" /\ pc' = "verify" /\ got # <<>> =>
          LET renamed == {m[1] : m \in Renames(pre.tree, HeadTree)}
              before == Replay(Base, ledger)
              after == Replay(Base, ledger')
          IN  \A p \in Paths \ renamed : ~IsMutable(p) =>
                 /\ HeadTree'[p] = pre.tree[p]
                 /\ Crossed \/ after[p] = before[p]]_vars
=============================================================================
