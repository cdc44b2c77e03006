------------------------------ MODULE RunRules ------------------------------
(***************************************************************************)
(* The user's rules of a run (runs/rules.ts): the list in the stored       *)
(* artifact, the copy runContext.rules the loop works with, the watcher    *)
(* that polls the storage while an agent is at work, the file in which it  *)
(* hands new rules to the shell, and the `run rules` command that edits    *)
(* the list in the meantime.                                               *)
(*                                                                         *)
(* Every writer saves the whole artifact under the revision it has read.   *)
(* A revision only grows, so it is enough to know who still holds the      *)
(* current one.  The comparison and the write of one save are one step.    *)
(***************************************************************************)
EXTENDS FiniteSets

CONSTANT Rules  \* the ids createRunRule draws

VARIABLES
    stored,   \* of the stored artifact: its rules and its controlSignal
    current,  \* who holds the revision of the stored artifact
    loop,     \* where the process is, and where a save under way leads to
    mem,      \* runContext.rules
    flight,   \* the rules in the artifact that is being saved
    pending,  \* pendingOnceIds
    first,    \* the rules in the prompt built before the coding loop
    prompt,   \* the rules in the prompt the shell is given next
    watch,    \* the rules watcher of the session
    file,     \* pending-rules.md
    ghost     \* what has become of every rule, for the properties

vars == <<stored, current, loop, mem, flight, pending, first, prompt, watch, file, ghost>>

-----------------------------------------------------------------------------
(* Rules. *)

\* An update of a rule stands for any change of its content or scope.
Rule == [scope: {"once", "always"}, used: BOOLEAN]
RuleLists == UNION {[ids -> Rule] : ids \in SUBSET Rules}
NoRules == [r \in {} |-> [scope |-> "once", used |-> FALSE]]

\* rulesForPrompt and activeOnceRuleIds.
ForPrompt(rules) == {r \in DOMAIN rules : rules[r].scope = "always" \/ ~rules[r].used}
ActiveOnce(rules) == {r \in DOMAIN rules : rules[r].scope = "once" /\ ~rules[r].used}

Over(f, g) == [r \in DOMAIN f \union DOMAIN g |-> IF r \in DOMAIN f THEN f[r] ELSE g[r]]

\* What is in storage overrides the copy in memory; an empty list does not.
\* What is only in memory stays.
Reconcile(rules) == Over(stored.rules, rules)

AppendMissing(rules, incoming) == Over(rules, incoming)

MarkConsumed(rules, ids) ==
    [r \in DOMAIN rules |->
        IF r \in ids /\ rules[r].scope = "once" THEN [rules[r] EXCEPT !.used = TRUE] ELSE rules[r]]

-----------------------------------------------------------------------------
(* The stored artifact. *)

Holders == {"loop", "save"}

Writes(rules, signal) == stored' = [rules |-> rules, signal |-> signal]

\* A write that does not ask for the revision, and gives the new one to a holder.
Overwrites(rules, signal, holders) == Writes(rules, signal) /\ current' = holders

Live == {"session", "boot", "read", "put", "prepare", "ready", "coding", "done", "judge", "final"}

To(pc) == loop' = [loop EXCEPT !.pc = pc]

\* saveRunningArtifact, then on with the handler.
Saving(after) == loop' = [pc |-> "read", after |-> after]

NoWatch == [at |-> "off", known |-> {}, found |-> NoRules, notified |-> FALSE]

Init ==
    /\ stored = [rules |-> NoRules, signal |-> FALSE]
    /\ current = {}
    /\ loop = [pc |-> "off", after |-> "off"]
    /\ mem = NoRules /\ flight = NoRules
    /\ pending = {} /\ first = {} /\ prompt = {} /\ file = {}
    /\ watch = NoWatch
    /\ ghost = [made |-> {}, shown |-> {}, live |-> {}]

-----------------------------------------------------------------------------
(* Before the loop. *)

\* `run start` and `run resume`: the artifact is read once the run is reserved;
\* a run that was killed has been stopped by force before.
FromArtifact ==
    /\ loop.pc = "off" /\ watch.at = "off"
    /\ Overwrites(stored.rules, FALSE, {})
    /\ mem' = stored.rules
    /\ To("booting")
    /\ UNCHANGED <<flight, pending, first, prompt, watch, file, ghost>>

\* The worktree and the sandbox are there.  setStatusRunning asks for no
\* revision: it writes the rules as they were read before.
SetStatusRunning ==
    /\ loop.pc = "booting" /\ ~stored.signal
    /\ Overwrites(mem, FALSE, {"loop"})
    /\ ghost' = [ghost EXCEPT !.live = {}]
    /\ To("session")
    /\ UNCHANGED <<mem, flight, pending, first, prompt, watch, file>>

\* abortRunStartIfStopRequested, and the refusal of setStatusRunning.
StartAborted ==
    /\ loop.pc = "booting" /\ stored.signal
    /\ To("off")
    /\ UNCHANGED <<stored, current, mem, flight, pending, first, prompt, watch, file, ghost>>

-----------------------------------------------------------------------------
(* The loop. *)

\* The once-rules to consume are taken from the memory as it is, the prompt from
\* the reconciled one.  A run that died in a restart saves its completion first.
PreRoundSync ==
    /\ loop.pc = "session"
    /\ pending' = ActiveOnce(mem)
    /\ mem' = Reconcile(mem)
    /\ current' = current \union {"loop"}
    /\ first' = ForPrompt(mem') /\ prompt' = first'
    /\ \/ stored.signal /\ To("final")
       \/ ~stored.signal /\ (To("boot") \/ Saving("boot"))
    /\ UNCHANGED <<stored, flight, watch, file, ghost>>

\* runCodingPhase: the watcher takes the active rules for known, whichever
\* prompt the container boots with, and the infrastructure is saved once it is up.
\* The teardown outlasts the file access of a tick that was under way.
RunCodingPhase ==
    /\ loop.pc = "boot" /\ watch.at = "off"
    /\ watch' = [NoWatch EXCEPT !.at = "idle", !.known = ForPrompt(mem)]
    /\ ghost' = [ghost EXCEPT !.shown = @ \union (ForPrompt(mem) \ prompt)]
    /\ Saving("prepare")
    /\ UNCHANGED <<stored, current, mem, flight, pending, first, prompt, file>>

SaveRead ==
    /\ loop.pc = "read"
    /\ flight' = mem
    /\ current' = (current \ {"save"}) \union (IF "loop" \in current THEN {"save"} ELSE {})
    /\ To("put")
    /\ UNCHANGED <<stored, mem, pending, first, prompt, watch, file, ghost>>

\* A save that comes too late is swallowed, but for the one that must precede
\* the teardown of a container.
SavePut ==
    /\ loop.pc = "put"
    /\ IF "save" \in current
       THEN /\ Overwrites(flight, stored.signal, {"loop"})
            /\ To(loop.after)
       ELSE /\ UNCHANGED <<stored, current>>
            /\ To(IF loop.after = "teardown" THEN "final" ELSE loop.after)
    /\ flight' = NoRules
    /\ UNCHANGED <<mem, pending, first, prompt, watch, file, ghost>>

PreparePendingRulesFile ==
    /\ loop.pc = "prepare"
    /\ file' = {}
    /\ To("ready")
    /\ UNCHANGED <<stored, current, mem, flight, pending, first, prompt, watch, ghost>>

-----------------------------------------------------------------------------
(* The shell in the container. *)

\* run_subtask empties the file and starts from the prompt.
RunSubtask ==
    /\ loop.pc = "ready"
    /\ file' = {}
    /\ prompt' = {}
    /\ ghost' = [ghost EXCEPT !.shown = @ \union prompt]
    /\ To("coding")
    /\ UNCHANGED <<stored, current, mem, flight, pending, first, watch>>

\* An inner round: what is in the file goes into the task of this round.
Round ==
    /\ loop.pc = "coding"
    /\ file' = {}
    /\ ghost' = [ghost EXCEPT !.shown = @ \union file]
    /\ \/ To("coding")
       \/ To("done")
    /\ UNCHANGED <<stored, current, mem, flight, pending, first, prompt, watch>>

-----------------------------------------------------------------------------
(* onSubtaskComplete. *)

\* Mutant: the rules that have come in since are consumed with the others.
SyncAll ==
    /\ loop.pc = "done"
    /\ current' = current \union {"loop"}
    /\ IF stored.signal
       THEN /\ mem' = Reconcile(mem) /\ To("final")
            /\ UNCHANGED pending
       ELSE /\ mem' = MarkConsumed(Reconcile(mem), ActiveOnce(Reconcile(mem)))
            /\ pending' = {}
            /\ IF pending # {} THEN Saving("judge") ELSE To("judge")
    /\ UNCHANGED <<stored, flight, first, prompt, watch, file, ghost>>

\* The once-rules of the attempt are marked and saved, whatever became of it.
Sync ==
    /\ loop.pc = "done"
    /\ current' = current \union {"loop"}
    /\ IF stored.signal
       THEN /\ mem' = Reconcile(mem) /\ To("final")
            /\ UNCHANGED pending
       ELSE /\ mem' = MarkConsumed(Reconcile(mem), pending)
            /\ pending' = {}
            /\ IF pending # {} THEN Saving("judge") ELSE To("judge")
    /\ UNCHANGED <<stored, flight, first, prompt, watch, file, ghost>>

\* The staging containers and the progress of the round are saved.
SaveProgress ==
    /\ loop.pc = "judge"
    /\ Saving("judge")
    /\ UNCHANGED <<stored, current, mem, flight, pending, first, prompt, watch, file, ghost>>

\* The next subtask, with a prompt of its own or in a container of its own.
Advance ==
    /\ loop.pc = "judge"
    /\ pending' = ActiveOnce(mem)
    /\ \/ prompt' = ForPrompt(mem) /\ To("ready")
       \/ UNCHANGED prompt /\ Saving("teardown")
    /\ UNCHANGED <<stored, current, mem, flight, first, watch, file, ghost>>

\* Another attempt: the once-rules were taken for consumed by the first.
Retry ==
    /\ loop.pc = "judge"
    /\ prompt' = ForPrompt(mem)
    /\ To("ready")
    /\ UNCHANGED <<stored, current, mem, flight, pending, first, watch, file, ghost>>

\* A controlled restart: the watcher is stopped, the completion saved, and the
\* next container boots with the prompt of the session's first subtask.
CompleteRestart ==
    /\ loop.pc = "teardown"
    /\ prompt' = first
    /\ watch' = [watch EXCEPT !.at = IF @ = "append" THEN "late" ELSE "off"]
    /\ Saving("boot")
    /\ UNCHANGED <<stored, current, mem, flight, pending, first, file, ghost>>

\* The run is through, its budget spent, its engine gone or failing, its session
\* aborted.
LoopEnds ==
    /\ loop.pc \in {"judge", "boot", "ready", "coding"}
    /\ To("final")
    /\ UNCHANGED <<stored, current, mem, flight, pending, first, prompt, watch, file, ghost>>

\* What only the process knows is gone; the file is emptied before its next use.
ProcessEnds ==
    /\ loop' = [pc |-> "off", after |-> "off"]
    /\ mem' = NoRules /\ flight' = NoRules /\ watch' = NoWatch
    /\ pending' = {} /\ first' = {} /\ prompt' = {} /\ file' = {}
    /\ UNCHANGED ghost

\* The last save does not look at the storage before it compares the revision.
FinalSave ==
    /\ loop.pc = "final"
    /\ IF "loop" \in current THEN Overwrites(mem, FALSE, {}) ELSE UNCHANGED <<stored, current>>
    /\ ProcessEnds

\* The process is killed.
Crash ==
    /\ loop.pc # "off"
    /\ current' = current \ {"loop", "save"}
    /\ ProcessEnds
    /\ UNCHANGED stored

-----------------------------------------------------------------------------
(* The watcher. *)

\* A tick takes over the revision of what it reads.  The first control signal
\* ends it there; otherwise it goes on to hand over the rules it does not know.
Tick ==
    /\ watch.at = "idle"
    /\ current' = current \union {"loop"}
    /\ LET new == ForPrompt(stored.rules) \ watch.known IN
       \/ /\ stored.signal /\ ~watch.notified
          /\ watch' = [watch EXCEPT !.notified = TRUE]
       \/ /\ ~(stored.signal /\ ~watch.notified) /\ new # {}
          /\ watch' = [watch EXCEPT !.at = "append", !.found = [r \in new |-> stored.rules[r]]]
       \/ /\ ~(stored.signal /\ ~watch.notified) /\ new = {}
          /\ UNCHANGED watch
    /\ UNCHANGED <<stored, loop, mem, flight, pending, first, prompt, file, ghost>>

\* Mutant: the rules go to the shell, and the loop does not hear of them.
OnNewRulesFileOnly ==
    /\ watch.at \in {"append", "late"}
    /\ file' = file \union DOMAIN watch.found
    /\ watch' = IF watch.at = "late" THEN NoWatch
                ELSE [watch EXCEPT !.at = "idle", !.known = @ \union DOMAIN watch.found,
                                   !.found = NoRules]
    /\ UNCHANGED <<stored, current, loop, mem, flight, pending, first, prompt, ghost>>

\* onNewRules: a tick that has started also ends after the watcher was stopped.
OnNewRules ==
    /\ watch.at \in {"append", "late"}
    /\ file' = file \union DOMAIN watch.found
    /\ mem' = AppendMissing(mem, watch.found)
    /\ watch' = IF watch.at = "late" THEN NoWatch
                ELSE [watch EXCEPT !.at = "idle", !.known = @ \union DOMAIN watch.found,
                                   !.found = NoRules]
    /\ UNCHANGED <<stored, current, loop, flight, pending, first, prompt, ghost>>

-----------------------------------------------------------------------------
(* The user. *)

Created(rules, r, scope) == Over([q \in {r} |-> [scope |-> scope, used |-> FALSE]], rules)

\* Mutant: an updated rule starts over.
PatchedAnew(rules, r, scope) == Created(rules, r, scope)

Patched(rules, r, scope) == [rules EXCEPT ![r].scope = scope]

Removed(rules, r) == [q \in DOMAIN rules \ {r} |-> rules[q]]

\* `run rules create | update | remove` read the artifact, and write it unless
\* somebody has written in between: the edit happens at once or not at all.
Create(r, scope) ==
    /\ r \notin ghost.made
    /\ Overwrites(Created(stored.rules, r, scope), stored.signal, {})
    /\ ghost' = [ghost EXCEPT !.made = @ \union {r}, !.live = @ \union {r}]
    /\ UNCHANGED <<loop, mem, flight, pending, first, prompt, watch, file>>

Update(r, scope) ==
    /\ r \in DOMAIN stored.rules /\ stored.rules[r].scope # scope
    /\ Overwrites(Patched(stored.rules, r, scope), stored.signal, {})
    /\ UNCHANGED <<loop, mem, flight, pending, first, prompt, watch, file, ghost>>

Remove(r) ==
    /\ r \in DOMAIN stored.rules
    /\ Overwrites(Removed(stored.rules, r), stored.signal, {})
    /\ ghost' = [ghost EXCEPT !.live = @ \ {r}]
    /\ UNCHANGED <<loop, mem, flight, pending, first, prompt, watch, file>>

\* requestPause, requestStop.
RequestSignal ==
    /\ loop.pc # "off" /\ ~stored.signal
    /\ Overwrites(stored.rules, TRUE, {})
    /\ UNCHANGED <<loop, mem, flight, pending, first, prompt, watch, file, ghost>>

-----------------------------------------------------------------------------
Next ==
    \/ FromArtifact \/ SetStatusRunning \/ StartAborted
    \/ PreRoundSync \/ RunCodingPhase \/ SaveRead \/ SavePut \/ PreparePendingRulesFile
    \/ RunSubtask \/ Round
    \/ Sync \/ SaveProgress \/ Advance \/ Retry \/ CompleteRestart \/ LoopEnds \/ FinalSave \/ Crash
    \/ Tick \/ OnNewRules
    \/ \E r \in Rules : Remove(r) \/ \E scope \in {"once", "always"} : Create(r, scope) \/ Update(r, scope)
    \/ RequestSignal

Spec == Init /\ [][Next]_vars

-----------------------------------------------------------------------------
(* Properties. *)

Used(rules) == {r \in DOMAIN rules : rules[r].used}

TypeOK ==
    /\ stored \in [rules: RuleLists, signal: BOOLEAN]
    /\ current \subseteq Holders
    /\ loop \in [pc: Live \union {"off", "booting", "teardown"},
                 after: {"off", "boot", "prepare", "judge", "teardown"}]
    /\ mem \in RuleLists /\ flight \in RuleLists
    /\ pending \subseteq Rules /\ first \subseteq Rules /\ prompt \subseteq Rules /\ file \subseteq Rules
    /\ watch \in [at: {"off", "idle", "append", "late"}, known: SUBSET Rules, found: RuleLists,
                  notified: BOOLEAN]
    /\ ghost \in [made: SUBSET Rules, shown: SUBSET Rules, live: SUBSET Rules]

\* No rule is marked consumed that the agent was never shown, but for those a
\* fresh container after a restart was taken to know.
ConsumedWasShown == Used(stored.rules) \subseteq ghost.shown

\* Once consumed, a rule is never to be injected again because somebody wrote
\* back a list he had read before.
ConsumedIsForever ==
    [][\A r \in DOMAIN stored.rules \intersect DOMAIN stored'.rules :
            stored.rules[r].used => stored'.rules[r].used]_vars

\* A rule created while the loop is at work and not removed is in the storage, or
\* the loop has it to write it back, or the watcher is about to give it to him:
\* nobody overwrites it unread, until a pause or stop is asked for.
KeptWhileRunning ==
    loop.pc \in Live \union {"teardown"} /\ ~stored.signal =>
        ghost.live \subseteq DOMAIN stored.rules \union DOMAIN mem \union DOMAIN watch.found
=============================================================================
