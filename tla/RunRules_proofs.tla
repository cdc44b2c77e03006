-------------------------- MODULE RunRules_proofs --------------------------
(* That a consumed rule was shown and stays consumed, and that no rule is    *)
(* overwritten unread, for any number of rules.                              *)
EXTENDS RunRules, TLAPS

-----------------------------------------------------------------------------
(* The inductive invariant. *)

\* Every list is of rules that were created.
FromUser ==
    /\ DOMAIN stored.rules \subseteq ghost.made
    /\ DOMAIN mem \subseteq ghost.made
    /\ DOMAIN flight \subseteq ghost.made
    /\ DOMAIN watch.found \subseteq ghost.made

\* Who may write the list back knows of every rule consumed.
MarksKnown ==
    /\ loop.pc # "off" => Used(stored.rules) \subseteq Used(mem)
    /\ loop.pc = "put" => Used(stored.rules) \subseteq Used(flight) /\ Used(flight) \subseteq Used(mem)

\* A rule is only marked where it was shown.
MarksShown ==
    /\ Used(stored.rules) \subseteq ghost.shown
    /\ Used(mem) \subseteq ghost.shown
    /\ Used(flight) \subseteq ghost.shown
    /\ Used(watch.found) \subseteq ghost.shown

During(after) == loop.pc \in {"read", "put"} /\ loop.after = after

\* The rules to be consumed are on their way to the agent: active when the
\* container boots, in the prompt when it waits, shown when it works.
PendingIsTold ==
    /\ loop.pc \in {"boot", "teardown"} \/ During("boot") \/ During("teardown")
            => pending \subseteq ForPrompt(mem)
    /\ loop.pc \in {"prepare", "ready"} \/ During("prepare") => pending \subseteq prompt \union ghost.shown
    /\ loop.pc \in {"coding", "done"} => pending \subseteq ghost.shown
    /\ loop.pc = "judge" \/ During("judge") => pending = {}

\* Where a save under way leads to.
SavesLead == loop.pc \in {"read", "put"} => loop.after \in {"boot", "prepare", "judge", "teardown"}

\* The watcher knows of no rule the memory does not have, and holds rules only
\* while it appends them.
WatchFollows ==
    /\ watch.at # "off" => watch.known \subseteq DOMAIN mem
    /\ watch.at \in {"off", "idle"} => watch.found = NoRules
    /\ loop.pc \in {"off", "booting", "session"} => watch.at = "off" /\ ~watch.notified
    /\ watch.at = "late" => loop.pc \in {"boot", "final"} \/ During("boot")
    /\ watch.notified => stored.signal

AtWork == loop.pc \in Live \union {"teardown"}
Reached == DOMAIN mem \union DOMAIN watch.found

\* Who holds the current revision knows of every rule.
HoldersKnow ==
    AtWork /\ ~stored.signal =>
        /\ "loop" \in current => DOMAIN stored.rules \subseteq Reached
        /\ loop.pc = "put" => DOMAIN flight \subseteq DOMAIN mem
        /\ loop.pc = "put" /\ "save" \in current => DOMAIN stored.rules \subseteq DOMAIN flight \union DOMAIN watch.found \union DOMAIN mem

Inv == FromUser /\ MarksKnown /\ MarksShown /\ PendingIsTold /\ SavesLead /\ WatchFollows /\ HoldersKnow /\ KeptWhileRunning

-----------------------------------------------------------------------------
(* Lists of rules. *)

\* A list of rules is a function from ids to rules.
LEMMA ListIs ==
    ASSUME NEW f, f \in RuleLists
    PROVE  DOMAIN f \subseteq Rules /\ f \in [DOMAIN f -> Rule]
BY DEF RuleLists

\* A function from ids to rules is a list of rules.
LEMMA ToList ==
    ASSUME NEW ids, ids \subseteq Rules, NEW f, f \in [ids -> Rule]
    PROVE  f \in RuleLists
BY DEF RuleLists

LEMMA EmptyList == NoRules \in RuleLists /\ DOMAIN NoRules = {} /\ Used(NoRules) = {}
<1>1. DOMAIN NoRules = {}
  BY DEF NoRules
<1>2. NoRules \in [{} -> Rule]
  BY DEF NoRules
<1>3. NoRules \in RuleLists
  BY <1>2, ToList
<1> QED BY <1>1, <1>3 DEF Used

\* The active rules and the consumed ones are rules of the list.
LEMMA PartsOfList ==
    ASSUME NEW f, f \in RuleLists
    PROVE  /\ DOMAIN f \subseteq Rules
           /\ Used(f) \subseteq DOMAIN f
           /\ ForPrompt(f) \subseteq DOMAIN f
           /\ ActiveOnce(f) \subseteq ForPrompt(f)
           /\ DOMAIN f \subseteq ForPrompt(f) \union Used(f)
BY ListIs DEF Used, ForPrompt, ActiveOnce

\* What overriding a list with another leaves of both.
LEMMA OverList ==
    ASSUME NEW f, f \in RuleLists, NEW g, g \in RuleLists
    PROVE  /\ Over(f, g) \in RuleLists
           /\ DOMAIN Over(f, g) = DOMAIN f \union DOMAIN g
           /\ Used(f) \subseteq Used(Over(f, g))
           /\ Used(Over(f, g)) \subseteq Used(f) \union Used(g)
           /\ ForPrompt(f) \subseteq ForPrompt(Over(f, g))
           /\ Used(f) \subseteq Used(g) => ActiveOnce(g) \subseteq ForPrompt(Over(f, g))
<1> DEFINE h == Over(f, g)
<1>1. f \in [DOMAIN f -> Rule] /\ g \in [DOMAIN g -> Rule] /\ DOMAIN f \subseteq Rules /\ DOMAIN g \subseteq Rules
  BY ListIs
<1>2. DOMAIN h = DOMAIN f \union DOMAIN g
  BY DEF Over
<1>3. \A r \in DOMAIN h : h[r] = IF r \in DOMAIN f THEN f[r] ELSE g[r]
  BY DEF Over
<1>4. h \in [DOMAIN f \union DOMAIN g -> Rule]
  <2>1. \A r \in DOMAIN f \union DOMAIN g : (IF r \in DOMAIN f THEN f[r] ELSE g[r]) \in Rule
    BY <1>1
  <2> QED BY <2>1 DEF Over
<1>5. h \in RuleLists
  BY <1>1, <1>4, ToList
<1> HIDE DEF h
<1>6. Used(f) \subseteq Used(h) /\ Used(h) \subseteq Used(f) \union Used(g)
  BY <1>2, <1>3 DEF Used
<1>7. ForPrompt(f) \subseteq ForPrompt(h)
  BY <1>2, <1>3 DEF ForPrompt
<1>8. Used(f) \subseteq Used(g) => ActiveOnce(g) \subseteq ForPrompt(h)
  BY <1>2, <1>3 DEF Used, ForPrompt, ActiveOnce
<1> QED BY <1>2, <1>5, <1>6, <1>7, <1>8 DEF h

\* Marking rules consumed touches no other.
LEMMA MarkedList ==
    ASSUME NEW f, f \in RuleLists, NEW ids
    PROVE  /\ MarkConsumed(f, ids) \in RuleLists
           /\ DOMAIN MarkConsumed(f, ids) = DOMAIN f
           /\ Used(f) \subseteq Used(MarkConsumed(f, ids))
           /\ Used(MarkConsumed(f, ids)) \subseteq Used(f) \union ids
<1> DEFINE h == MarkConsumed(f, ids)
<1>1. f \in [DOMAIN f -> Rule] /\ DOMAIN f \subseteq Rules
  BY ListIs
<1>2. DOMAIN h = DOMAIN f
  BY DEF MarkConsumed
<1>3. \A r \in DOMAIN f : /\ h[r] \in Rule
                          /\ f[r].used => h[r].used
                          /\ h[r].used => f[r].used \/ r \in ids
  BY <1>1 DEF MarkConsumed, Rule
<1>4. h \in [DOMAIN f -> Rule]
  BY <1>1 DEF MarkConsumed, Rule
<1>5. h \in RuleLists
  BY <1>1, <1>4, ToList
<1> HIDE DEF h
<1>6. Used(f) \subseteq Used(h) /\ Used(h) \subseteq Used(f) \union ids
  BY <1>2, <1>3 DEF Used
<1> QED BY <1>2, <1>5, <1>6 DEF h

\* The three edits of the user.
LEMMA CreatedList ==
    ASSUME NEW f, f \in RuleLists, NEW r \in Rules, NEW scope \in {"once", "always"}
    PROVE  /\ Created(f, r, scope) \in RuleLists
           /\ DOMAIN Created(f, r, scope) = DOMAIN f \union {r}
           /\ Used(Created(f, r, scope)) \subseteq Used(f)
           /\ r \notin DOMAIN f => Used(f) \subseteq Used(Created(f, r, scope))
<1> DEFINE one == [q \in {r} |-> [scope |-> scope, used |-> FALSE]]
<1>1. one \in [{r} -> Rule] /\ DOMAIN one = {r}
  BY DEF Rule
<1>2. one \in RuleLists
  BY <1>1, ToList
<1>3. Used(one) = {}
  BY DEF Used
<1>4. Created(f, r, scope) = Over(one, f)
  BY DEF Created
<1>5. \A q \in DOMAIN f : q # r => Over(one, f)[q] = f[q]
  BY <1>1 DEF Over
<1> HIDE DEF one
<1>6. /\ Over(one, f) \in RuleLists /\ DOMAIN Over(one, f) = {r} \union DOMAIN f
      /\ Used(Over(one, f)) \subseteq Used(f)
  BY <1>1, <1>2, <1>3, OverList
<1>7. r \notin DOMAIN f => Used(f) \subseteq Used(Over(one, f))
  BY <1>5, <1>6 DEF Used
<1> QED BY <1>4, <1>6, <1>7

LEMMA PatchedList ==
    ASSUME NEW f, f \in RuleLists, NEW r \in DOMAIN f, NEW scope \in {"once", "always"}
    PROVE  /\ Patched(f, r, scope) \in RuleLists
           /\ DOMAIN Patched(f, r, scope) = DOMAIN f
           /\ Used(Patched(f, r, scope)) = Used(f)
<1> DEFINE h == Patched(f, r, scope)
<1>1. f \in [DOMAIN f -> Rule] /\ DOMAIN f \subseteq Rules
  BY ListIs
<1>2. DOMAIN h = DOMAIN f
  BY DEF Patched
<1>3. h \in [DOMAIN f -> Rule] /\ \A q \in DOMAIN f : h[q].used = f[q].used
  BY <1>1 DEF Patched, Rule
<1>4. h \in RuleLists
  BY <1>1, <1>3, ToList
<1> HIDE DEF h
<1> QED BY <1>2, <1>3, <1>4 DEF Used, h

\* A list cut down to some of its rules.
LEMMA CutList ==
    ASSUME NEW f, f \in RuleLists, NEW ids, ids \subseteq DOMAIN f
    PROVE  /\ [q \in ids |-> f[q]] \in RuleLists
           /\ DOMAIN [q \in ids |-> f[q]] = ids
           /\ Used([q \in ids |-> f[q]]) = Used(f) \intersect ids
<1> DEFINE h == [q \in ids |-> f[q]]
<1>1. f \in [DOMAIN f -> Rule] /\ DOMAIN f \subseteq Rules
  BY ListIs
<1>2. h \in [ids -> Rule] /\ DOMAIN h = ids /\ \A q \in ids : h[q] = f[q]
  BY <1>1
<1>3. h \in RuleLists
  BY <1>1, <1>2, ToList
<1> HIDE DEF h
<1> QED BY <1>2, <1>3 DEF Used, h

-----------------------------------------------------------------------------
(* Types. *)

LEMMA TypeInit == Init => TypeOK
BY EmptyList DEF Init, TypeOK, NoWatch

LEMMA TypeStep == TypeOK /\ [Next]_vars => TypeOK'
<1> SUFFICES ASSUME TypeOK, [Next]_vars PROVE TypeOK'
  OBVIOUS
<1> USE DEF TypeOK, Holders
<1>1. CASE FromArtifact
  BY <1>1 DEF FromArtifact, Overwrites, Writes, To, Saving, Live
<1>2. CASE SetStatusRunning
  BY <1>2 DEF SetStatusRunning, Overwrites, Writes, To, Saving, Live
<1>3. CASE StartAborted
  BY <1>3 DEF StartAborted, Overwrites, Writes, To, Saving, Live
<1>4. CASE PreRoundSync
  <2>1. Reconcile(mem) \in RuleLists
    BY OverList DEF Reconcile
  <2>2. ActiveOnce(mem) \subseteq Rules /\ ForPrompt(Reconcile(mem)) \subseteq Rules
    BY <2>1, PartsOfList
  <2> QED BY <1>4, <2>1, <2>2 DEF PreRoundSync, To, Saving, Live
<1>5. CASE RunCodingPhase
  BY <1>5, PartsOfList, EmptyList DEF RunCodingPhase, Overwrites, Writes, To, Saving, NoWatch, Live
<1>6. CASE SaveRead
  BY <1>6 DEF SaveRead, Overwrites, Writes, To, Saving, Live, Holders
<1>7. CASE SavePut
  BY <1>7, EmptyList DEF SavePut, Overwrites, Writes, To, Saving, Live
<1>8. CASE PreparePendingRulesFile
  BY <1>8 DEF PreparePendingRulesFile, Overwrites, Writes, To, Saving, Live
<1>9. CASE RunSubtask
  BY <1>9 DEF RunSubtask, Overwrites, Writes, To, Saving, Live
<1>10. CASE Round
  BY <1>10 DEF Round, Overwrites, Writes, To, Saving, Live
<1>11. CASE Sync
  <2>1. Reconcile(mem) \in RuleLists
    BY OverList DEF Reconcile
  <2>2. MarkConsumed(Reconcile(mem), pending) \in RuleLists
    BY <2>1, MarkedList
  <2> QED BY <1>11, <2>1, <2>2 DEF Sync, To, Saving, Live
<1>12. CASE SaveProgress
  BY <1>12 DEF SaveProgress, Overwrites, Writes, To, Saving, Live
<1>13. CASE Advance
  BY <1>13, PartsOfList DEF Advance, Overwrites, Writes, To, Saving, Live
<1>14. CASE Retry
  BY <1>14, PartsOfList DEF Retry, Overwrites, Writes, To, Saving, Live
<1>15. CASE CompleteRestart
  BY <1>15 DEF CompleteRestart, Overwrites, Writes, To, Saving, Live
<1>16. CASE LoopEnds
  BY <1>16 DEF LoopEnds, Overwrites, Writes, To, Saving, Live
<1>17. CASE FinalSave
  <2>1. stored' \in [rules: RuleLists, signal: BOOLEAN] /\ current' \subseteq Holders
    <3>1. CASE "loop" \in current
      <4>1. stored' = [rules |-> mem, signal |-> FALSE] /\ current' = {}
        BY <1>17, <3>1 DEF FinalSave, Overwrites, Writes
      <4> QED BY <4>1
    <3>2. CASE "loop" \notin current
      <4>1. UNCHANGED <<stored, current>>
        BY <1>17, <3>2 DEF FinalSave
      <4> QED BY <4>1
    <3> QED BY <3>1, <3>2
  <2> QED BY <1>17, <2>1, EmptyList DEF FinalSave, ProcessEnds, NoWatch
<1>18. CASE Crash
  BY <1>18, EmptyList DEF Crash, Overwrites, Writes, To, Saving, ProcessEnds, NoWatch, Live
<1>19. CASE Tick
  <2> DEFINE new == ForPrompt(stored.rules) \ watch.known
  <2>1. new \subseteq DOMAIN stored.rules /\ stored.rules \in RuleLists
    BY PartsOfList
  <2>2. [r \in new |-> stored.rules[r]] \in RuleLists
    BY <2>1, CutList
  <2> QED BY <1>19, <2>2 DEF Tick
<1>20. CASE OnNewRules
  <2>1. AppendMissing(mem, watch.found) \in RuleLists /\ DOMAIN watch.found \subseteq Rules
    <3>1. watch.found \in RuleLists /\ mem \in RuleLists BY PartsOfList
    <3>2. AppendMissing(mem, watch.found) \in RuleLists BY <3>1, OverList DEF AppendMissing
    <3>3. DOMAIN watch.found \subseteq Rules BY <3>1, PartsOfList
    <3> QED BY <3>2, <3>3
  <2> QED BY <1>20, <2>1, EmptyList DEF OnNewRules, NoWatch
<1>21. CASE RequestSignal
  BY <1>21 DEF RequestSignal, Overwrites, Writes, To, Saving, Live
<1>22. ASSUME NEW r \in Rules, NEW scope \in {"once", "always"}, Create(r, scope)
     PROVE  TypeOK'
  BY <1>22, CreatedList DEF Create, Overwrites, Writes
<1>23. ASSUME NEW r \in Rules, NEW scope \in {"once", "always"}, Update(r, scope)
     PROVE  TypeOK'
  BY <1>23, PatchedList DEF Update, Overwrites, Writes
<1>24. ASSUME NEW r \in Rules, Remove(r)
     PROVE  TypeOK'
  BY <1>24, CutList DEF Remove, Removed, Overwrites, Writes
<1>25. CASE UNCHANGED vars
  BY <1>25 DEF vars
<1> QED BY <1>1, <1>2, <1>3, <1>4, <1>5, <1>6, <1>7, <1>8, <1>9, <1>10, <1>11, <1>12, <1>13,
      <1>14, <1>15, <1>16, <1>17, <1>18, <1>19, <1>20, <1>21, <1>22, <1>23, <1>24, <1>25 DEF Next

\* Every reachable state is well typed, for any set of rules.
THEOREM TypeCorrect == Spec => []TypeOK
<1>1. TypeOK /\ [Next]_vars => TypeOK'
  BY TypeStep
<1> QED BY TypeInit, <1>1, PTL DEF Spec

-----------------------------------------------------------------------------
(* The invariant is inductive. *)

LEMMA InvInit == Init => Inv
BY EmptyList DEF Init, Inv, FromUser, MarksKnown, MarksShown, PendingIsTold, During, SavesLead,
   WatchFollows, HoldersKnow, Reached, AtWork, KeptWhileRunning, NoWatch, Live

LEMMA InvStep == TypeOK /\ Inv /\ [Next]_vars => Inv'
<1> SUFFICES ASSUME TypeOK, Inv, [Next]_vars PROVE Inv'
  OBVIOUS
<1> USE DEF Live
<1>a. /\ stored.rules \in RuleLists /\ mem \in RuleLists /\ flight \in RuleLists /\ watch.found \in RuleLists
      /\ stored \in [rules: RuleLists, signal: BOOLEAN]
  BY DEF TypeOK
<1>b. /\ FromUser /\ MarksKnown /\ MarksShown /\ PendingIsTold /\ SavesLead /\ WatchFollows /\ HoldersKnow
      /\ KeptWhileRunning
  BY DEF Inv
<1>c. DOMAIN NoRules = {} /\ Used(NoRules) = {}
  BY EmptyList
<1>d. /\ Used(stored.rules) \subseteq DOMAIN stored.rules /\ Used(mem) \subseteq DOMAIN mem
      /\ Used(flight) \subseteq DOMAIN flight
  BY <1>a, PartsOfList
<1>1. CASE FromArtifact
  <2>1. watch.at = "off" /\ watch' = watch /\ ~stored'.signal /\ loop'.pc = "booting"
    BY <1>b, <1>1 DEF FromArtifact, Overwrites, Writes, To, TypeOK
  <2>2. ~watch.notified
    BY <1>b, <1>1 DEF FromArtifact, WatchFollows
  <2>3. FromUser'
    BY <1>1, <1>a, <1>b, <1>c, <1>d, <2>1, <2>2 DEF FromArtifact, Overwrites, Writes, To, Saving,
          TypeOK, FromUser
  <2>4. MarksKnown'
    BY <1>1, <1>a, <1>b, <1>c, <1>d, <2>1, <2>2 DEF FromArtifact, Overwrites, Writes, To, Saving,
          TypeOK, MarksKnown
  <2>5. MarksShown'
    BY <1>1, <1>a, <1>b, <1>c, <1>d, <2>1, <2>2 DEF FromArtifact, Overwrites, Writes, To, Saving,
          TypeOK, MarksShown
  <2>6. PendingIsTold'
    BY <1>1, <1>a, <1>b, <1>c, <1>d, <2>1, <2>2 DEF FromArtifact, Overwrites, Writes, To, Saving,
          TypeOK, PendingIsTold, During
  <2>7. SavesLead'
    BY <1>1, <1>a, <1>b, <1>c, <1>d, <2>1, <2>2 DEF FromArtifact, Overwrites, Writes, To, Saving,
          TypeOK, SavesLead
  <2>8. WatchFollows'
    BY <1>1, <1>a, <1>b, <1>c, <1>d, <2>1, <2>2 DEF FromArtifact, Overwrites, Writes, To, Saving,
          TypeOK, WatchFollows, During
  <2>9. HoldersKnow'
    BY <1>1, <1>a, <1>b, <1>c, <1>d, <2>1, <2>2 DEF FromArtifact, Overwrites, Writes, To, Saving,
          TypeOK, HoldersKnow, Reached, AtWork
  <2>10. KeptWhileRunning'
    BY <1>1, <1>a, <1>b, <1>c, <1>d, <2>1, <2>2 DEF FromArtifact, Overwrites, Writes, To, Saving,
          TypeOK, KeptWhileRunning
  <2> QED BY <2>3, <2>4, <2>5, <2>6, <2>7, <2>8, <2>9, <2>10 DEF Inv
<1>2. CASE SetStatusRunning
  <2>1. FromUser'
    BY <1>2, <1>a, <1>b, <1>c, <1>d DEF SetStatusRunning, Overwrites, Writes, To, Saving, TypeOK,
          FromUser
  <2>2. MarksKnown'
    BY <1>2, <1>a, <1>b, <1>c, <1>d DEF SetStatusRunning, Overwrites, Writes, To, Saving, TypeOK,
          MarksKnown
  <2>3. MarksShown'
    BY <1>2, <1>a, <1>b, <1>c, <1>d DEF SetStatusRunning, Overwrites, Writes, To, Saving, TypeOK,
          MarksShown
  <2>4. PendingIsTold'
    BY <1>2, <1>a, <1>b, <1>c, <1>d DEF SetStatusRunning, Overwrites, Writes, To, Saving, TypeOK,
          PendingIsTold, During
  <2>5. SavesLead'
    BY <1>2, <1>a, <1>b, <1>c, <1>d DEF SetStatusRunning, Overwrites, Writes, To, Saving, TypeOK,
          SavesLead
  <2>6. WatchFollows'
    BY <1>2, <1>a, <1>b, <1>c, <1>d DEF SetStatusRunning, Overwrites, Writes, To, Saving, TypeOK,
          WatchFollows, During
  <2>7. HoldersKnow'
    BY <1>2, <1>a, <1>b, <1>c, <1>d DEF SetStatusRunning, Overwrites, Writes, To, Saving, TypeOK,
          HoldersKnow, Reached, AtWork
  <2>8. KeptWhileRunning'
    BY <1>2, <1>a, <1>b, <1>c, <1>d DEF SetStatusRunning, Overwrites, Writes, To, Saving, TypeOK,
          KeptWhileRunning
  <2> QED BY <2>1, <2>2, <2>3, <2>4, <2>5, <2>6, <2>7, <2>8 DEF Inv
<1>3. CASE StartAborted
  <2>1. FromUser'
    BY <1>3, <1>a, <1>b, <1>c, <1>d DEF StartAborted, Overwrites, Writes, To, Saving, TypeOK,
          FromUser
  <2>2. MarksKnown'
    BY <1>3, <1>a, <1>b, <1>c, <1>d DEF StartAborted, Overwrites, Writes, To, Saving, TypeOK,
          MarksKnown
  <2>3. MarksShown'
    BY <1>3, <1>a, <1>b, <1>c, <1>d DEF StartAborted, Overwrites, Writes, To, Saving, TypeOK,
          MarksShown
  <2>4. PendingIsTold'
    BY <1>3, <1>a, <1>b, <1>c, <1>d DEF StartAborted, Overwrites, Writes, To, Saving, TypeOK,
          PendingIsTold, During
  <2>5. SavesLead'
    BY <1>3, <1>a, <1>b, <1>c, <1>d DEF StartAborted, Overwrites, Writes, To, Saving, TypeOK,
          SavesLead
  <2>6. WatchFollows'
    BY <1>3, <1>a, <1>b, <1>c, <1>d DEF StartAborted, Overwrites, Writes, To, Saving, TypeOK,
          WatchFollows, During
  <2>7. HoldersKnow'
    BY <1>3, <1>a, <1>b, <1>c, <1>d DEF StartAborted, Overwrites, Writes, To, Saving, TypeOK,
          HoldersKnow, Reached, AtWork
  <2>8. KeptWhileRunning'
    BY <1>3, <1>a, <1>b, <1>c, <1>d DEF StartAborted, Overwrites, Writes, To, Saving, TypeOK,
          KeptWhileRunning
  <2> QED BY <2>1, <2>2, <2>3, <2>4, <2>5, <2>6, <2>7, <2>8 DEF Inv
<1>4. CASE PreRoundSync
  <2>1. mem' = Over(stored.rules, mem)
    BY <1>b, <1>4 DEF PreRoundSync, Reconcile
  <2>2. mem' \in RuleLists /\ DOMAIN mem' = DOMAIN stored.rules \union DOMAIN mem
    BY <1>b, <2>1, <1>a, OverList
  <2>3. Used(stored.rules) \subseteq Used(mem') /\ Used(mem') \subseteq Used(stored.rules) \union Used(mem)
    BY <1>b, <2>1, <1>a, OverList
  <2>4. ActiveOnce(mem) \subseteq ForPrompt(mem')
    BY <1>b, <2>1, <1>a, OverList, <1>4 DEF PreRoundSync, MarksKnown
  <2>5. FromUser'
    BY <1>4, <1>a, <1>b, <1>c, <1>d, <2>1, <2>2, <2>3, <2>4 DEF PreRoundSync, Overwrites, Writes,
          To, Saving, TypeOK, FromUser
  <2>6. MarksKnown'
    BY <1>4, <1>a, <1>b, <1>c, <1>d, <2>1, <2>2, <2>3, <2>4 DEF PreRoundSync, Overwrites, Writes,
          To, Saving, TypeOK, MarksKnown
  <2>7. MarksShown'
    BY <1>4, <1>a, <1>b, <1>c, <1>d, <2>1, <2>2, <2>3, <2>4 DEF PreRoundSync, Overwrites, Writes,
          To, Saving, TypeOK, MarksShown
  <2>8. PendingIsTold'
    BY <1>4, <1>a, <1>b, <1>c, <1>d, <2>1, <2>2, <2>3, <2>4 DEF PreRoundSync, Overwrites, Writes,
          To, Saving, TypeOK, PendingIsTold, During
  <2>9. SavesLead'
    BY <1>4, <1>a, <1>b, <1>c, <1>d, <2>1, <2>2, <2>3, <2>4 DEF PreRoundSync, Overwrites, Writes,
          To, Saving, TypeOK, SavesLead
  <2>10. WatchFollows'
    BY <1>4, <1>a, <1>b, <1>c, <1>d, <2>1, <2>2, <2>3, <2>4 DEF PreRoundSync, Overwrites, Writes,
          To, Saving, TypeOK, WatchFollows, During
  <2>11. HoldersKnow'
    BY <1>4, <1>a, <1>b, <1>c, <1>d, <2>1, <2>2, <2>3, <2>4 DEF PreRoundSync, Overwrites, Writes,
          To, Saving, TypeOK, HoldersKnow, Reached, AtWork
  <2>12. KeptWhileRunning'
    BY <1>4, <1>a, <1>b, <1>c, <1>d, <2>1, <2>2, <2>3, <2>4 DEF PreRoundSync, Overwrites, Writes,
          To, Saving, TypeOK, KeptWhileRunning
  <2> QED BY <2>5, <2>6, <2>7, <2>8, <2>9, <2>10, <2>11, <2>12 DEF Inv
<1>5. CASE RunCodingPhase
  <2>1. watch'.at = "idle" /\ watch'.known = ForPrompt(mem) /\ watch'.found = NoRules /\ ~watch'.notified
    BY <1>b, <1>5 DEF RunCodingPhase, NoWatch
  <2>2. watch.found = NoRules
    BY <1>b, <1>5 DEF RunCodingPhase, WatchFollows
  <2>3. ForPrompt(mem) \subseteq DOMAIN mem
    BY <1>b, <1>a, PartsOfList
  <2>4. FromUser'
    BY <1>5, <1>a, <1>b, <1>c, <1>d, <2>1, <2>2, <2>3 DEF RunCodingPhase, Overwrites, Writes, To,
          Saving, NoWatch, TypeOK, FromUser
  <2>5. MarksKnown'
    BY <1>5, <1>a, <1>b, <1>c, <1>d, <2>1, <2>2, <2>3 DEF RunCodingPhase, Overwrites, Writes, To,
          Saving, NoWatch, TypeOK, MarksKnown
  <2>6. MarksShown'
    BY <1>5, <1>a, <1>b, <1>c, <1>d, <2>1, <2>2, <2>3 DEF RunCodingPhase, Overwrites, Writes, To,
          Saving, NoWatch, TypeOK, MarksShown
  <2>7. PendingIsTold'
    BY <1>5, <1>a, <1>b, <1>c, <1>d, <2>1, <2>2, <2>3 DEF RunCodingPhase, Overwrites, Writes, To,
          Saving, NoWatch, TypeOK, PendingIsTold, During
  <2>8. SavesLead'
    BY <1>5, <1>a, <1>b, <1>c, <1>d, <2>1, <2>2, <2>3 DEF RunCodingPhase, Overwrites, Writes, To,
          Saving, NoWatch, TypeOK, SavesLead
  <2>9. WatchFollows'
    BY <1>5, <1>a, <1>b, <1>c, <1>d, <2>1, <2>2, <2>3 DEF RunCodingPhase, Overwrites, Writes, To,
          Saving, NoWatch, TypeOK, WatchFollows, During
  <2>10. HoldersKnow'
    BY <1>5, <1>a, <1>b, <1>c, <1>d, <2>1, <2>2, <2>3 DEF RunCodingPhase, Overwrites, Writes, To,
          Saving, NoWatch, TypeOK, HoldersKnow, Reached, AtWork
  <2>11. KeptWhileRunning'
    BY <1>5, <1>a, <1>b, <1>c, <1>d, <2>1, <2>2, <2>3 DEF RunCodingPhase, Overwrites, Writes, To,
          Saving, NoWatch, TypeOK, KeptWhileRunning
  <2> QED BY <2>4, <2>5, <2>6, <2>7, <2>8, <2>9, <2>10, <2>11 DEF Inv
<1>6. CASE SaveRead
  <2>1. FromUser'
    BY <1>6, <1>a, <1>b, <1>c, <1>d DEF SaveRead, Overwrites, Writes, To, Saving, TypeOK, FromUser
  <2>2. MarksKnown'
    BY <1>6, <1>a, <1>b, <1>c, <1>d DEF SaveRead, Overwrites, Writes, To, Saving, TypeOK, MarksKnown
  <2>3. MarksShown'
    BY <1>6, <1>a, <1>b, <1>c, <1>d DEF SaveRead, Overwrites, Writes, To, Saving, TypeOK, MarksShown
  <2>4. PendingIsTold'
    BY <1>6, <1>a, <1>b, <1>c, <1>d DEF SaveRead, Overwrites, Writes, To, Saving, TypeOK,
          PendingIsTold, During
  <2>5. SavesLead'
    BY <1>6, <1>a, <1>b, <1>c, <1>d DEF SaveRead, Overwrites, Writes, To, Saving, TypeOK, SavesLead
  <2>6. WatchFollows'
    BY <1>6, <1>a, <1>b, <1>c, <1>d DEF SaveRead, Overwrites, Writes, To, Saving, TypeOK,
          WatchFollows, During
  <2>7. HoldersKnow'
    BY <1>6, <1>a, <1>b, <1>c, <1>d DEF SaveRead, Overwrites, Writes, To, Saving, TypeOK,
          HoldersKnow, Reached, AtWork
  <2>8. KeptWhileRunning'
    BY <1>6, <1>a, <1>b, <1>c, <1>d DEF SaveRead, Overwrites, Writes, To, Saving, TypeOK,
          KeptWhileRunning
  <2> QED BY <2>1, <2>2, <2>3, <2>4, <2>5, <2>6, <2>7, <2>8 DEF Inv
<1>7. CASE SavePut
  <2>1. \/ "save" \in current /\ stored' = [rules |-> flight, signal |-> stored.signal] /\ current' = {"loop"}
        \/ "save" \notin current /\ stored' = stored /\ current' = current
    <3>1. CASE "save" \in current
      BY <1>7, <3>1 DEF SavePut, Overwrites, Writes
    <3>2. CASE "save" \notin current
      BY <1>7, <3>2 DEF SavePut
    <3> QED BY <3>1, <3>2
  <2>2. stored'.signal = stored.signal /\ (stored'.rules = flight \/ stored'.rules = stored.rules)
    BY <1>b, <2>1
  <2>3. loop.pc = "put" /\ mem' = mem /\ watch' = watch /\ ghost' = ghost /\ flight' = NoRules
    BY <1>b, <1>7 DEF SavePut
  <2>4. loop'.pc \in {"boot", "prepare", "judge", "teardown", "final"}
    BY <1>b, <1>7 DEF SavePut, To, TypeOK, SavesLead
  <2>5. FromUser'
    BY <1>7, <1>a, <1>b, <1>c, <1>d, <2>1, <2>2, <2>3, <2>4 DEF SavePut, Overwrites, Writes, To,
          Saving, TypeOK, FromUser
  <2>6. MarksKnown'
    BY <1>7, <1>a, <1>b, <1>c, <1>d, <2>1, <2>2, <2>3, <2>4 DEF SavePut, Overwrites, Writes, To,
          Saving, TypeOK, MarksKnown
  <2>7. MarksShown'
    BY <1>7, <1>a, <1>b, <1>c, <1>d, <2>1, <2>2, <2>3, <2>4 DEF SavePut, Overwrites, Writes, To,
          Saving, TypeOK, MarksShown
  <2>8. PendingIsTold'
    BY <1>7, <1>a, <1>b, <1>c, <1>d, <2>1, <2>2, <2>3, <2>4 DEF SavePut, Overwrites, Writes, To,
          Saving, TypeOK, PendingIsTold, During
  <2>9. SavesLead'
    BY <1>7, <1>a, <1>b, <1>c, <1>d, <2>1, <2>2, <2>3, <2>4 DEF SavePut, Overwrites, Writes, To,
          Saving, TypeOK, SavesLead
  <2>10. WatchFollows'
    BY <1>7, <1>a, <1>b, <1>c, <1>d, <2>1, <2>2, <2>3, <2>4 DEF SavePut, Overwrites, Writes, To,
          Saving, TypeOK, WatchFollows, During
  <2>11. HoldersKnow'
    BY <1>7, <1>a, <1>b, <1>c, <1>d, <2>1, <2>2, <2>3, <2>4 DEF SavePut, Overwrites, Writes, To,
          Saving, TypeOK, HoldersKnow, Reached, AtWork
  <2>12. KeptWhileRunning'
    BY <1>7, <1>a, <1>b, <1>c, <1>d, <2>1, <2>2, <2>3, <2>4 DEF SavePut, Overwrites, Writes, To,
          Saving, TypeOK, KeptWhileRunning, HoldersKnow, Reached, AtWork
  <2> QED BY <2>5, <2>6, <2>7, <2>8, <2>9, <2>10, <2>11, <2>12 DEF Inv
<1>8. CASE PreparePendingRulesFile
  <2>1. FromUser'
    BY <1>8, <1>a, <1>b, <1>c, <1>d DEF PreparePendingRulesFile, Overwrites, Writes, To, Saving,
          TypeOK, FromUser
  <2>2. MarksKnown'
    BY <1>8, <1>a, <1>b, <1>c, <1>d DEF PreparePendingRulesFile, Overwrites, Writes, To, Saving,
          TypeOK, MarksKnown
  <2>3. MarksShown'
    BY <1>8, <1>a, <1>b, <1>c, <1>d DEF PreparePendingRulesFile, Overwrites, Writes, To, Saving,
          TypeOK, MarksShown
  <2>4. PendingIsTold'
    BY <1>8, <1>a, <1>b, <1>c, <1>d DEF PreparePendingRulesFile, Overwrites, Writes, To, Saving,
          TypeOK, PendingIsTold, During
  <2>5. SavesLead'
    BY <1>8, <1>a, <1>b, <1>c, <1>d DEF PreparePendingRulesFile, Overwrites, Writes, To, Saving,
          TypeOK, SavesLead
  <2>6. WatchFollows'
    BY <1>8, <1>a, <1>b, <1>c, <1>d DEF PreparePendingRulesFile, Overwrites, Writes, To, Saving,
          TypeOK, WatchFollows, During
  <2>7. HoldersKnow'
    BY <1>8, <1>a, <1>b, <1>c, <1>d DEF PreparePendingRulesFile, Overwrites, Writes, To, Saving,
          TypeOK, HoldersKnow, Reached, AtWork
  <2>8. KeptWhileRunning'
    BY <1>8, <1>a, <1>b, <1>c, <1>d DEF PreparePendingRulesFile, Overwrites, Writes, To, Saving,
          TypeOK, KeptWhileRunning
  <2> QED BY <2>1, <2>2, <2>3, <2>4, <2>5, <2>6, <2>7, <2>8 DEF Inv
<1>9. CASE RunSubtask
  <2>1. FromUser'
    BY <1>9, <1>a, <1>b, <1>c, <1>d DEF RunSubtask, Overwrites, Writes, To, Saving, TypeOK, FromUser
  <2>2. MarksKnown'
    BY <1>9, <1>a, <1>b, <1>c, <1>d DEF RunSubtask, Overwrites, Writes, To, Saving, TypeOK,
          MarksKnown
  <2>3. MarksShown'
    BY <1>9, <1>a, <1>b, <1>c, <1>d DEF RunSubtask, Overwrites, Writes, To, Saving, TypeOK,
          MarksShown
  <2>4. PendingIsTold'
    BY <1>9, <1>a, <1>b, <1>c, <1>d DEF RunSubtask, Overwrites, Writes, To, Saving, TypeOK,
          PendingIsTold, During
  <2>5. SavesLead'
    BY <1>9, <1>a, <1>b, <1>c, <1>d DEF RunSubtask, Overwrites, Writes, To, Saving, TypeOK,
          SavesLead
  <2>6. WatchFollows'
    BY <1>9, <1>a, <1>b, <1>c, <1>d DEF RunSubtask, Overwrites, Writes, To, Saving, TypeOK,
          WatchFollows, During
  <2>7. HoldersKnow'
    BY <1>9, <1>a, <1>b, <1>c, <1>d DEF RunSubtask, Overwrites, Writes, To, Saving, TypeOK,
          HoldersKnow, Reached, AtWork
  <2>8. KeptWhileRunning'
    BY <1>9, <1>a, <1>b, <1>c, <1>d DEF RunSubtask, Overwrites, Writes, To, Saving, TypeOK,
          KeptWhileRunning
  <2> QED BY <2>1, <2>2, <2>3, <2>4, <2>5, <2>6, <2>7, <2>8 DEF Inv
<1>10. CASE Round
  <2>1. FromUser'
    BY <1>10, <1>a, <1>b, <1>c, <1>d DEF Round, Overwrites, Writes, To, Saving, TypeOK, FromUser
  <2>2. MarksKnown'
    BY <1>10, <1>a, <1>b, <1>c, <1>d DEF Round, Overwrites, Writes, To, Saving, TypeOK, MarksKnown
  <2>3. MarksShown'
    BY <1>10, <1>a, <1>b, <1>c, <1>d DEF Round, Overwrites, Writes, To, Saving, TypeOK, MarksShown
  <2>4. PendingIsTold'
    BY <1>10, <1>a, <1>b, <1>c, <1>d DEF Round, Overwrites, Writes, To, Saving, TypeOK,
          PendingIsTold, During
  <2>5. SavesLead'
    BY <1>10, <1>a, <1>b, <1>c, <1>d DEF Round, Overwrites, Writes, To, Saving, TypeOK, SavesLead
  <2>6. WatchFollows'
    BY <1>10, <1>a, <1>b, <1>c, <1>d DEF Round, Overwrites, Writes, To, Saving, TypeOK,
          WatchFollows, During
  <2>7. HoldersKnow'
    BY <1>10, <1>a, <1>b, <1>c, <1>d DEF Round, Overwrites, Writes, To, Saving, TypeOK,
          HoldersKnow, Reached, AtWork
  <2>8. KeptWhileRunning'
    BY <1>10, <1>a, <1>b, <1>c, <1>d DEF Round, Overwrites, Writes, To, Saving, TypeOK,
          KeptWhileRunning
  <2> QED BY <2>1, <2>2, <2>3, <2>4, <2>5, <2>6, <2>7, <2>8 DEF Inv
<1>11. CASE Sync
  <2>1. Over(stored.rules, mem) \in RuleLists /\ DOMAIN Over(stored.rules, mem) = DOMAIN stored.rules \union DOMAIN mem
    BY <1>b, <1>a, OverList
  <2>2. /\ Used(stored.rules) \subseteq Used(Over(stored.rules, mem))
        /\ Used(Over(stored.rules, mem)) \subseteq Used(stored.rules) \union Used(mem)
    BY <1>b, <1>a, OverList
  <2>3. DOMAIN mem' = DOMAIN stored.rules \union DOMAIN mem
    BY <1>b, <1>11, <2>1, MarkedList DEF Sync, Reconcile
  <2>4. Used(stored.rules) \subseteq Used(mem') /\ Used(mem') \subseteq Used(stored.rules) \union Used(mem) \union pending
    BY <1>b, <1>11, <2>1, <2>2, MarkedList DEF Sync, Reconcile
  <2>5. pending \subseteq ghost.shown
    BY <1>b, <1>11 DEF Sync, PendingIsTold
  <2>6. FromUser'
    BY <1>11, <1>a, <1>b, <1>c, <1>d, <2>1, <2>2, <2>3, <2>4, <2>5 DEF Sync, Overwrites, Writes,
          To, Saving, TypeOK, FromUser
  <2>7. MarksKnown'
    BY <1>11, <1>a, <1>b, <1>c, <1>d, <2>1, <2>2, <2>3, <2>4, <2>5 DEF Sync, Overwrites, Writes,
          To, Saving, TypeOK, MarksKnown
  <2>8. MarksShown'
    BY <1>11, <1>a, <1>b, <1>c, <1>d, <2>1, <2>2, <2>3, <2>4, <2>5 DEF Sync, Overwrites, Writes,
          To, Saving, TypeOK, MarksShown
  <2>9. PendingIsTold'
    BY <1>11, <1>a, <1>b, <1>c, <1>d, <2>1, <2>2, <2>3, <2>4, <2>5 DEF Sync, Overwrites, Writes,
          To, Saving, TypeOK, PendingIsTold, During
  <2>10. SavesLead'
    BY <1>11, <1>a, <1>b, <1>c, <1>d, <2>1, <2>2, <2>3, <2>4, <2>5 DEF Sync, Overwrites, Writes,
          To, Saving, TypeOK, SavesLead
  <2>11. WatchFollows'
    BY <1>11, <1>a, <1>b, <1>c, <1>d, <2>1, <2>2, <2>3, <2>4, <2>5 DEF Sync, Overwrites, Writes,
          To, Saving, TypeOK, WatchFollows, During
  <2>12. HoldersKnow'
    BY <1>11, <1>a, <1>b, <1>c, <1>d, <2>1, <2>2, <2>3, <2>4, <2>5 DEF Sync, Overwrites, Writes,
          To, Saving, TypeOK, HoldersKnow, Reached, AtWork
  <2>13. KeptWhileRunning'
    BY <1>11, <1>a, <1>b, <1>c, <1>d, <2>1, <2>2, <2>3, <2>4, <2>5 DEF Sync, Overwrites, Writes,
          To, Saving, TypeOK, KeptWhileRunning
  <2> QED BY <2>6, <2>7, <2>8, <2>9, <2>10, <2>11, <2>12, <2>13 DEF Inv
<1>12. CASE SaveProgress
  <2>1. FromUser'
    BY <1>12, <1>a, <1>b, <1>c, <1>d DEF SaveProgress, Overwrites, Writes, To, Saving, TypeOK,
          FromUser
  <2>2. MarksKnown'
    BY <1>12, <1>a, <1>b, <1>c, <1>d DEF SaveProgress, Overwrites, Writes, To, Saving, TypeOK,
          MarksKnown
  <2>3. MarksShown'
    BY <1>12, <1>a, <1>b, <1>c, <1>d DEF SaveProgress, Overwrites, Writes, To, Saving, TypeOK,
          MarksShown
  <2>4. PendingIsTold'
    BY <1>12, <1>a, <1>b, <1>c, <1>d DEF SaveProgress, Overwrites, Writes, To, Saving, TypeOK,
          PendingIsTold, During
  <2>5. SavesLead'
    BY <1>12, <1>a, <1>b, <1>c, <1>d DEF SaveProgress, Overwrites, Writes, To, Saving, TypeOK,
          SavesLead
  <2>6. WatchFollows'
    BY <1>12, <1>a, <1>b, <1>c, <1>d DEF SaveProgress, Overwrites, Writes, To, Saving, TypeOK,
          WatchFollows, During
  <2>7. HoldersKnow'
    BY <1>12, <1>a, <1>b, <1>c, <1>d DEF SaveProgress, Overwrites, Writes, To, Saving, TypeOK,
          HoldersKnow, Reached, AtWork
  <2>8. KeptWhileRunning'
    BY <1>12, <1>a, <1>b, <1>c, <1>d DEF SaveProgress, Overwrites, Writes, To, Saving, TypeOK,
          KeptWhileRunning
  <2> QED BY <2>1, <2>2, <2>3, <2>4, <2>5, <2>6, <2>7, <2>8 DEF Inv
<1>13. CASE Advance
  <2>1. ActiveOnce(mem) \subseteq ForPrompt(mem)
    BY <1>b, <1>a, PartsOfList
  <2>2. FromUser'
    BY <1>13, <1>a, <1>b, <1>c, <1>d, <2>1 DEF Advance, Overwrites, Writes, To, Saving, TypeOK,
          FromUser
  <2>3. MarksKnown'
    BY <1>13, <1>a, <1>b, <1>c, <1>d, <2>1 DEF Advance, Overwrites, Writes, To, Saving, TypeOK,
          MarksKnown
  <2>4. MarksShown'
    BY <1>13, <1>a, <1>b, <1>c, <1>d, <2>1 DEF Advance, Overwrites, Writes, To, Saving, TypeOK,
          MarksShown
  <2>5. PendingIsTold'
    BY <1>13, <1>a, <1>b, <1>c, <1>d, <2>1 DEF Advance, Overwrites, Writes, To, Saving, TypeOK,
          PendingIsTold, During
  <2>6. SavesLead'
    BY <1>13, <1>a, <1>b, <1>c, <1>d, <2>1 DEF Advance, Overwrites, Writes, To, Saving, TypeOK,
          SavesLead
  <2>7. WatchFollows'
    BY <1>13, <1>a, <1>b, <1>c, <1>d, <2>1 DEF Advance, Overwrites, Writes, To, Saving, TypeOK,
          WatchFollows, During
  <2>8. HoldersKnow'
    BY <1>13, <1>a, <1>b, <1>c, <1>d, <2>1 DEF Advance, Overwrites, Writes, To, Saving, TypeOK,
          HoldersKnow, Reached, AtWork
  <2>9. KeptWhileRunning'
    BY <1>13, <1>a, <1>b, <1>c, <1>d, <2>1 DEF Advance, Overwrites, Writes, To, Saving, TypeOK,
          KeptWhileRunning
  <2> QED BY <2>2, <2>3, <2>4, <2>5, <2>6, <2>7, <2>8, <2>9 DEF Inv
<1>14. CASE Retry
  <2>1. FromUser'
    BY <1>14, <1>a, <1>b, <1>c, <1>d DEF Retry, Overwrites, Writes, To, Saving, TypeOK, FromUser
  <2>2. MarksKnown'
    BY <1>14, <1>a, <1>b, <1>c, <1>d DEF Retry, Overwrites, Writes, To, Saving, TypeOK, MarksKnown
  <2>3. MarksShown'
    BY <1>14, <1>a, <1>b, <1>c, <1>d DEF Retry, Overwrites, Writes, To, Saving, TypeOK, MarksShown
  <2>4. PendingIsTold'
    BY <1>14, <1>a, <1>b, <1>c, <1>d DEF Retry, Overwrites, Writes, To, Saving, TypeOK,
          PendingIsTold, During
  <2>5. SavesLead'
    BY <1>14, <1>a, <1>b, <1>c, <1>d DEF Retry, Overwrites, Writes, To, Saving, TypeOK, SavesLead
  <2>6. WatchFollows'
    BY <1>14, <1>a, <1>b, <1>c, <1>d DEF Retry, Overwrites, Writes, To, Saving, TypeOK,
          WatchFollows, During
  <2>7. HoldersKnow'
    BY <1>14, <1>a, <1>b, <1>c, <1>d DEF Retry, Overwrites, Writes, To, Saving, TypeOK,
          HoldersKnow, Reached, AtWork
  <2>8. KeptWhileRunning'
    BY <1>14, <1>a, <1>b, <1>c, <1>d DEF Retry, Overwrites, Writes, To, Saving, TypeOK,
          KeptWhileRunning
  <2> QED BY <2>1, <2>2, <2>3, <2>4, <2>5, <2>6, <2>7, <2>8 DEF Inv
<1>15. CASE CompleteRestart
  <2>1. /\ watch'.at \in {"off", "late"} /\ watch'.known = watch.known
        /\ watch'.found = watch.found /\ watch'.notified = watch.notified
    <3>1. watch' = [watch EXCEPT !.at = IF watch.at = "append" THEN "late" ELSE "off"]
      BY <1>15 DEF CompleteRestart
    <3> QED BY <3>1 DEF TypeOK
  <2>2. watch'.at = "off" => watch.at \in {"off", "idle"}
    <3>1. watch' = [watch EXCEPT !.at = IF watch.at = "append" THEN "late" ELSE "off"]
      BY <1>15 DEF CompleteRestart
    <3>2. watch.at # "late"
      BY <1>15, <1>b DEF CompleteRestart, WatchFollows, During
    <3> QED BY <3>1, <3>2 DEF TypeOK
  <2>3. loop'.pc = "read"
    BY <1>b, <1>15 DEF CompleteRestart, Saving
  <2>4. FromUser'
    BY <1>15, <1>a, <1>b, <1>c, <1>d, <2>1, <2>2, <2>3 DEF CompleteRestart, Overwrites, Writes,
          To, Saving, TypeOK, FromUser
  <2>5. MarksKnown'
    BY <1>15, <1>a, <1>b, <1>c, <1>d, <2>1, <2>2, <2>3 DEF CompleteRestart, Overwrites, Writes,
          To, Saving, TypeOK, MarksKnown
  <2>6. MarksShown'
    BY <1>15, <1>a, <1>b, <1>c, <1>d, <2>1, <2>2, <2>3 DEF CompleteRestart, Overwrites, Writes,
          To, Saving, TypeOK, MarksShown
  <2>7. PendingIsTold'
    BY <1>15, <1>a, <1>b, <1>c, <1>d, <2>1, <2>2, <2>3 DEF CompleteRestart, Overwrites, Writes,
          To, Saving, TypeOK, PendingIsTold, During
  <2>8. SavesLead'
    BY <1>15, <1>a, <1>b, <1>c, <1>d, <2>1, <2>2, <2>3 DEF CompleteRestart, Overwrites, Writes,
          To, Saving, TypeOK, SavesLead
  <2>9. WatchFollows'
    BY <1>15, <1>a, <1>b, <1>c, <1>d, <2>1, <2>2, <2>3 DEF CompleteRestart, Overwrites, Writes,
          To, Saving, TypeOK, WatchFollows, During
  <2>10. HoldersKnow'
    BY <1>15, <1>a, <1>b, <1>c, <1>d, <2>1, <2>2, <2>3 DEF CompleteRestart, Overwrites, Writes,
          To, Saving, TypeOK, HoldersKnow, Reached, AtWork
  <2>11. KeptWhileRunning'
    BY <1>15, <1>a, <1>b, <1>c, <1>d, <2>1, <2>2, <2>3 DEF CompleteRestart, Overwrites, Writes,
          To, Saving, TypeOK, KeptWhileRunning
  <2> QED BY <2>4, <2>5, <2>6, <2>7, <2>8, <2>9, <2>10, <2>11 DEF Inv
<1>16. CASE LoopEnds
  <2>1. FromUser'
    BY <1>16, <1>a, <1>b, <1>c, <1>d DEF LoopEnds, Overwrites, Writes, To, Saving, TypeOK, FromUser
  <2>2. MarksKnown'
    BY <1>16, <1>a, <1>b, <1>c, <1>d DEF LoopEnds, Overwrites, Writes, To, Saving, TypeOK,
          MarksKnown
  <2>3. MarksShown'
    BY <1>16, <1>a, <1>b, <1>c, <1>d DEF LoopEnds, Overwrites, Writes, To, Saving, TypeOK,
          MarksShown
  <2>4. PendingIsTold'
    BY <1>16, <1>a, <1>b, <1>c, <1>d DEF LoopEnds, Overwrites, Writes, To, Saving, TypeOK,
          PendingIsTold, During
  <2>5. SavesLead'
    BY <1>16, <1>a, <1>b, <1>c, <1>d DEF LoopEnds, Overwrites, Writes, To, Saving, TypeOK, SavesLead
  <2>6. WatchFollows'
    BY <1>16, <1>a, <1>b, <1>c, <1>d DEF LoopEnds, Overwrites, Writes, To, Saving, TypeOK,
          WatchFollows, During
  <2>7. HoldersKnow'
    BY <1>16, <1>a, <1>b, <1>c, <1>d DEF LoopEnds, Overwrites, Writes, To, Saving, TypeOK,
          HoldersKnow, Reached, AtWork
  <2>8. KeptWhileRunning'
    BY <1>16, <1>a, <1>b, <1>c, <1>d DEF LoopEnds, Overwrites, Writes, To, Saving, TypeOK,
          KeptWhileRunning
  <2> QED BY <2>1, <2>2, <2>3, <2>4, <2>5, <2>6, <2>7, <2>8 DEF Inv
<1>17. CASE FinalSave
  <2>1. FromUser'
    BY <1>17, <1>a, <1>b, <1>c, <1>d DEF FinalSave, Overwrites, Writes, To, Saving, ProcessEnds,
          NoWatch, TypeOK, FromUser
  <2>2. MarksKnown'
    BY <1>17, <1>a, <1>b, <1>c, <1>d DEF FinalSave, Overwrites, Writes, To, Saving, ProcessEnds,
          NoWatch, TypeOK, MarksKnown
  <2>3. MarksShown'
    BY <1>17, <1>a, <1>b, <1>c, <1>d DEF FinalSave, Overwrites, Writes, To, Saving, ProcessEnds,
          NoWatch, TypeOK, MarksShown
  <2>4. PendingIsTold'
    BY <1>17, <1>a, <1>b, <1>c, <1>d DEF FinalSave, Overwrites, Writes, To, Saving, ProcessEnds,
          NoWatch, TypeOK, PendingIsTold, During
  <2>5. SavesLead'
    BY <1>17, <1>a, <1>b, <1>c, <1>d DEF FinalSave, Overwrites, Writes, To, Saving, ProcessEnds,
          NoWatch, TypeOK, SavesLead
  <2>6. WatchFollows'
    BY <1>17, <1>a, <1>b, <1>c, <1>d DEF FinalSave, Overwrites, Writes, To, Saving, ProcessEnds,
          NoWatch, TypeOK, WatchFollows, During
  <2>7. HoldersKnow'
    BY <1>17, <1>a, <1>b, <1>c, <1>d DEF FinalSave, Overwrites, Writes, To, Saving, ProcessEnds,
          NoWatch, TypeOK, HoldersKnow, Reached, AtWork
  <2>8. KeptWhileRunning'
    BY <1>17, <1>a, <1>b, <1>c, <1>d DEF FinalSave, Overwrites, Writes, To, Saving, ProcessEnds,
          NoWatch, TypeOK, KeptWhileRunning
  <2> QED BY <2>1, <2>2, <2>3, <2>4, <2>5, <2>6, <2>7, <2>8 DEF Inv
<1>18. CASE Crash
  <2>1. FromUser'
    BY <1>18, <1>a, <1>b, <1>c, <1>d DEF Crash, Overwrites, Writes, To, Saving, ProcessEnds,
          NoWatch, TypeOK, FromUser
  <2>2. MarksKnown'
    BY <1>18, <1>a, <1>b, <1>c, <1>d DEF Crash, Overwrites, Writes, To, Saving, ProcessEnds,
          NoWatch, TypeOK, MarksKnown
  <2>3. MarksShown'
    BY <1>18, <1>a, <1>b, <1>c, <1>d DEF Crash, Overwrites, Writes, To, Saving, ProcessEnds,
          NoWatch, TypeOK, MarksShown
  <2>4. PendingIsTold'
    BY <1>18, <1>a, <1>b, <1>c, <1>d DEF Crash, Overwrites, Writes, To, Saving, ProcessEnds,
          NoWatch, TypeOK, PendingIsTold, During
  <2>5. SavesLead'
    BY <1>18, <1>a, <1>b, <1>c, <1>d DEF Crash, Overwrites, Writes, To, Saving, ProcessEnds,
          NoWatch, TypeOK, SavesLead
  <2>6. WatchFollows'
    BY <1>18, <1>a, <1>b, <1>c, <1>d DEF Crash, Overwrites, Writes, To, Saving, ProcessEnds,
          NoWatch, TypeOK, WatchFollows, During
  <2>7. HoldersKnow'
    BY <1>18, <1>a, <1>b, <1>c, <1>d DEF Crash, Overwrites, Writes, To, Saving, ProcessEnds,
          NoWatch, TypeOK, HoldersKnow, Reached, AtWork
  <2>8. KeptWhileRunning'
    BY <1>18, <1>a, <1>b, <1>c, <1>d DEF Crash, Overwrites, Writes, To, Saving, ProcessEnds,
          NoWatch, TypeOK, KeptWhileRunning
  <2> QED BY <2>1, <2>2, <2>3, <2>4, <2>5, <2>6, <2>7, <2>8 DEF Inv
<1>19. CASE Tick
  <2>1. ForPrompt(stored.rules) \subseteq DOMAIN stored.rules
    BY <1>b, <1>a, PartsOfList
  <2>2. DOMAIN stored.rules \subseteq ForPrompt(stored.rules) \union Used(stored.rules)
    BY <1>b, <1>a, PartsOfList
  <2>3. Used(mem) \subseteq DOMAIN mem
    BY <1>b, <1>a, PartsOfList
  <2> DEFINE new == ForPrompt(stored.rules) \ watch.known
             cut == [r \in new |-> stored.rules[r]]
  <2>4. /\ watch.at = "idle"
        /\ \/ /\ stored.signal /\ watch'.found = watch.found /\ watch'.at = "idle"
              /\ watch'.known = watch.known
           \/ /\ stored.signal => watch.notified
              /\ watch'.found = cut /\ watch'.at = "append"
              /\ watch'.known = watch.known /\ watch'.notified = watch.notified
           \/ watch' = watch /\ new = {}
    BY <1>19 DEF Tick, TypeOK
  <2> HIDE DEF cut
  <2>c. cut \in RuleLists /\ DOMAIN cut = new /\ Used(cut) \subseteq Used(stored.rules)
    <3>1. new \subseteq DOMAIN stored.rules
      BY <2>1
    <3> QED BY <1>a, <3>1, CutList DEF cut
  <2>5. watch.found = NoRules
    BY <1>b, <1>19 DEF Tick, WatchFollows
  <2>6. /\ watch'.at # "off"
        /\ watch'.known = watch.known
        /\ watch'.notified => stored.signal
        /\ watch'.at \in {"off", "idle"} => watch'.found = watch.found
    BY <1>b, <2>4 DEF TypeOK, WatchFollows
  <2>7. Used(watch'.found) \subseteq Used(stored.rules) \union Used(watch.found)
    BY <1>b, <2>4, <2>5, <2>c, <2>1
  <2>8. DOMAIN watch'.found \subseteq DOMAIN stored.rules \union DOMAIN watch.found
    BY <1>b, <2>4, <2>5, <2>c, <2>1
  <2>9. ~stored.signal => DOMAIN stored.rules \subseteq DOMAIN mem \union DOMAIN watch'.found
    <3> SUFFICES ASSUME ~stored.signal PROVE DOMAIN stored.rules \subseteq DOMAIN mem \union DOMAIN watch'.found
      OBVIOUS
    <3>1. ForPrompt(stored.rules) \ watch.known \subseteq DOMAIN watch'.found
      BY <1>b, <2>4, <2>c, EmptyList DEF WatchFollows
    <3>2. watch.known \subseteq DOMAIN mem
      BY <1>19, <1>b DEF Tick, WatchFollows
    <3>3. loop.pc # "off"
      BY <1>19, <1>b DEF Tick, WatchFollows
    <3>4. Used(stored.rules) \subseteq DOMAIN mem
      BY <1>b, <1>d, <3>3 DEF MarksKnown
    <3> QED BY <2>2, <3>1, <3>2, <3>4
  <2>10. FromUser'
    BY <1>19, <1>a, <1>b, <1>c, <1>d, <2>1, <2>2, <2>3, <2>4, <2>5, <2>6, <2>7, <2>8, <2>9 DEF
          Tick, Overwrites, Writes, To, Saving, TypeOK, FromUser
  <2>11. MarksKnown'
    BY <1>19, <1>a, <1>b, <1>c, <1>d, <2>1, <2>2, <2>3, <2>4, <2>5, <2>6, <2>7, <2>8, <2>9 DEF
          Tick, Overwrites, Writes, To, Saving, TypeOK, MarksKnown
  <2>12. MarksShown'
    BY <1>19, <1>a, <1>b, <1>c, <1>d, <2>1, <2>2, <2>3, <2>4, <2>5, <2>6, <2>7, <2>8, <2>9 DEF
          Tick, Overwrites, Writes, To, Saving, TypeOK, MarksShown
  <2>13. PendingIsTold'
    BY <1>19, <1>a, <1>b, <1>c, <1>d, <2>1, <2>2, <2>3, <2>4, <2>5, <2>6, <2>7, <2>8, <2>9 DEF
          Tick, Overwrites, Writes, To, Saving, TypeOK, PendingIsTold, During
  <2>14. SavesLead'
    BY <1>19, <1>a, <1>b, <1>c, <1>d, <2>1, <2>2, <2>3, <2>4, <2>5, <2>6, <2>7, <2>8, <2>9 DEF
          Tick, Overwrites, Writes, To, Saving, TypeOK, SavesLead
  <2>15. WatchFollows'
    BY <1>19, <1>a, <1>b, <1>c, <1>d, <2>1, <2>2, <2>3, <2>4, <2>5, <2>6, <2>7, <2>8, <2>9 DEF
          Tick, Overwrites, Writes, To, Saving, TypeOK, WatchFollows, During
  <2>16. HoldersKnow'
    BY <1>19, <1>a, <1>b, <1>c, <1>d, <2>1, <2>2, <2>3, <2>4, <2>5, <2>6, <2>7, <2>8, <2>9 DEF
          Tick, Overwrites, Writes, To, Saving, TypeOK, HoldersKnow, Reached, AtWork
  <2>17. KeptWhileRunning'
    BY <1>19, <1>a, <1>b, <1>c, <1>d, <2>1, <2>2, <2>3, <2>4, <2>5, <2>6, <2>7, <2>8, <2>9 DEF
          Tick, Overwrites, Writes, To, Saving, TypeOK, KeptWhileRunning
  <2> QED BY <2>10, <2>11, <2>12, <2>13, <2>14, <2>15, <2>16, <2>17 DEF Inv
<1>20. CASE OnNewRules
  <2>1. mem' = Over(mem, watch.found)
    BY <1>b, <1>20 DEF OnNewRules, AppendMissing
  <2>2. mem' \in RuleLists /\ DOMAIN mem' = DOMAIN mem \union DOMAIN watch.found
    BY <1>b, <2>1, <1>a, OverList
  <2>3. /\ Used(mem) \subseteq Used(mem') /\ Used(mem') \subseteq Used(mem) \union Used(watch.found)
        /\ ForPrompt(mem) \subseteq ForPrompt(mem')
    BY <1>b, <2>1, <1>a, OverList
  <2>4. watch'.found = NoRules /\ watch'.known \subseteq watch.known \union DOMAIN watch.found
    BY <1>b, <1>20 DEF OnNewRules, NoWatch, TypeOK
  <2>5. watch'.notified => watch.notified
    BY <1>b, <1>20 DEF OnNewRules, NoWatch, TypeOK
  <2>6. FromUser'
    BY <1>20, <1>a, <1>b, <1>c, <1>d, <2>1, <2>2, <2>3, <2>4, <2>5 DEF OnNewRules, Overwrites,
          Writes, To, Saving, TypeOK, FromUser
  <2>7. MarksKnown'
    BY <1>20, <1>a, <1>b, <1>c, <1>d, <2>1, <2>2, <2>3, <2>4, <2>5 DEF OnNewRules, Overwrites,
          Writes, To, Saving, TypeOK, MarksKnown
  <2>8. MarksShown'
    BY <1>20, <1>a, <1>b, <1>c, <1>d, <2>1, <2>2, <2>3, <2>4, <2>5 DEF OnNewRules, Overwrites,
          Writes, To, Saving, TypeOK, MarksShown
  <2>9. PendingIsTold'
    BY <1>20, <1>a, <1>b, <1>c, <1>d, <2>1, <2>2, <2>3, <2>4, <2>5 DEF OnNewRules, Overwrites,
          Writes, To, Saving, TypeOK, PendingIsTold, During
  <2>10. SavesLead'
    BY <1>20, <1>a, <1>b, <1>c, <1>d, <2>1, <2>2, <2>3, <2>4, <2>5 DEF OnNewRules, Overwrites,
          Writes, To, Saving, TypeOK, SavesLead
  <2>11. WatchFollows'
    BY <1>20, <1>a, <1>b, <1>c, <1>d, <2>1, <2>2, <2>3, <2>4, <2>5 DEF OnNewRules, Overwrites,
          Writes, To, Saving, TypeOK, WatchFollows, During
  <2>12. HoldersKnow'
    BY <1>20, <1>a, <1>b, <1>c, <1>d, <2>1, <2>2, <2>3, <2>4, <2>5 DEF OnNewRules, Overwrites,
          Writes, To, Saving, TypeOK, HoldersKnow, Reached, AtWork
  <2>13. KeptWhileRunning'
    BY <1>20, <1>a, <1>b, <1>c, <1>d, <2>1, <2>2, <2>3, <2>4, <2>5 DEF OnNewRules, Overwrites,
          Writes, To, Saving, TypeOK, KeptWhileRunning
  <2> QED BY <2>6, <2>7, <2>8, <2>9, <2>10, <2>11, <2>12, <2>13 DEF Inv
<1>21. CASE RequestSignal
  <2>1. FromUser'
    BY <1>21, <1>a, <1>b, <1>c, <1>d DEF RequestSignal, Overwrites, Writes, To, Saving, TypeOK,
          FromUser
  <2>2. MarksKnown'
    BY <1>21, <1>a, <1>b, <1>c, <1>d DEF RequestSignal, Overwrites, Writes, To, Saving, TypeOK,
          MarksKnown
  <2>3. MarksShown'
    BY <1>21, <1>a, <1>b, <1>c, <1>d DEF RequestSignal, Overwrites, Writes, To, Saving, TypeOK,
          MarksShown
  <2>4. PendingIsTold'
    BY <1>21, <1>a, <1>b, <1>c, <1>d DEF RequestSignal, Overwrites, Writes, To, Saving, TypeOK,
          PendingIsTold, During
  <2>5. SavesLead'
    BY <1>21, <1>a, <1>b, <1>c, <1>d DEF RequestSignal, Overwrites, Writes, To, Saving, TypeOK,
          SavesLead
  <2>6. WatchFollows'
    BY <1>21, <1>a, <1>b, <1>c, <1>d DEF RequestSignal, Overwrites, Writes, To, Saving, TypeOK,
          WatchFollows, During
  <2>7. HoldersKnow'
    BY <1>21, <1>a, <1>b, <1>c, <1>d DEF RequestSignal, Overwrites, Writes, To, Saving, TypeOK,
          HoldersKnow, Reached, AtWork
  <2>8. KeptWhileRunning'
    BY <1>21, <1>a, <1>b, <1>c, <1>d DEF RequestSignal, Overwrites, Writes, To, Saving, TypeOK,
          KeptWhileRunning
  <2> QED BY <2>1, <2>2, <2>3, <2>4, <2>5, <2>6, <2>7, <2>8 DEF Inv
<1>22. ASSUME NEW r \in Rules, NEW scope \in {"once", "always"}, Create(r, scope)
     PROVE  Inv'
  <2>1. /\ DOMAIN stored'.rules = DOMAIN stored.rules \union {r}
        /\ Used(stored'.rules) \subseteq Used(stored.rules)
    BY <1>b, <1>22, <1>a, CreatedList DEF Create, Overwrites, Writes
  <2>2. FromUser'
    BY <1>22, <1>a, <1>b, <1>c, <1>d, <2>1 DEF Create, Overwrites, Writes, To, Saving, TypeOK,
          FromUser
  <2>3. MarksKnown'
    BY <1>22, <1>a, <1>b, <1>c, <1>d, <2>1 DEF Create, Overwrites, Writes, To, Saving, TypeOK,
          MarksKnown
  <2>4. MarksShown'
    BY <1>22, <1>a, <1>b, <1>c, <1>d, <2>1 DEF Create, Overwrites, Writes, To, Saving, TypeOK,
          MarksShown
  <2>5. PendingIsTold'
    BY <1>22, <1>a, <1>b, <1>c, <1>d, <2>1 DEF Create, Overwrites, Writes, To, Saving, TypeOK,
          PendingIsTold, During
  <2>6. SavesLead'
    BY <1>22, <1>a, <1>b, <1>c, <1>d, <2>1 DEF Create, Overwrites, Writes, To, Saving, TypeOK,
          SavesLead
  <2>7. WatchFollows'
    BY <1>22, <1>a, <1>b, <1>c, <1>d, <2>1 DEF Create, Overwrites, Writes, To, Saving, TypeOK,
          WatchFollows, During
  <2>8. HoldersKnow'
    BY <1>22, <1>a, <1>b, <1>c, <1>d, <2>1 DEF Create, Overwrites, Writes, To, Saving, TypeOK,
          HoldersKnow, Reached, AtWork
  <2>9. KeptWhileRunning'
    BY <1>22, <1>a, <1>b, <1>c, <1>d, <2>1 DEF Create, Overwrites, Writes, To, Saving, TypeOK,
          KeptWhileRunning
  <2> QED BY <2>2, <2>3, <2>4, <2>5, <2>6, <2>7, <2>8, <2>9 DEF Inv
<1>23. ASSUME NEW r \in Rules, NEW scope \in {"once", "always"}, Update(r, scope)
     PROVE  Inv'
  <2>1. DOMAIN stored'.rules = DOMAIN stored.rules /\ Used(stored'.rules) = Used(stored.rules)
    BY <1>b, <1>23, <1>a, PatchedList DEF Update, Overwrites, Writes
  <2>2. FromUser'
    BY <1>23, <1>a, <1>b, <1>c, <1>d, <2>1 DEF Update, Overwrites, Writes, To, Saving, TypeOK,
          FromUser
  <2>3. MarksKnown'
    BY <1>23, <1>a, <1>b, <1>c, <1>d, <2>1 DEF Update, Overwrites, Writes, To, Saving, TypeOK,
          MarksKnown
  <2>4. MarksShown'
    BY <1>23, <1>a, <1>b, <1>c, <1>d, <2>1 DEF Update, Overwrites, Writes, To, Saving, TypeOK,
          MarksShown
  <2>5. PendingIsTold'
    BY <1>23, <1>a, <1>b, <1>c, <1>d, <2>1 DEF Update, Overwrites, Writes, To, Saving, TypeOK,
          PendingIsTold, During
  <2>6. SavesLead'
    BY <1>23, <1>a, <1>b, <1>c, <1>d, <2>1 DEF Update, Overwrites, Writes, To, Saving, TypeOK,
          SavesLead
  <2>7. WatchFollows'
    BY <1>23, <1>a, <1>b, <1>c, <1>d, <2>1 DEF Update, Overwrites, Writes, To, Saving, TypeOK,
          WatchFollows, During
  <2>8. HoldersKnow'
    BY <1>23, <1>a, <1>b, <1>c, <1>d, <2>1 DEF Update, Overwrites, Writes, To, Saving, TypeOK,
          HoldersKnow, Reached, AtWork
  <2>9. KeptWhileRunning'
    BY <1>23, <1>a, <1>b, <1>c, <1>d, <2>1 DEF Update, Overwrites, Writes, To, Saving, TypeOK,
          KeptWhileRunning
  <2> QED BY <2>2, <2>3, <2>4, <2>5, <2>6, <2>7, <2>8, <2>9 DEF Inv
<1>24. ASSUME NEW r \in Rules, Remove(r)
     PROVE  Inv'
  <2>1. /\ DOMAIN stored'.rules = DOMAIN stored.rules \ {r}
        /\ Used(stored'.rules) \subseteq Used(stored.rules)
    BY <1>b, <1>24, <1>a, CutList DEF Remove, Removed, Overwrites, Writes
  <2>2. FromUser'
    BY <1>24, <1>a, <1>b, <1>c, <1>d, <2>1 DEF Remove, Overwrites, Writes, To, Saving, TypeOK,
          FromUser
  <2>3. MarksKnown'
    BY <1>24, <1>a, <1>b, <1>c, <1>d, <2>1 DEF Remove, Overwrites, Writes, To, Saving, TypeOK,
          MarksKnown
  <2>4. MarksShown'
    BY <1>24, <1>a, <1>b, <1>c, <1>d, <2>1 DEF Remove, Overwrites, Writes, To, Saving, TypeOK,
          MarksShown
  <2>5. PendingIsTold'
    BY <1>24, <1>a, <1>b, <1>c, <1>d, <2>1 DEF Remove, Overwrites, Writes, To, Saving, TypeOK,
          PendingIsTold, During
  <2>6. SavesLead'
    BY <1>24, <1>a, <1>b, <1>c, <1>d, <2>1 DEF Remove, Overwrites, Writes, To, Saving, TypeOK,
          SavesLead
  <2>7. WatchFollows'
    BY <1>24, <1>a, <1>b, <1>c, <1>d, <2>1 DEF Remove, Overwrites, Writes, To, Saving, TypeOK,
          WatchFollows, During
  <2>8. HoldersKnow'
    BY <1>24, <1>a, <1>b, <1>c, <1>d, <2>1 DEF Remove, Overwrites, Writes, To, Saving, TypeOK,
          HoldersKnow, Reached, AtWork
  <2>9. KeptWhileRunning'
    BY <1>24, <1>a, <1>b, <1>c, <1>d, <2>1 DEF Remove, Overwrites, Writes, To, Saving, TypeOK,
          KeptWhileRunning
  <2> QED BY <2>2, <2>3, <2>4, <2>5, <2>6, <2>7, <2>8, <2>9 DEF Inv
<1>25. CASE UNCHANGED vars
  <2>1. FromUser'
    BY <1>25, <1>a, <1>b, <1>c, <1>d DEF vars, TypeOK, FromUser
  <2>2. MarksKnown'
    BY <1>25, <1>a, <1>b, <1>c, <1>d DEF vars, TypeOK, MarksKnown
  <2>3. MarksShown'
    BY <1>25, <1>a, <1>b, <1>c, <1>d DEF vars, TypeOK, MarksShown
  <2>4. PendingIsTold'
    BY <1>25, <1>a, <1>b, <1>c, <1>d DEF vars, TypeOK, PendingIsTold, During
  <2>5. SavesLead'
    BY <1>25, <1>a, <1>b, <1>c, <1>d DEF vars, TypeOK, SavesLead
  <2>6. WatchFollows'
    BY <1>25, <1>a, <1>b, <1>c, <1>d DEF vars, TypeOK, WatchFollows, During
  <2>7. HoldersKnow'
    BY <1>25, <1>a, <1>b, <1>c, <1>d DEF vars, TypeOK, HoldersKnow, Reached, AtWork
  <2>8. KeptWhileRunning'
    BY <1>25, <1>a, <1>b, <1>c, <1>d DEF vars, TypeOK, KeptWhileRunning
  <2> QED BY <2>1, <2>2, <2>3, <2>4, <2>5, <2>6, <2>7, <2>8 DEF Inv
<1> QED BY <1>1, <1>2, <1>3, <1>4, <1>5, <1>6, <1>7, <1>8, <1>9, <1>10, <1>11, <1>12, <1>13,
      <1>14, <1>15, <1>16, <1>17, <1>18, <1>19, <1>20, <1>21, <1>22, <1>23, <1>24, <1>25 DEF Next

LEMMA AlwaysInv == Spec => [](TypeOK /\ Inv)
<1>1. Init => TypeOK /\ Inv
  BY TypeInit, InvInit
<1>2. (TypeOK /\ Inv) /\ [Next]_vars => (TypeOK /\ Inv)'
  BY TypeStep, InvStep
<1> QED BY <1>1, <1>2, PTL DEF Spec

-----------------------------------------------------------------------------
(* The properties. *)

\* syncRulesBeforeCriticalSection, markOnceRulesConsumed: a rule the storage has
\* marked as consumed was in a prompt or in the pending file of an inner round,
\* whoever edited the rules, asked for a pause or was killed in between.
THEOREM MarksAreEarned == Spec => []ConsumedWasShown
<1>1. TypeOK /\ Inv => ConsumedWasShown
  BY DEF Inv, MarksShown, ConsumedWasShown
<1> QED BY <1>1, AlwaysInv, PTL

\* createRunRulesWatcher, reconcileRunRulesFromStorage: a rule created while the
\* loop is at work is not overwritten before somebody in the loop has read it.
THEOREM NewRulesAreKept == Spec => []KeptWhileRunning
<1>1. TypeOK /\ Inv => KeptWhileRunning
  BY DEF Inv
<1> QED BY <1>1, AlwaysInv, PTL

\* A writer never has fewer marks than what he writes over.
LEMMA MarksStay == TypeOK /\ Inv /\ [Next]_vars =>
    \A r \in DOMAIN stored.rules \intersect DOMAIN stored'.rules :
        stored.rules[r].used => stored'.rules[r].used
<1> SUFFICES ASSUME TypeOK, Inv, [Next]_vars,
                    NEW r \in DOMAIN stored.rules \intersect DOMAIN stored'.rules, stored.rules[r].used
             PROVE  stored'.rules[r].used
  OBVIOUS
<1>a. stored.rules \in RuleLists /\ mem \in RuleLists /\ flight \in RuleLists
  BY DEF TypeOK
<1>b. r \in Used(stored.rules) /\ DOMAIN stored.rules \subseteq ghost.made /\ MarksKnown
  BY DEF Inv, FromUser, Used
<1>c. SUFFICES r \in Used(stored'.rules) \/ stored'.rules = stored.rules
  BY DEF Used
<1>1. CASE FromArtifact
  BY <1>1 DEF FromArtifact, Overwrites, Writes
<1>2. CASE SetStatusRunning
  <2>1. stored'.rules = mem /\ loop.pc # "off"
    BY <1>2 DEF SetStatusRunning, Overwrites, Writes
  <2> QED BY <1>b, <2>1 DEF MarksKnown
<1>3. CASE StartAborted
  BY <1>3 DEF StartAborted, Overwrites, Writes
<1>4. CASE PreRoundSync
  BY <1>4 DEF PreRoundSync, Overwrites, Writes
<1>5. CASE RunCodingPhase
  BY <1>5 DEF RunCodingPhase, Overwrites, Writes
<1>6. CASE SaveRead
  BY <1>6 DEF SaveRead, Overwrites, Writes
<1>7. CASE SavePut
  <2>1. (stored'.rules = flight /\ loop.pc = "put") \/ stored' = stored
    BY <1>7 DEF SavePut, Overwrites, Writes
  <2> QED BY <1>b, <2>1 DEF MarksKnown
<1>8. CASE PreparePendingRulesFile
  BY <1>8 DEF PreparePendingRulesFile, Overwrites, Writes
<1>9. CASE RunSubtask
  BY <1>9 DEF RunSubtask, Overwrites, Writes
<1>10. CASE Round
  BY <1>10 DEF Round, Overwrites, Writes
<1>11. CASE Sync
  BY <1>11 DEF Sync, Overwrites, Writes
<1>12. CASE SaveProgress
  BY <1>12 DEF SaveProgress, Overwrites, Writes
<1>13. CASE Advance
  BY <1>13 DEF Advance, Overwrites, Writes
<1>14. CASE Retry
  BY <1>14 DEF Retry, Overwrites, Writes
<1>15. CASE CompleteRestart
  BY <1>15 DEF CompleteRestart, Overwrites, Writes
<1>16. CASE LoopEnds
  BY <1>16 DEF LoopEnds, Overwrites, Writes
<1>17. CASE FinalSave
  <2>1. (stored'.rules = mem /\ loop.pc # "off") \/ stored' = stored
    BY <1>17 DEF FinalSave, Overwrites, Writes
  <2> QED BY <1>b, <2>1 DEF MarksKnown
<1>18. CASE Crash
  BY <1>18 DEF Crash, Overwrites, Writes
<1>19. CASE Tick
  BY <1>19 DEF Tick, Overwrites, Writes
<1>20. CASE OnNewRules
  BY <1>20 DEF OnNewRules, Overwrites, Writes
<1>21. CASE RequestSignal
  BY <1>21 DEF RequestSignal, Overwrites, Writes
<1>22. ASSUME NEW q \in Rules, NEW scope \in {"once", "always"}, Create(q, scope)
      PROVE  r \in Used(stored'.rules)
  <2>1. q \notin DOMAIN stored.rules /\ stored'.rules = Created(stored.rules, q, scope)
    BY <1>22, <1>b DEF Create, Overwrites, Writes
  <2> QED BY <1>a, <1>b, <2>1, CreatedList
<1>23. ASSUME NEW q \in Rules, NEW scope \in {"once", "always"}, Update(q, scope)
      PROVE  r \in Used(stored'.rules)
  <2>1. q \in DOMAIN stored.rules /\ stored'.rules = Patched(stored.rules, q, scope)
    BY <1>23 DEF Update, Overwrites, Writes
  <2> QED BY <1>a, <1>b, <2>1, PatchedList
<1>24. ASSUME NEW q \in Rules, Remove(q)
      PROVE  r \in Used(stored'.rules)
  <2>1. stored'.rules = [t \in DOMAIN stored.rules \ {q} |-> stored.rules[t]]
    BY <1>24 DEF Remove, Removed, Overwrites, Writes
  <2>2. DOMAIN stored'.rules = DOMAIN stored.rules \ {q}
        /\ Used(stored'.rules) = Used(stored.rules) \intersect (DOMAIN stored.rules \ {q})
    BY <1>a, <2>1, CutList
  <2> QED BY <1>b, <2>2
<1>25. CASE UNCHANGED vars
  BY <1>25 DEF vars
<1> QED BY <1>1, <1>2, <1>3, <1>4, <1>5, <1>6, <1>7, <1>8, <1>9, <1>10, <1>11, <1>12, <1>13,
      <1>14, <1>15, <1>16, <1>17, <1>18, <1>19, <1>20, <1>21, <1>22, <1>23, <1>24, <1>25 DEF Next

\* markOnceRulesConsumed, patchRule: once a rule is marked as consumed the mark
\* stays as long as the rule: no save of the loop and no edit of the user writes
\* back a list from before.
THEOREM ConsumedOnce == Spec => ConsumedIsForever
<1>1. (TypeOK /\ Inv) /\ [Next]_vars =>
        [\A r \in DOMAIN stored.rules \intersect DOMAIN stored'.rules :
            stored.rules[r].used => stored'.rules[r].used]_vars
  BY MarksStay
<1> QED BY <1>1, AlwaysInv, PTL DEF Spec, ConsumedIsForever
=============================================================================
