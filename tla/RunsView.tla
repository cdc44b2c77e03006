----------------------------- MODULE RunsView -----------------------------
(***************************************************************************)
(* The Runs tree of the VS Code extension (RunsTreeProvider.ts): the rows  *)
(* of the last `run list`, the optimistic statuses shown over them, and    *)
(* the timer that lists again while a run may still change.  Commands of   *)
(* the menu run the CLI in the background, or in a terminal.  Every event  *)
(* of the tree also makes the chats refresh (RunChats).                    *)
(*                                                                         *)
(* One project.  Time is what a duration decides: an optimistic status is  *)
(* young or not, the boost is on or off.  Filters change what is shown of  *)
(* the rows, expanding a run is a fetch; config and diffs are left out.    *)
(***************************************************************************)
EXTENDS RunChats

VARIABLES
    rows,       \* runsCache: status shown and updatedAt listed
    overlay,    \* _optimisticRunStatus
    boost,      \* before _liveStatusPollBoostUntil
    timer,      \* _inspectPollTimer is set
    dirty,      \* an event was fired; VS Code has not asked for the children yet
    lists,      \* `run list` under way: its answer
    gaveUp,     \* the last list to end failed, which clears the timer
    commands    \* menu commands at their CLI command

tree == <<rows, overlay, boost, timer, dirty, lists, gaveUp, commands>>
view == <<storage, chats, tree, bounds>>

OptimisticTtl == 60     \* seconds, OPTIMISTIC_RUN_STATUS_TTL_MS

\* Mutant: the boost is shorter than an optimistic status.
PollBoostShort == 30

PollBoost == 120        \* LIVE_STATUS_POLL_BOOST_MS

Live == Statuses \ {"failed"}

-----------------------------------------------------------------------------
(* Events *)

Fires(known) ==
    /\ dirty' = TRUE
    /\ RefreshTabs(page, known)

\* refresh: the infos go first.
Refreshes ==
    /\ Forget(DOMAIN cache)
    /\ Fires(NoInfos)

\* kickLiveStatusPolling
Kicks == boost' = TRUE /\ Refreshes

\* applyOptimisticRunStatus
Overlays(r, display, previous) ==
    /\ overlay' = [x \in DOMAIN overlay \union {r} |->
                     IF x = r THEN [display |-> display, prev |-> previous, young |-> TRUE] ELSE overlay[x]]
    /\ Kicks

-----------------------------------------------------------------------------
(* Listing *)

Listing(state, found) == [state |-> state, rows |-> found]

\* getChildren of the root, which lists; what is under way goes on.
ListAsks ==
    /\ dirty /\ Cardinality(lists) < topic.lists
    /\ dirty' = FALSE
    /\ lists' = lists \union {Listing("asked", NoInfos)}
    /\ UNCHANGED <<storage, chats, rows, overlay, boost, timer, gaveUp, commands, bounds>>

\* `run list --format json`
Listed == [r \in DOMAIN stored |-> [status |-> stored[r].status, at |-> stored[r].at]]

\* A CLI that fails throws; one whose answer is no JSON lists nothing.
ListReads ==
    /\ Listing("asked", NoInfos) \in lists
    /\ \E got \in {Listing("answered", Listed)} \union
                  (IF faults < topic.faults
                   THEN {Listing("failed", NoInfos), Listing("answered", NoInfos)} ELSE {}) :
          /\ lists' = (lists \ {Listing("asked", NoInfos)}) \union {got}
          /\ faults' = IF got = Listing("answered", Listed) THEN faults ELSE faults + 1
    /\ UNCHANGED <<storage, chats, rows, overlay, boost, timer, dirty, gaveUp, commands, topic, acts>>

\* resolveOptimisticRunStatusForFetch
KeepsOverlay(got, r) == r \in DOMAIN overlay /\ overlay[r].young /\ got[r].status = overlay[r].prev

Merged(got) ==
    [r \in DOMAIN got |->
        [got[r] EXCEPT !.status = IF KeepsOverlay(got, r) THEN overlay[r].display ELSE @]]

\* Mutant: the date is not compared.
OutdatedByStatus(shown) ==
    {r \in DOMAIN cache : r \notin DOMAIN shown \/ cache[r].status # shown[r].status}

\* invalidateAbsent, then whatever differs from its row
Outdated(shown) ==
    {r \in DOMAIN cache :
        \/ r \notin DOMAIN shown
        \/ cache[r].status # shown[r].status
        \/ cache[r].at # shown[r].at}

\* scheduleRunListPollIfNeeded looks at the statuses listed, not those shown.
Polls(got) == boost \/ \E r \in DOMAIN got : got[r].status \in Live

ListLands(got) ==
    /\ lists' = lists \ {Listing("answered", got)}
    /\ rows' = Merged(got)
    /\ overlay' = [r \in {x \in DOMAIN overlay : x \in DOMAIN got => KeepsOverlay(got, x)} |-> overlay[r]]
    /\ Forget(Outdated(rows'))
    /\ timer' = Polls(got)
    /\ gaveUp' = FALSE
    /\ UNCHANGED <<storage, fetches, tabs, active, page, strays, crossed, boost, dirty, commands, bounds>>

\* Once the dialog of its error is closed, the tree shows no rows.
ListFails ==
    /\ Listing("failed", NoInfos) \in lists
    /\ lists' = lists \ {Listing("failed", NoInfos)}
    /\ timer' = FALSE /\ gaveUp' = TRUE
    /\ UNCHANGED <<storage, chats, rows, overlay, boost, dirty, commands, bounds>>

TimerFires ==
    /\ timer /\ timer' = FALSE
    /\ Fires(cache)
    /\ UNCHANGED <<storage, cache, tabs, active, works, strays, crossed,
                   rows, overlay, boost, lists, gaveUp, commands, bounds>>

StatusGetsOld(r) ==
    /\ overlay[r].young
    /\ overlay' = [overlay EXCEPT ![r].young = FALSE]
    /\ UNCHANGED <<storage, chats, rows, boost, timer, dirty, lists, gaveUp, commands, bounds>>

\* The boost began with the last optimistic status, or later.
BoostEnds ==
    /\ boost /\ boost' = FALSE
    /\ PollBoost > OptimisticTtl => \A r \in DOMAIN overlay : ~overlay[r].young
    /\ UNCHANGED <<storage, chats, rows, overlay, timer, dirty, lists, gaveUp, commands, bounds>>

-----------------------------------------------------------------------------
(* The menu, by the status its row shows *)

Shown == IF gaveUp THEN {} ELSE DOMAIN rows

\* The refresh button; a filter that changes fires the event alone.
RefreshRuns ==
    /\ Acts("menu") /\ Refreshes
    /\ UNCHANGED <<storage, tabs, active, strays, crossed,
                   rows, overlay, boost, timer, lists, gaveUp, commands>>

SetFilter ==
    /\ Acts("menu") /\ Fires(cache)
    /\ UNCHANGED <<storage, cache, tabs, active, works, strays, crossed,
                   rows, overlay, boost, timer, lists, gaveUp, commands>>

\* getChildren of a run: its config comes from the cache, or is fetched.
Expand(r) ==
    /\ Acts("menu") /\ r \in Shown \ DOMAIN cache
    /\ fetches' = fetches \union {Fetch(r, FALSE)}
    /\ UNCHANGED <<storage, cache, tabs, active, page, works, strays, crossed, tree>>

OpenChat(r) == r \in Shown /\ OpenTab(r) /\ UNCHANGED tree

\* `run start` and `run resume` run in a terminal: nobody waits for them.
StartRun(r) ==
    /\ Acts("menu") /\ r \in Shown /\ rows[r].status = "failed"
    /\ Overlays(r, "starting", "failed")
    /\ UNCHANGED <<storage, tabs, active, strays, crossed, rows, timer, lists, gaveUp, commands>>

ResumeRun(r) ==
    /\ Acts("menu") /\ r \in Shown /\ rows[r].status = "paused"
    /\ Overlays(r, "resuming", "paused")
    /\ UNCHANGED <<storage, tabs, active, strays, crossed, rows, timer, lists, gaveUp, commands>>

Command(kind, r) == [kind |-> kind, run |-> r, prev |-> rows[r].status, state |-> "asked"]

\* `run inspect` in a terminal, and a watcher that waits for its session.
InspectRun(r) ==
    /\ Acts("menu") /\ r \in Shown /\ rows[r].status = "failed"
    /\ Kicks
    /\ commands' = commands \union {Command("inspect", r)}
    /\ UNCHANGED <<storage, tabs, active, strays, crossed, rows, overlay, timer, lists, gaveUp>>

MenuOf(status) ==
    {"fork", "clear"} \union (IF status = "failed" THEN {"remove"} ELSE {})
             \union (IF status \in Live \ {"inspecting"} THEN {"stop"} ELSE {})
             \union (IF status = "running" THEN {"pause"} ELSE {})

\* Pause, stop, fork and remove wait for their command, and so does `run clear`
\* on the project, which does not look at statuses.
CommandAsks(r) ==
    /\ Acts("menu") /\ r \in Shown
    /\ \E kind \in MenuOf(rows[r].status) : commands' = commands \union {Command(kind, r)}
    /\ UNCHANGED <<storage, chats, rows, overlay, boost, timer, dirty, lists, gaveUp>>

Saved(r, status) == [stored EXCEPT ![r] = [@ EXCEPT !.status = status, !.at = clock']]

(* What the CLI makes of them; it refuses what the run's status does not allow. *)

\* pauseCommand
Pause(r) == stored[r].status = "running" /\ stored' = Saved(r, "pausing")

\* stopCommand: a paused run has no process that would do it.
Stop(r) ==
    /\ stored[r].status \in Live
    /\ stored' = Saved(r, IF stored[r].status = "paused" THEN "failed" ELSE "stopping")

\* rmCommand
Rm(r) ==
    /\ stored[r].status = "failed"
    /\ stored' = [x \in DOMAIN stored \ {r} |-> stored[x]]

\* clearCommand
Clear == stored' = [x \in {} |-> stored[x]]

\* forkCommand
Fork(r) ==
    \E copy \in Runs \ DOMAIN stored :
        stored' = [x \in DOMAIN stored \union {copy} |->
                     IF x = copy THEN [stored[r] EXCEPT !.status = "failed", !.at = clock'] ELSE stored[x]]

Saves(c) ==
    /\ clock < topic.saves /\ clock' = clock + 1
    /\ \/ c.kind = "pause" /\ Pause(c.run)
       \/ c.kind = "stop" /\ Stop(c.run)
       \/ c.kind = "remove" /\ Rm(c.run)
       \/ c.kind = "clear" /\ Clear
       \/ c.kind = "fork" /\ Fork(c.run)

\* waitAndAttachAfterInspectStart has found the session it asks for.
Attaches(c) == c.kind = "inspect" /\ stored[c.run].status = "inspecting" /\ UNCHANGED storage

CommandRuns(c) ==
    /\ c.state = "asked" /\ c.run \in DOMAIN stored
    /\ Saves(c) \/ Attaches(c)
    /\ commands' = (commands \ {c}) \union {[c EXCEPT !.state = "done"]}
    /\ UNCHANGED <<chats, rows, overlay, boost, timer, dirty, lists, gaveUp, bounds>>

\* The command throws, or the watcher is cancelled or times out: an error is
\* shown and nothing else is done.
CommandFails(c) ==
    /\ c.state = "asked"
    /\ commands' = commands \ {c}
    /\ UNCHANGED <<storage, chats, rows, overlay, boost, timer, dirty, lists, gaveUp, bounds>>

CommandEnds(c) ==
    /\ c.state = "done"
    /\ commands' = commands \ {c}
    /\ CASE c.kind = "pause" -> Overlays(c.run, "pausing", c.prev)
         [] c.kind = "stop" -> Overlays(c.run, "stopping", c.prev)
         [] OTHER -> Refreshes /\ UNCHANGED <<overlay, boost>>
    /\ UNCHANGED <<storage, tabs, active, strays, crossed, rows, timer, lists, gaveUp, bounds>>

-----------------------------------------------------------------------------
\* The process of a run, or one that a terminal starts, saves it.
Successors(status) ==
    CASE status = "failed" -> {"starting", "inspecting"}
      [] status = "starting" -> {"running", "failed"}
      [] status = "running" -> {"running", "failed"}
      [] status = "pausing" -> {"paused", "failed"}
      [] status = "paused" -> {"resuming"}
      [] status = "resuming" -> {"running"}
      [] OTHER -> {"failed"}

RunMoves(r) ==
    /\ clock < topic.saves /\ clock' = clock + 1
    /\ \E status \in Successors(stored[r].status) : stored' = Saved(r, status)
    /\ UNCHANGED <<chats, tree, bounds>>

ViewInit ==
    /\ ChatInit
    /\ rows = NoInfos /\ overlay = NoInfos
    /\ boost = FALSE /\ timer = FALSE /\ dirty = TRUE
    /\ lists = {} /\ gaveUp = FALSE /\ commands = {}

Lists ==
    \/ ListAsks \/ ListReads \/ ListFails \/ TimerFires \/ BoostEnds
    \/ \E l \in lists : l.state = "answered" /\ ListLands(l.rows)
    \/ \E r \in DOMAIN overlay : StatusGetsOld(r)

Menu ==
    \/ RefreshRuns \/ SetFilter
    \/ \E r \in Runs : Expand(r) \/ OpenChat(r) \/ StartRun(r) \/ ResumeRun(r)
                        \/ InspectRun(r) \/ CommandAsks(r)
    \/ \E c \in commands : CommandRuns(c) \/ CommandFails(c) \/ CommandEnds(c)

ViewNext ==
    \/ ChatNext /\ UNCHANGED tree
    \/ Lists \/ Menu
    \/ \E r \in DOMAIN stored : RunMoves(r)

\* CLI processes end, time passes, VS Code asks for the children of a tree it
\* shows; the user, whose answer the dialog of a failed list waits for, and the
\* processes of runs may do nothing.
Fairness ==
    /\ WF_view(ListAsks) /\ WF_view(ListReads) /\ WF_view(TimerFires) /\ WF_view(BoostEnds)
    /\ WF_view(\E l \in lists : l.state = "answered" /\ ListLands(l.rows))
    /\ \A r \in Runs :
          /\ WF_view(r \in DOMAIN overlay /\ StatusGetsOld(r))
          /\ WF_view(\E f \in fetches : f.run = r /\ InfoReads(f) /\ UNCHANGED tree)
          /\ WF_view(\E f \in fetches : f.run = r /\ InfoLands(f) /\ UNCHANGED tree)
    /\ \A i \in 1..MaxWorks :
          /\ WF_view(\E w \in works : w.id = i /\ RuleCommandEnds(w) /\ UNCHANGED tree)
          /\ WF_view(\E w \in works : w.id = i /\ HandlerGoesOn(w) /\ UNCHANGED tree)

ViewSpec == ViewInit /\ [][ViewNext]_view /\ Fairness

-----------------------------------------------------------------------------
\* A run shown as live is followed: the timer is set, or a list is on its way;
\* else the last list failed, after which nobody lists again until an event
\* comes (RunsTreeProvider.ts:352).  It holds of optimistic statuses too, which
\* are not what the timer is set by: the boost outlasts them.
FollowedWhileLive ==
    \A r \in DOMAIN rows :
        rows[r].status \in Live => timer \/ dirty \/ lists # {} \/ gaveUp

\* An open chat comes to show its run as it is stored, as long as the tree goes
\* on listing: an event posts what is cached, what differs from its row is
\* dropped by the list that follows, and the next event fetches it.  (When the
\* run ends, the last list drops its info and there is no next event.)
ChatsCatchUp ==
    \A r \in Runs :
        /\ []<>timer
        /\ <>[](page.open /\ r \in Range(tabs) /\ r \in DOMAIN stored)
        => <>[](/\ r \in PageRuns(page) /\ r \in DOMAIN stored
                /\ TabOf(page, r).status = stored[r].status
                /\ TabOf(page, r).at = stored[r].at
                /\ r \in crossed \/ TabOf(page, r).entries = stored[r].rules)
=============================================================================
