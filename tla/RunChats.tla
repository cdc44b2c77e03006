----------------------------- MODULE RunChats -----------------------------
(***************************************************************************)
(* The Chats view of the VS Code extension (ChatWebviewProvider.ts): one   *)
(* tab per pinned run in the extension host, its page in a webview, and    *)
(* the cache of run infos both share with the Runs tree (runInfoStore.ts). *)
(* Runs are read and rules are written by CLI processes, each of which     *)
(* answers some time after it was started; the handlers await them.        *)
(*                                                                         *)
(* Messages between host and page are delivered at once and in order; what *)
(* is awaited is a CLI process.  Names of tabs are left out, and so are    *)
(* attempts in the timeline and rules that are consumed.  RunsView adds    *)
(* the tree, whose events make the chats refresh.                          *)
(***************************************************************************)
EXTENDS Integers, SequencesExt, FiniteSets, Functions

CONSTANTS
    Runs,       \* ids of runs
    NoRun,      \* activeRunId null
    Texts,      \* texts of rules
    Topics,     \* what the user does, from where, and how often: see TopicsAreTopics
    MaxWorks    \* rule commands at a time

VARIABLES
    topic,      \* what this behaviour is about
    stored,     \* the runs in storage: status, updatedAt, rules
    clock,      \* the last updatedAt
    cache,      \* RunInfoStore
    fetches,    \* `run info` under way: the run, whether a chat waits, the answer
    tabs,       \* _tabs: runs in order
    active,     \* _activeRunId
    page,       \* the webview: whether it is there, its tabs, its active run
    works,      \* handlers of rules, each at its CLI command
    strays,     \* tabs of the page that came back after they were closed
    crossed,    \* runs whose cached rules a second command or a fetch touched
    acts, faults \* so far

storage == <<stored, clock>>
chats == <<cache, fetches, tabs, active, page, works, strays, crossed>>
bounds == <<topic, acts, faults>>

ASSUME NoRunIsNone == NoRun \notin Runs

\* The user's actions; the runs there are and the tabs of the workspace's
\* state; whether the view is open; how many actions, saves of runs (by their
\* processes and by commands) and failing CLI processes there are, and how many
\* lists at a time.
ASSUME TopicsAreTopics ==
    \A t \in Topics :
        /\ DOMAIN t = {"does", "runs", "tabs", "open", "acts", "saves", "faults", "lists"}
        /\ t.does \subseteq {"tabs", "rules", "menu"}
        /\ t.runs \subseteq Runs /\ t.tabs \in Seq(Runs)
        /\ {t.acts, t.saves, t.faults, t.lists} \subseteq Nat

\* What a fetch has before its CLI process answered, and when it failed.
Asked == [status |-> "asked", at |-> 0, rules |-> <<>>]
Failed == [Asked EXCEPT !.status = "not_found"]

\* failed stands for completed too: neither changes any more.
Statuses ==
    {"starting", "running", "pausing", "paused", "resuming", "stopping", "inspecting", "failed"}

-----------------------------------------------------------------------------
\* Array.filter: the elements of a sequence that are in a set.
Filtered(s, S) ==
    LET some[n \in 0 .. Len(s)] ==
            IF n = 0 THEN <<>>
            ELSE IF s[n] \in S THEN Append(some[n - 1], s[n]) ELSE some[n - 1]
    IN  some[Len(s)]

(* Rules of a run, in the order they were made; one that is being sent has  *)
(* a negative id.                                                           *)

Rule(id, text) == [id |-> id, text |-> text]

Find(rules, id) == Filtered(rules, {e \in Range(rules) : e.id = id})

Without(rules, id) == Filtered(rules, {e \in Range(rules) : e.id # id})

Replaced(rules, id, row) == [i \in DOMAIN rules |-> IF rules[i].id = id THEN row ELSE rules[i]]

WithText(rules, id, text) == Replaced(rules, id, Rule(id, text))

\* Mutant: put back last.
RestoredLast(rules, row) == Append(rules, row)

\* ruleRestored: put back where it was made; rules being sent come last.
Restored(rules, row) ==
    LET earlier == {e \in Range(rules) : e.id > 0 /\ e.id <= row.id}
    IN  Filtered(rules, earlier) \o <<row>> \o Filtered(rules, Range(rules) \ earlier)

-----------------------------------------------------------------------------
(* The page: what it does with each message of the host, then render().    *)

Closed == [open |-> FALSE, tabs |-> <<>>, active |-> NoRun, adrift |-> FALSE]

Tab(r, status, at, rules) == [run |-> r, status |-> status, at |-> at, entries |-> rules]

TabStateFromInfo(r, info) == Tab(r, info.status, info.at, info.rules)

PageRuns(p) == {p.tabs[i].run : i \in DOMAIN p.tabs}

TabOf(p, r) == CHOOSE t \in Range(p.tabs) : t.run = r

\* render: with no active tab the first is shown, of which the host is told nothing.
Render(p) ==
    IF p.tabs = <<>> \/ p.active \in PageRuns(p) THEN p
    ELSE [p EXCEPT !.active = p.tabs[1].run, !.adrift = TRUE]

\* postMessage, when there is a view
Post(p, q) == IF p.open THEN Render(q) ELSE p

InitPage(p, shown, run) ==
    Post(p, [p EXCEPT !.tabs = shown, !.active = run, !.adrift = FALSE])

\* Mutant: only a tab that is there is updated.
TabUpdatedOnly(p, tab) ==
    Post(p, [p EXCEPT !.tabs =
        [i \in DOMAIN p.tabs |-> IF p.tabs[i].run = tab.run THEN tab ELSE p.tabs[i]]])

TabUpdated(p, tab) ==
    Post(p, [p EXCEPT !.tabs =
        IF tab.run \in PageRuns(p)
        THEN [i \in DOMAIN p.tabs |-> IF p.tabs[i].run = tab.run THEN tab ELSE p.tabs[i]]
        ELSE Append(p.tabs, tab)])

TabClosed(p, r) ==
    LET kept == Filtered(p.tabs, {t \in Range(p.tabs) : t.run # r})
    IN  Post(p, [p EXCEPT !.tabs = kept,
            !.active = IF p.active # r THEN @ ELSE IF kept = <<>> THEN NoRun ELSE Last(kept).run])

ActiveTabChanged(p, r) == Post(p, [p EXCEPT !.active = r, !.adrift = FALSE])

\* The entries of its tab, if it has one.
EntriesChanged(p, r, entries) ==
    Post(p, [p EXCEPT !.tabs = [i \in DOMAIN p.tabs |->
        IF p.tabs[i].run = r THEN [p.tabs[i] EXCEPT !.entries = entries] ELSE p.tabs[i]]])

EntriesOf(p, r) == TabOf(p, r).entries

RulePending(p, r, id, text) == EntriesChanged(p, r, Append(EntriesOf(p, r), Rule(id, text)))

RuleUpdated(p, r, id, text) == EntriesChanged(p, r, WithText(EntriesOf(p, r), id, text))

RuleDeleted(p, r, id) == EntriesChanged(p, r, Without(EntriesOf(p, r), id))

RuleConfirmed(p, r, pending, row) ==
    EntriesChanged(p, r, Replaced(EntriesOf(p, r), pending, row))

RuleRestored(p, r, row) == EntriesChanged(p, r, Restored(EntriesOf(p, r), row))

-----------------------------------------------------------------------------
(* The cache of run infos, and fetches                                     *)

Uncached(known, runs) == [r \in DOMAIN known \ runs |-> known[r]]

NoInfos == [r \in {} |-> Asked]

\* Handlers keep the object they found; once it is no longer the cached one,
\* what they write to it is lost.
Detached(running, runs) ==
    {IF w.run \in runs THEN [w EXCEPT !.held = FALSE] ELSE w : w \in running}

Forget(runs) ==
    /\ cache' = Uncached(cache, runs)
    /\ works' = Detached(works, runs)

\* A fetch that has read nothing yet stands for every such fetch of its run.
Fetch(r, chat) == [run |-> r, chat |-> chat, got |-> Asked]

\* What is fetched for tabs when the infos known will do.
Wanted(opened, known) == {Fetch(r, TRUE) : r \in Range(opened) \ DOMAIN known}

\* sendInit: the tabs it posts, before it fetches.
ShownOf(opened) ==
    [i \in DOMAIN opened |->
        IF opened[i] \in DOMAIN cache THEN TabStateFromInfo(opened[i], cache[opened[i]])
        ELSE Tab(opened[i], "loading", 0, <<>>)]

\* The chats' answer to an event of the tree: a cached run is posted at once,
\* the others are fetched.
RefreshTabs(p, known) ==
    LET posted[n \in 0 .. Len(tabs)] ==
            IF n = 0 THEN p
            ELSE IF tabs[n] \in DOMAIN known
                 THEN TabUpdated(posted[n - 1], TabStateFromInfo(tabs[n], known[tabs[n]]))
                 ELSE posted[n - 1]
    IN  /\ page' = IF p.open THEN posted[Len(tabs)] ELSE p
        /\ fetches' = fetches \union
              (IF p.open THEN Wanted(tabs, known) ELSE {})

\* `run info`, as getRunInfoForChat gets it: null when it fails.
InfoReads(f) ==
    /\ f.got = Asked
    /\ \E got \in (IF f.run \in DOMAIN stored THEN {stored[f.run]} ELSE {Failed})
                    \union (IF faults < topic.faults THEN {Failed} ELSE {}) :
          /\ fetches' = (fetches \ {f}) \union {[f EXCEPT !.got = got]}
          /\ faults' = IF got = Failed /\ f.run \in DOMAIN stored THEN faults + 1 ELSE faults
    /\ UNCHANGED <<storage, cache, tabs, active, page, works, strays, crossed, topic, acts>>

\* RunInfoStore.fetch and refreshTab after the await: neither looks again at
\* whether the tab is open.
InfoLands(f) ==
    /\ f.got # Asked
    /\ fetches' = fetches \ {f}
    /\ IF f.got = Failed THEN UNCHANGED <<cache, works, crossed>>
       ELSE /\ cache' = [r \in DOMAIN cache \union {f.run} |-> IF r = f.run THEN f.got ELSE cache[r]]
            /\ works' = Detached(works, {f.run})
            /\ crossed' = IF \E w \in works : w.run = f.run THEN crossed \union {f.run}
                          ELSE crossed \ {f.run}
    /\ page' = IF ~f.chat THEN page
               ELSE TabUpdated(page, IF f.got = Failed THEN Tab(f.run, "not_found", 0, <<>>)
                                     ELSE TabStateFromInfo(f.run, f.got))
    /\ strays' = IF f.chat /\ page.open /\ f.run \notin Range(tabs) THEN strays \union {f.run} ELSE strays
    /\ UNCHANGED <<storage, tabs, active, bounds>>

-----------------------------------------------------------------------------
(* Tabs *)

Acts(kind) ==
    /\ kind \in topic.does /\ acts < topic.acts
    /\ acts' = acts + 1 /\ UNCHANGED <<topic, faults>>

\* resolveWebviewView; the page's first message is `ready`, the answer sendInit.
ViewOpens ==
    /\ Acts("tabs") /\ ~page.open
    /\ page' = InitPage([Closed EXCEPT !.open = TRUE], ShownOf(tabs), active)
    /\ fetches' = fetches \union Wanted(tabs, cache)
    /\ UNCHANGED <<storage, cache, tabs, active, works, strays, crossed>>

ViewCloses ==
    /\ Acts("tabs") /\ page.open
    /\ page' = Closed /\ strays' = {}
    /\ UNCHANGED <<storage, cache, fetches, tabs, active, works, crossed>>

\* openTab, on a run of the tree; it always fetches anew.
OpenTab(r) ==
    LET posted == IF r \in DOMAIN cache THEN TabUpdated(page, TabStateFromInfo(r, cache[r])) ELSE page
    IN  /\ Acts("tabs")
        /\ tabs' = IF r \in Range(tabs) THEN tabs ELSE Append(tabs, r)
        /\ active' = r /\ strays' = strays \ {r}
        /\ IF page.open
           THEN /\ Forget({r})
                /\ fetches' = fetches \union {Fetch(r, TRUE)}
                /\ page' = ActiveTabChanged(posted, r)
           ELSE UNCHANGED <<cache, works, fetches, page>>
        /\ UNCHANGED <<storage, crossed>>

CloseTab(r) ==
    /\ Acts("tabs") /\ r \in PageRuns(page)
    /\ tabs' = Filtered(tabs, Runs \ {r})
    /\ active' = IF active # r THEN active ELSE IF tabs' = <<>> THEN NoRun ELSE Last(tabs')
    /\ page' = ActiveTabChanged(TabClosed(page, r), active')
    /\ strays' = strays \ {r}
    /\ UNCHANGED <<storage, cache, fetches, works, crossed>>

\* closeOtherTabs, then sendInit; for a tab the host does not have it closes all.
CloseOtherTabs(r) ==
    LET keep == Filtered(tabs, {r})
    IN  /\ Acts("tabs") /\ r \in PageRuns(page)
        /\ tabs' = keep
        /\ active' = IF keep = <<>> THEN NoRun ELSE r
        /\ page' = InitPage(page, ShownOf(keep), active')
        /\ fetches' = fetches \union Wanted(keep, cache)
        /\ strays' = {}
        /\ UNCHANGED <<storage, cache, works, crossed>>

\* A click on a tab that is not the active one; the host takes any run.
SwitchTab(r) ==
    /\ Acts("tabs") /\ r \in PageRuns(page) \ {page.active}
    /\ active' = r
    /\ page' = ActiveTabChanged(page, r)
    /\ UNCHANGED <<storage, cache, fetches, tabs, works, strays, crossed>>

\* Drag and drop in the page
Moved(shown, from, to) == InsertAt(RemoveAt(shown, from), to, shown[from])

\* The host takes the order of the tabs it has.
ReorderTabs ==
    /\ Acts("tabs") /\ Len(page.tabs) > 1
    /\ \E from, to \in DOMAIN page.tabs :
          LET moved == Moved(page.tabs, from, to)
              order == [i \in DOMAIN moved |-> moved[i].run]
          IN  /\ from # to
              /\ page' = [page EXCEPT !.tabs = moved]
              /\ tabs' = Filtered(order, Range(tabs)) \o Filtered(tabs, Runs \ Range(order))
    /\ UNCHANGED <<storage, cache, fetches, active, works, strays, crossed>>

-----------------------------------------------------------------------------
(* Rules: shown at once, sent, and taken back when the CLI says no *)

NewWork == CHOOSE i \in 1..MaxWorks : \A w \in works : w.id # i

Work(kind, r, rule, text, prev) ==
    [id |-> NewWork, kind |-> kind, run |-> r, rule |-> rule, text |-> text, prev |-> prev,
     held |-> r \in DOMAIN cache, state |-> "asked"]

\* The page's input is for its active tab; the handler needs a tab of the host.
Begins(r) ==
    /\ Acts("rules") /\ Cardinality(works) < MaxWorks
    /\ page.open /\ r = page.active /\ r \in PageRuns(page) \intersect Range(tabs)
    /\ crossed' = IF \E w \in works : w.run = r THEN crossed \union {r} ELSE crossed
    /\ UNCHANGED <<storage, fetches, tabs, active, strays>>

CachedRow(r, id) == IF r \in DOMAIN cache THEN Find(cache[r].rules, id) ELSE <<>>

CanSendFeedback(status) == status \notin {"loading", "not_found"}

\* handleSubmitFeedback
Submit(r, text) ==
    /\ Begins(r)
    /\ CanSendFeedback(TabOf(page, r).status)
    /\ page' = RulePending(page, r, -NewWork, text)
    /\ works' = works \union {Work("create", r, 0, text, <<>>)}
    /\ UNCHANGED cache

\* A rule the page lets be edited: one that has been sent.
Editable(r) == {e.id : e \in Range(TabOf(page, r).entries)} \intersect Nat

\* handleUpdateRule
Update(r, id, text) ==
    /\ Begins(r)
    /\ page' = RuleUpdated(page, r, id, text)
    /\ works' = works \union {Work("update", r, id, text, CachedRow(r, id))}
    /\ cache' = IF r \in DOMAIN cache THEN [cache EXCEPT ![r].rules = WithText(@, id, text)] ELSE cache

\* handleDeleteRule, once its dialog is answered
Delete(r, id) ==
    /\ Begins(r)
    /\ page' = RuleDeleted(page, r, id)
    /\ works' = works \union {Work("delete", r, id, "", CachedRow(r, id))}
    /\ cache' = IF r \in DOMAIN cache THEN [cache EXCEPT ![r].rules = Without(@, id)] ELSE cache

\* `run rules create`, `update`, `remove`: each loads the run and saves it.
NewRule == 1 + Max({0} \union UNION {{e.id : e \in Range(stored[r].rules)} : r \in DOMAIN stored})

RulesAfter(w) ==
    LET rules == stored[w.run].rules
    IN  CASE w.kind = "create" -> Append(rules, Rule(NewRule, w.text))
          [] w.kind = "update" -> WithText(rules, w.rule, w.text)
          [] w.kind = "delete" -> Without(rules, w.rule)

RuleCommandSaves(w) ==
    /\ w.state = "asked" /\ clock < topic.saves
    /\ w.run \in DOMAIN stored
    /\ w.kind = "create" \/ Find(stored[w.run].rules, w.rule) # <<>>
    /\ clock' = clock + 1
    /\ stored' = [stored EXCEPT ![w.run] = [@ EXCEPT !.at = clock', !.rules = RulesAfter(w)]]
    /\ works' = (works \ {w}) \union
          {[w EXCEPT !.state = "done", !.rule = IF w.kind = "create" THEN NewRule ELSE @]}
    /\ UNCHANGED <<cache, fetches, tabs, active, page, strays, crossed, bounds>>

\* No run, no rule, another writer's save, or no CLI.
RuleCommandFails(w) ==
    /\ w.state = "asked"
    /\ works' = (works \ {w}) \union {[w EXCEPT !.state = "failed"]}
    /\ UNCHANGED <<storage, cache, fetches, tabs, active, page, strays, crossed, bounds>>

RuleCommandEnds(w) == RuleCommandSaves(w) \/ RuleCommandFails(w)

\* The handlers after the await, when the CLI did it.
Confirmed(w) ==
    LET row == Rule(w.rule, w.text)
    IN  /\ w.state = "done"
        /\ works' = works \ {w}
        /\ IF w.kind = "create"
           THEN /\ cache' = IF w.run \in DOMAIN cache
                            THEN [cache EXCEPT ![w.run].rules = Append(@, row)] ELSE cache
                /\ page' = RuleConfirmed(page, w.run, -w.id, row)
           ELSE UNCHANGED <<cache, page>>
        /\ UNCHANGED <<storage, fetches, tabs, active, strays, crossed, bounds>>

\* refreshTab with force, for what the handler has no memory of
ForcedRefresh(w) ==
    IF w.run \in Range(tabs) /\ page.open
    THEN /\ cache' = Uncached(cache, {w.run})
         /\ works' = Detached(works \ {w}, {w.run})
         /\ fetches' = fetches \union {Fetch(w.run, TRUE)}
    ELSE works' = works \ {w} /\ UNCHANGED <<cache, fetches>>

TakenBack(w) ==
    /\ w.state = "failed"
    /\ \/ /\ w.kind = "create"
          /\ page' = RuleDeleted(page, w.run, -w.id)
          /\ works' = works \ {w} /\ UNCHANGED <<cache, fetches>>
       \/ /\ w.kind = "update" /\ w.prev # <<>>
          /\ page' = RuleUpdated(page, w.run, w.rule, w.prev[1].text)
          /\ cache' = IF w.held
                      THEN [cache EXCEPT ![w.run].rules = WithText(@, w.rule, w.prev[1].text)] ELSE cache
          /\ works' = works \ {w} /\ UNCHANGED fetches
       \/ /\ w.kind = "delete" /\ w.prev # <<>>
          /\ page' = RuleRestored(page, w.run, w.prev[1])
          /\ cache' = IF w.run \in DOMAIN cache
                      THEN [cache EXCEPT ![w.run].rules = Restored(@, w.prev[1])] ELSE cache
          /\ works' = works \ {w} /\ UNCHANGED fetches
       \/ /\ w.kind # "create" /\ w.prev = <<>>
          /\ ForcedRefresh(w) /\ UNCHANGED page
    /\ UNCHANGED <<storage, tabs, active, strays, crossed, bounds>>

-----------------------------------------------------------------------------
HandlerGoesOn(w) == Confirmed(w) \/ TakenBack(w)

FirstText == CHOOSE t \in Texts : TRUE

\* The constructor takes tabs and active run from the workspace's state.
ChatInit ==
    /\ topic \in Topics
    /\ stored \in [topic.runs -> {[status |-> s, at |-> 0, rules |-> <<Rule(1, FirstText)>>] :
                                     s \in {"running", "failed"}}]
    /\ clock = 0
    /\ cache = NoInfos /\ works = {}
    /\ tabs = topic.tabs
    /\ active = IF tabs = <<>> THEN NoRun ELSE tabs[1]
    /\ page = IF topic.open THEN InitPage([Closed EXCEPT !.open = TRUE], ShownOf(tabs), active) ELSE Closed
    /\ fetches = IF topic.open THEN Wanted(tabs, cache) ELSE {}
    /\ strays = {} /\ crossed = {}
    /\ acts = 0 /\ faults = 0

ChatNext ==
    \/ ViewOpens \/ ViewCloses \/ ReorderTabs
    \/ \E f \in fetches : InfoReads(f) \/ InfoLands(f)
    \/ \E r \in PageRuns(page) :
          \/ CloseTab(r) \/ CloseOtherTabs(r) \/ SwitchTab(r)
          \/ Submit(r, FirstText)
          \/ \E id \in Editable(r) : Delete(r, id) \/ \E text \in Texts : Update(r, id, text)
    \/ \E w \in works : RuleCommandEnds(w) \/ HandlerGoesOn(w)

-----------------------------------------------------------------------------
\* The page shows the host's tabs: all of them, once they are there or on
\* their way; none that the host does not have, but for a tab that an answer
\* under way brought back (refreshTab posts after its await,
\* ChatWebviewProvider.ts:299); and the active one of the host, unless the
\* page had no such tab yet.
TabsAgree ==
    page.open =>
        /\ \A r \in Range(tabs) : r \in PageRuns(page) \/ \E f \in fetches : f.run = r /\ f.chat
        /\ PageRuns(page) \subseteq Range(tabs) \union strays
        /\ page.tabs # <<>> /\ ~page.adrift => page.active = active

\* An edit that the CLI refused leaves no trace: with no command under way, a
\* cached run of the stored date has the stored rules, unless two commands, or
\* a command and a fetch, crossed on it.
FailedEditsAreUndone ==
    \A r \in DOMAIN cache \intersect DOMAIN stored :
        /\ cache[r].at = stored[r].at
        /\ r \notin crossed
        /\ ~\E w \in works : w.run = r
        => cache[r] = stored[r]
=============================================================================
