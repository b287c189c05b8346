-------------------------------- MODULE Screens --------------------------------
(***************************************************************************)
(* The lists and dashboards of the staff console.  Each screen keeps its   *)
(* filters and its page, reads the rows they ask for, is refreshed by the  *)
(* live events and a poll, and reloads after its own actions.  Answers     *)
(* come in any order; some screens drop all but the latest, others show    *)
(* whatever comes.  One screen scKind is open; one of its filters scFld,   *)
(* or one of the other parts scPart it shows, is followed.                 *)
(***************************************************************************)
EXTENDS Naturals, FiniteSets

CONSTANTS Choices, Start, MaxMoves   \* values of a filter, the one it starts with

ASSUME ScreenBounds == Start \in Choices /\ MaxMoves \in Nat

VARIABLES
    scKind, scFld, scPart,
    scVal, scSub,      \* the filter, and the choice that depends on it
    scTyping,          \* the search box, ahead of the filter while one types
    scPage, scTurned,  \* the page; it was turned since the filter changed
    scFollow,          \* task logs: follow live
    scDue,             \* a load waits for its delay
    scCalls,           \* reads in flight
    scShown,           \* what the rows on screen answer
    scBusy, scError,
    scServer,          \* "old" until the records change
    scAct,             \* the query an action in flight started from
    scDrawer, scMoves, scSent

scWhat == <<scKind, scFld, scPart>>
scAsk == <<scVal, scSub, scPage, scTurned>>
scRead == <<scCalls, scSent>>
scView == <<scShown, scBusy, scError>>
scVars == <<scWhat, scAsk, scTyping, scFollow, scDue, scRead, scView, scServer, scAct,
            scDrawer, scMoves>>

------------------------------------------------------------------------------
\* The filters a screen offers, and what its request carries.
TicketFilters == {"view", "queue", "search", "priority", "sort"}
TicketsAsk == {"view", "queue", "search", "priority", "sort"}
ScopedFilters == {"search", "status", "priority"}
ScopedAsk == {"client_id", "contact_id", "search", "status", "priority"}
LeadFilters == {"view", "search", "status", "source", "brand", "owner"}
LeadsAsk == {"view", "search", "status", "source", "brand", "owner"}
TaskFilters == {"focus", "search", "ownership", "completion"}
TasksAsk == {"focus", "search", "ownership", "completion"}
ClientFilters == {"search", "status"}
ClientsAsk == {"search", "status"}
CredentialFilters == {"search", "status", "ownership", "client", "type"}
CredentialsAsk == {"search", "status", "ownership", "client", "type", "resource"}
ActivityFilters == {"client", "resource"}
ActivityAsks == {"client", "resource"}
ProviderFilters == {"search"}
ProvidersAsk == {"search"}
KnowledgeFilters == {"query", "view"}
KnowledgeAsks == {"query", "view", "context", "section", "resource"}
RetentionFilters == {"status"}
RetentionAsks == {"status"}
CeleryFilters == {"search", "state"}
CeleryAsks == {"search", "state"}
LogFilters == {"level"}
LogsAsk == {"task", "level"}
GitHubFilters == {"tab", "account", "search", "view", "state"}
GitHubAsks == {"tab", "account", "search", "view", "state"}
ResourceFilters == {"search", "ownership", "lifecycle", "type", "environment"}
ResourcesAsk == {"search", "ownership", "lifecycle", "type", "environment"}
LedgerFilters == {"period", "scope"}
LedgerAsks == {"period", "scope"}
CalendarFilters == {"month"}
CalendarAsks == {"month"}
SearchFilters == {"query", "client_only"}
SearchAsks == {"query", "client_only"}

\* What the screen shows beside the rows, and what one load sets.
TicketParts == {"counts", "queues"}
TicketsSet == {"rows", "counts", "queues"}
LeadParts == {"counts", "stats", "options", "brands"}
LeadsSet == {"rows", "counts", "stats", "options", "brands"}
TaskParts == {"counts"}
TasksSet == {"rows", "counts"}
ClientParts == {"stats"}
ClientsSet == {"rows", "stats"}
KnowledgeParts == {"folders", "trail"}
KnowledgeSets == {"rows", "folders", "trail"}
\* (The open task of the Celery screen is not among its parts: a load reads it
\* again only while it is among the rows of the page, and keeps it otherwise.)
CeleryParts == {"totals", "workers", "queues", "chart", "schedules"}
\* Mutant of CelerySets: a load leaves the list of workers as it was.
WorkersForgotten == {"rows", "totals", "queues", "chart", "schedules"}

CelerySets == {"rows", "totals", "workers", "queues", "chart", "schedules"}
LedgerParts == {"summary"}
LedgerSets == {"rows", "summary"}
CalendarParts == {"upcoming", "badges"}
CalendarSets == {"rows", "upcoming", "badges"}
CheckParts == {"status", "uptime", "chart", "configuration", "incidents"}
CheckSets == {"rows", "status", "uptime", "chart", "configuration", "incidents"}
MonitoringParts == {"totals", "incidents"}
MonitoringSets == {"rows", "totals", "incidents"}

\* The requests that change records; the screen reloads when one is answered.
TicketPosts == {"save_queues"}
TaskPosts == {"toggle"}
ActivityPosts == {"acknowledge"}
KnowledgePosts == {"create_folder"}
RetentionPosts == {"decide", "scan"}
CeleryPosts == {"run", "revoke"}
GitHubPosts == {"save_username", "rerun", "dispatch"}
CalendarPosts == {"create_event"}
CheckPosts == {"change_lifecycle"}
MonitoringPosts == {"acknowledge"}

\* offers: a drawer over its rows, Retry beside an error, Refresh at any time.
Screen(filters, asks, parts, sets, posts, offers) ==
    [filters |-> filters, asks |-> asks, parts |-> parts, sets |-> sets, posts |-> posts,
     offers |-> offers]

Screens == [
    tickets |-> Screen(TicketFilters, TicketsAsk, TicketParts, TicketsSet, TicketPosts,
                       {"drawer", "retry"}),
    scoped_tickets |-> Screen(ScopedFilters, ScopedAsk, {}, {"rows"}, {}, {"retry"}),
    leads |-> Screen(LeadFilters, LeadsAsk, LeadParts, LeadsSet, {}, {"drawer", "retry"}),
    tasks |-> Screen(TaskFilters, TasksAsk, TaskParts, TasksSet, TaskPosts, {"retry"}),
    clients |-> Screen(ClientFilters, ClientsAsk, ClientParts, ClientsSet, {},
                       {"drawer", "retry"}),
    credentials |-> Screen(CredentialFilters, CredentialsAsk, {}, {"rows"}, {},
                           {"drawer", "retry"}),
    activity |-> Screen(ActivityFilters, ActivityAsks, {}, {"rows"}, ActivityPosts,
                        {"retry", "refresh"}),
    providers |-> Screen(ProviderFilters, ProvidersAsk, {}, {"rows"}, {}, {"drawer", "retry"}),
    knowledge |-> Screen(KnowledgeFilters, KnowledgeAsks, KnowledgeParts, KnowledgeSets,
                         KnowledgePosts, {"retry"}),
    retention |-> Screen(RetentionFilters, RetentionAsks, {}, {"rows"}, RetentionPosts,
                         {"refresh"}),
    celery |-> Screen(CeleryFilters, CeleryAsks, CeleryParts, CelerySets, CeleryPosts,
                      {"refresh"}),
    task_logs |-> Screen(LogFilters, LogsAsk, {}, {"rows"}, {}, {"refresh"}),
    github |-> Screen(GitHubFilters, GitHubAsks, {}, {"rows"}, GitHubPosts, {"refresh"}),
    run_jobs |-> Screen({}, {}, {}, {"rows"}, {}, {}),
    resources |-> Screen(ResourceFilters, ResourcesAsk, {}, {"rows"}, {}, {"drawer", "retry"}),
    ledger |-> Screen(LedgerFilters, LedgerAsks, LedgerParts, LedgerSets, {}, {}),
    calendar |-> Screen(CalendarFilters, CalendarAsks, CalendarParts, CalendarSets,
                        CalendarPosts, {}),
    check |-> Screen({}, {}, CheckParts, CheckSets, CheckPosts, {"retry"}),
    monitoring |-> Screen({}, {}, MonitoringParts, MonitoringSets, MonitoringPosts, {"retry"}),
    search |-> Screen(SearchFilters, SearchAsks, {}, {"rows"}, {}, {})]

ScreenKinds == DOMAIN Screens
This == Screens[scKind]

\* A change of these filters goes back to page 1: by an effect, or in the handler.
EffectResets == [tickets |-> TicketFilters, scoped_tickets |-> ScopedFilters,
                 leads |-> LeadFilters, tasks |-> {"focus"}, clients |-> ClientFilters,
                 credentials |-> CredentialFilters]
HandlerResets == [tasks |-> {"search", "ownership", "completion"},
                  activity |-> ActivityFilters, providers |-> {"search"},
                  knowledge |-> {"query", "view"}, retention |-> {"status"},
                  celery |-> {"search", "state"}, task_logs |-> {"level"},
                  github |-> {"tab", "account", "search", "view", "state"},
                  resources |-> ResourceFilters, ledger |-> {"period", "scope"}]
In(table) == IF scKind \in DOMAIN table THEN table[scKind] ELSE {}

\* Loads that wait after the last change; boxes whose filter waits.
Delayed == {"tickets", "scoped_tickets", "leads", "clients", "knowledge", "search"}
DelayedBoxes == [credentials |-> {"search"}, celery |-> {"search"}]

\* The screens that drop every answer but the latest request's.
LatestOnly == {"knowledge", "celery", "task_logs", "github", "run_jobs", "check", "search"}
\* Of those, the ones whose cleanup already drops the old request's answer.
Cleaned == LatestOnly \ {"check"}
\* The screens that empty their rows when the query changes.
Blanking == {"github", "run_jobs"}
\* An error stays on these screens until a read succeeds; on the others until
\* the next one begins.
KeepError == {"retention", "celery", "task_logs", "github", "run_jobs"}
Polled == ScreenKinds \ {"search"}
Unpaged == {"calendar", "monitoring", "search"}
\* Paging is open while a read is in flight.
PagesFreely == {"activity", "retention", "run_jobs"}

\* A choice that depends on another filter, and the filter that clears it.
ClearedBy == [tickets |-> {"view"}, leads |-> {"view"}, activity |-> {"client"},
              github |-> {"tab"}, retention |-> {"status"}]
\* Choosing it moves the filter away from its first value.
Moving == {"tickets", "leads"}

------------------------------------------------------------------------------
Nothing == [val |-> "none", sub |-> "none", page |-> 0]
Queries == [val : Choices, sub : Choices \union {"none"}, page : 1..2]
Asked(v, s, p) == [val |-> IF scFld \in This.asks THEN v ELSE Start, sub |-> s, page |-> p]
Query == Asked(scVal, scSub, scPage)

ScreenCalls == [id : 0..(2 * MaxMoves + 2), asked : Queries, new : {"old", "new"},
                last : BOOLEAN]

ScreenTypeOK ==
    /\ scKind \in ScreenKinds
    /\ scFld \in This.filters \union {"none"} /\ scPart \in This.parts \union {"rows"}
    /\ scVal \in Choices /\ scTyping \in Choices /\ scSub \in Choices \union {"none"}
    /\ scPage \in 1..2 /\ scTurned \in BOOLEAN /\ scFollow \in BOOLEAN /\ scDue \in BOOLEAN
    /\ scCalls \subseteq ScreenCalls
    /\ scShown \in [asked : Queries \union {Nothing}, new : {"old", "new"}]
    /\ scBusy \in BOOLEAN /\ scError \in BOOLEAN /\ scServer \in {"old", "new"}
    /\ scAct \in Queries \union {Nothing} /\ scDrawer \in BOOLEAN
    /\ scMoves \in 0..MaxMoves /\ scSent \in 0..(2 * MaxMoves + 2)

NoRows == [asked |-> Nothing, new |-> "old"]

ScreenInit ==
    /\ scKind \in ScreenKinds
    /\ \/ scFld \in This.filters \union {"none"} /\ scPart = "rows"
       \/ scFld = "none" /\ scPart \in This.parts
    /\ scVal = Start /\ scTyping = Start /\ scSub = "none"
    /\ scPage = 1 /\ scTurned = FALSE /\ scFollow = TRUE
    /\ scDue = TRUE /\ scCalls = {} /\ scSent = 0
    /\ scShown = NoRows /\ scBusy = TRUE /\ scError = FALSE
    /\ scServer = "old" /\ scAct = Nothing /\ scDrawer = FALSE /\ scMoves = 0

\* load: a request for query q; in the guarded screens it becomes the latest.
Old(calls) == {[c EXCEPT !.last = FALSE] : c \in calls}
\* Mutant of NewCall: the pages are numbered from 0.
FromZero(n, q) == [id |-> n, asked |-> [q EXCEPT !.page = @ - 1], new |-> scServer,
                   last |-> TRUE]

NewCall(n, q) == [id |-> n, asked |-> q, new |-> scServer, last |-> TRUE]
Load(q) ==
    /\ scCalls' = Old(scCalls) \union {NewCall(scSent + 1, q)} /\ scSent' = scSent + 1
    /\ scBusy' = TRUE /\ scError' = (scError /\ scKind \in KeepError)

\* The state has changed: the effects run.  In a screen without a delay where
\* an effect on the filter resets the page, the old page is asked for first.
Reset == scFld \in In(EffectResets) \union In(HandlerResets)
Effects(v, s, p) ==
    LET late == v # scVal /\ scPage # p /\ scFld \in In(EffectResets)
        q == Asked(v, s, p)
    IN IF scKind \in Delayed
       THEN /\ scDue' = TRUE /\ scSent' = scSent
            /\ scCalls' = (IF scKind \in Cleaned THEN Old(scCalls) ELSE scCalls)
            /\ scBusy' = (scKind = "search" \/ scBusy) /\ scError' = scError
       ELSE /\ scCalls' = Old(scCalls) \union {NewCall(scSent + (IF late THEN 2 ELSE 1), q)}
                \union (IF late THEN {[NewCall(scSent + 1, Asked(v, s, scPage)) EXCEPT
                                           !.last = FALSE]} ELSE {})
            /\ scSent' = scSent + (IF late THEN 2 ELSE 1)
            /\ scDue' = scDue /\ scBusy' = TRUE
            /\ scError' = (scError /\ scKind \in KeepError \ {"run_jobs"})
After(v, s, p) ==
    /\ scVal' = v /\ scSub' = s /\ scPage' = p
    /\ Effects(v, s, p)
    /\ scShown' = (IF scKind \in Blanking \/ scFld = "scope" THEN NoRows ELSE scShown)

\* These screens show nothing else before the first answer.
AllOrNothing == {"tickets", "leads", "clients", "scoped_tickets", "activity", "calendar",
                 "check", "monitoring", "resources"}
Visible == /\ scKind \in AllOrNothing => scShown # NoRows
           /\ scKind = "resources" => ~scError
Moves == scMoves < MaxMoves /\ ~scDrawer /\ scMoves' = scMoves + 1

Clears == scFld \in In(ClearedBy)

\* A filter is changed: at once, or its box is typed into.
Change(v) ==
    /\ Visible /\ Moves /\ v # scTyping /\ scFld \in This.filters
    /\ scTyping' = v
    /\ IF scFld \in In(DelayedBoxes)
       THEN UNCHANGED <<scAsk, scDue, scRead, scView>>
       ELSE /\ scTurned' = FALSE
            /\ After(v, IF Clears THEN "none" ELSE scSub, IF Reset THEN 1 ELSE scPage)
    /\ UNCHANGED <<scWhat, scFollow, scServer, scAct, scDrawer>>
\* The delay of a search box is over.
BoxApplies ==
    /\ scTyping # scVal /\ scTurned' = FALSE
    /\ After(scTyping, scSub, IF Reset THEN 1 ELSE scPage)
    /\ UNCHANGED <<scWhat, scTyping, scFollow, scServer, scAct, scDrawer, scMoves>>
\* A choice among those of the current filter.
ChooseDependent ==
    /\ Visible /\ Moves /\ scFld \in In(ClearedBy)
    /\ \E v \in (IF scKind \in Moving THEN Choices \ {Start} ELSE {scVal}) :
          /\ scTyping' = v
          /\ IF scKind = "retention"    \* opens a decision, asks for nothing
             THEN scSub' = v /\ UNCHANGED <<scVal, scPage, scTurned, scDue, scRead, scView>>
             ELSE After(v, v, 1) /\ scTurned' = FALSE
    /\ UNCHANGED <<scWhat, scFollow, scServer, scAct, scDrawer>>
TurnPage(p) ==
    /\ Visible /\ Moves /\ scKind \notin Unpaged /\ p # scPage
    /\ scShown # NoRows \/ scKind = "run_jobs"
    /\ scBusy => scKind \in PagesFreely
    /\ scTurned' = TRUE /\ scFollow' = (scFollow /\ p = 1)
    /\ After(scVal, scSub, p)
    /\ UNCHANGED <<scWhat, scTyping, scServer, scAct, scDrawer>>
FollowLive ==
    /\ scKind = "task_logs" /\ Moves
    /\ scFollow' = ~scFollow
    /\ IF ~scFollow /\ scPage # 1 THEN After(scVal, scSub, 1) /\ scTurned' = FALSE
       ELSE UNCHANGED <<scAsk, scDue, scRead, scView>>
    /\ UNCHANGED <<scWhat, scTyping, scServer, scAct, scDrawer>>

\* The delay is over, or the screen has just been opened.
Settles ==
    /\ scDue /\ scDue' = FALSE /\ Load(Query)
    /\ UNCHANGED <<scWhat, scAsk, scTyping, scFollow, scShown, scServer, scAct, scDrawer, scMoves>>
\* The live events or the poll: one such read at a time, its number is 0.
Following == scKind # "task_logs" \/ scFollow
LiveReads ==
    /\ scKind \in Polled /\ Following /\ \A c \in scCalls : c.id # 0
    /\ scCalls' = Old(scCalls) \union {NewCall(0, Query)} /\ scBusy' = TRUE
    /\ scError' = (scError /\ scKind \in KeepError)
    /\ UNCHANGED <<scWhat, scAsk, scTyping, scFollow, scDue, scSent, scShown, scServer, scAct,
                   scDrawer, scMoves>>
\* Refresh, or Retry beside an error.
Refresh ==
    /\ Moves /\ \/ "refresh" \in This.offers
                \/ scError /\ "retry" \in This.offers
    /\ Load(Query)
    /\ UNCHANGED <<scWhat, scAsk, scTyping, scFollow, scDue, scShown, scServer, scAct, scDrawer>>
\* The error of a request appears elsewhere on these screens, or nowhere; on
\* the others it is the screen's, and a new request clears it.
OwnError == {"activity", "celery", "tasks"}
\* A request that changes records; its handler keeps the query it started from.
Act ==
    /\ Visible /\ Moves /\ scAct = Nothing /\ This.posts # {}
    /\ scAct' = Query /\ scError' = (scError /\ scKind \in OwnError)
    /\ UNCHANGED <<scWhat, scAsk, scTyping, scFollow, scDue, scRead, scShown, scBusy, scServer,
                   scDrawer>>
\* The tickets go back to view My tickets and no queue, whichever of their
\* filters is followed; if view or queue moves, so does the page.  The panel
\* of queues closes, which is a delayed load of its own.
BackToMine ==
    LET mine == scFld \in {"view", "queue"}
    IN \E moved \in (IF mine THEN {<<scVal, scSub>> # <<Start, "none">>} ELSE BOOLEAN) :
         /\ scVal' = (IF mine THEN Start ELSE scVal) /\ scTyping' = scVal' /\ scSub' = "none"
         /\ scPage' = (IF moved THEN 1 ELSE scPage) /\ scTurned' = (scTurned /\ ~moved)
         /\ scDue' \in {scDue \/ moved, TRUE}
\* It is answered: the handler reloads what it started from.
ActAnswered ==
    /\ scAct # Nothing /\ scAct' = Nothing /\ scServer' = "new"
    /\ Load(scAct)
    /\ \/ scKind = "tickets" /\ BackToMine
       \/ /\ scKind = "retention" /\ scSub' = "none"
          /\ UNCHANGED <<scVal, scPage, scTurned, scTyping, scDue>>
       \/ scKind \notin {"tickets", "retention"} /\ UNCHANGED <<scAsk, scTyping, scDue>>
    /\ UNCHANGED <<scWhat, scFollow, scShown, scDrawer, scMoves>>
ActFails ==
    /\ scAct # Nothing /\ scAct' = Nothing /\ scError' = (scKind \notin OwnError \/ scError)
    /\ UNCHANGED <<scWhat, scAsk, scTyping, scFollow, scDue, scRead, scShown, scBusy, scServer,
                   scDrawer, scMoves>>
OpenDrawer ==
    /\ scShown # NoRows /\ Moves /\ "drawer" \in This.offers /\ scDrawer' = TRUE
    /\ UNCHANGED <<scWhat, scAsk, scTyping, scFollow, scDue, scRead, scView, scServer, scAct>>
CloseDrawer ==
    /\ scDrawer /\ scDrawer' = FALSE
    /\ \/ Load(Query)
       \/ scKind \in {"providers", "credentials"} /\ UNCHANGED <<scRead, scBusy, scError>>
    /\ UNCHANGED <<scWhat, scAsk, scTyping, scFollow, scDue, scShown, scServer, scAct, scMoves>>

RecordsChange ==
    /\ scServer = "old" /\ scServer' = "new"
    /\ UNCHANGED <<scWhat, scAsk, scTyping, scFollow, scDue, scRead, scView, scAct, scDrawer,
                   scMoves>>

\* Mutant of Accepted: no screen tells the latest answer from an older one.
EveryAnswer(c) == TRUE

Accepted(c) == scKind \in LatestOnly => c.last
Answer(c) ==
    /\ c \in scCalls /\ scCalls' = scCalls \ {c}
    /\ IF Accepted(c)
       THEN /\ scBusy' = FALSE /\ scError' = FALSE
            /\ IF scPart \in This.sets
               THEN \E n \in {c.new, scServer} : scShown' = [asked |-> c.asked, new |-> n]
               ELSE scShown' = scShown
       ELSE UNCHANGED scView
    /\ UNCHANGED <<scWhat, scAsk, scTyping, scFollow, scDue, scSent, scServer, scAct, scDrawer,
                   scMoves>>
\* The logs have fewer pages than the one asked for: go to their last.
LogsClamped(c) ==
    /\ scKind = "task_logs" /\ c \in scCalls /\ c.last /\ scPage = 2
    /\ scPage' = 1 /\ scTurned' = FALSE /\ scSent' = scSent + 1 /\ scBusy' = TRUE
    /\ scCalls' = Old(scCalls \ {c}) \union {NewCall(scSent + 1, Asked(scVal, scSub, 1))}
    /\ UNCHANGED <<scWhat, scVal, scSub, scTyping, scFollow, scDue, scShown, scError, scServer,
                   scAct, scDrawer, scMoves>>
Failure(c) ==
    /\ c \in scCalls /\ scCalls' = scCalls \ {c}
    /\ IF Accepted(c)
       THEN /\ scBusy' = FALSE /\ scError' = TRUE
            /\ scShown' = (IF scKind = "search" THEN NoRows ELSE scShown)
       ELSE UNCHANGED scView
    /\ UNCHANGED <<scWhat, scAsk, scTyping, scFollow, scDue, scSent, scServer, scAct, scDrawer,
                   scMoves>>

LiveAnswer == \E c \in scCalls : c.id = 0 /\ Answer(c)
Drain == \E c \in scCalls : c.id # 0 /\ (Answer(c) \/ Failure(c))
ActReturns == ActAnswered \/ ActFails

ScreenNext ==
    \/ \E v \in Choices : Change(v)
    \/ \E p \in 1..2 : TurnPage(p)
    \/ \E c \in scCalls : Answer(c) \/ Failure(c) \/ LogsClamped(c)
    \/ BoxApplies \/ ChooseDependent \/ FollowLive \/ Settles \/ LiveReads \/ Refresh
    \/ Act \/ ActAnswered \/ ActFails \/ OpenDrawer \/ CloseDrawer \/ RecordsChange

ScreenSpec ==
    /\ ScreenInit /\ [][ScreenNext]_scVars
    /\ WF_scVars(BoxApplies) /\ WF_scVars(Settles) /\ WF_scVars(LiveReads)
    /\ WF_scVars(Drain) /\ WF_scVars(ActReturns) /\ SF_scVars(LiveAnswer)

------------------------------------------------------------------------------
\* A page past the first is one the user turned to since the filter last
\* changed: a filter never leaves the screen on a page its rows may not have.
PageOfItsFilter == scPage = 1 \/ scTurned

\* A choice made under one filter value is never asked for under another.
DependentsAgree == scSub \in {"none", scVal}

\* The search dialog shows results only of the words and the scope it has now;
\* so do the logs and the jobs once nothing is in flight, whatever the order
\* the answers came in.
RowsAnswerTheScreen ==
    /\ (scKind = "search" /\ ~scBusy /\ scShown # NoRows) => scShown.asked = Query
    /\ (scKind \in {"task_logs", "run_jobs"} /\ scCalls = {} /\ ~scDue /\ ~scError)
           => scShown.asked = Query

\* Page, dependent choice and rows of a screen belong to its present filters.
ScreenIsConsistent == PageOfItsFilter /\ DependentsAgree /\ RowsAnswerTheScreen

\* A screen that is left alone, its drawer closed, ends showing the rows its
\* filters ask for, with what became of the records.
Current == scShown = [asked |-> Query, new |-> scServer]
ScreenCatchesUp == (<>[](scKind \in Polled /\ Following)) => <>[]Current
================================================================================
