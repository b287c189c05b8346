----------------------------- MODULE TimeTracking -----------------------------
(***************************************************************************)
(* One staff member's running timer: the row the server keeps, and the     *)
(* screens of several tabs that show and settle it: the time workspace,    *)
(* which reads it again by live events and polls, and the controls of a    *)
(* task and of a ticket, which read it on arrival and after a refusal.     *)
(***************************************************************************)
EXTENDS Naturals, FiniteSets

CONSTANTS
    Tabs,           \* the sets of controls that may be open beside the workspace
    Targets,        \* what the workspace may record time on
    WorkItems,      \* who may own the project, the task and the ticket, and
                    \* whether the task is in the project
    LeftRunning,    \* the timers another session may have left running
    MaxTimeRequests     \* the requests the screens ever send

TimeOwners == {"client", "internal"}

\* A task of another project is refused like one of none.
TaskProjects == {"none", "project"}

ASSUME TimeBounds ==
    /\ WorkItems \subseteq [owner : TimeOwners, project : TaskProjects]
    /\ Tabs \subseteq SUBSET {"task", "ticket"} /\ MaxTimeRequests \in Nat
    /\ Targets \subseteq {"internal", "client", "project", "task", "ticket"}

VARIABLES
    tmItem,         \* the state of the project, the task and the ticket
    tmOptions,      \* the same by the workspace's options, or Unread
    tmTimer,        \* the RunningTimer row, or NoTimer
    tmUsed,         \* the timers started so far
    tmLocked,       \* the screen whose stop holds the row, or "nobody"
    tmRecorded,     \* how many entries each timer left
    tmCancelled,    \* the timers that were cancelled
    tmEntries,      \* the TimeEntry rows, of stopped timers and by hand
    tmShown,        \* the timer each screen shows, and whether it is no older
                    \* than the server's handling of the screen's last request
    tmLoaded,       \* the screens whose first load was answered
    tmReads,        \* reads under way
    tmCall,         \* each screen's own request
    tmForm,         \* the workspace's open panel and the context chosen in it
    tmAsked         \* the requests sent so far

tmServer == <<tmItem, tmTimer, tmUsed, tmLocked, tmRecorded, tmCancelled, tmEntries>>
tmScreens == <<tmOptions, tmShown, tmLoaded, tmReads, tmCall, tmForm, tmAsked>>
tmVars == <<tmServer, tmScreens>>

Workspace == "workspace"
TimerControls == UNION Tabs
TimeScreens == {Workspace} \union TimerControls
Timers == 1..(MaxTimeRequests + 1)

\* What time can be recorded on; "internal" is no item at all.
WorkTargets == Targets \union TimerControls
OwnerOf(item, target) == IF target \in {"internal", "client"} THEN target ELSE item.owner

ProjectOf(item, target) == IF target = "task" THEN item.project ELSE "none"
Unread == [owner |-> "unread", project |-> "none"]

Timer == [id : Timers, target : WorkTargets, project : TaskProjects,
          owner : TimeOwners, billable : BOOLEAN]
NoTimer == [id |-> 0, target |-> "none", project |-> "none", owner |-> "internal",
            billable |-> FALSE]
Entry == [owner : TimeOwners, billable : BOOLEAN]

\* A timer that was left running is the first one, and was checked like any.
ASSUME LeftRunningAssumption ==
    \A t \in LeftRunning :
        t \in Timer /\ t.id = 1 /\ (t.owner = "internal" => ~t.billable)

\* A request says what the time is recorded on, the task's project by what the
\* screen knows (the controls send none) and whether it is billable.
Payload == [target : WorkTargets, project : TaskProjects, billable : BOOLEAN]
NoPayload == [target |-> "none", project |-> "none", billable |-> FALSE]
TimeCall == [op : {"none", "start", "stop", "cancel", "manual"},
         stage : {"sent", "checked", "done", "refused", "reload"},
         payload : Payload \union {NoPayload}, timer : Timer \union {NoTimer}]
NoTimeCall == [op |-> "none", stage |-> "sent", payload |-> NoPayload, timer |-> NoTimer]

\* What the screens tell apart of a timer.
Seen(t) == [id |-> t.id, target |-> t.target]
NoneSeen == Seen(NoTimer)

ShownValue == [timer : [id : Timers, target : WorkTargets] \union {NoneSeen}, fresh : BOOLEAN]
TimeRead == [screen : TimeScreens, live : BOOLEAN, answered : BOOLEAN, value : ShownValue]
Blank == [timer |-> NoneSeen, fresh |-> TRUE]
Panels == {"none", "timer", "manual"}

TimeTypeOK ==
    /\ tmItem \in WorkItems /\ tmOptions \in WorkItems \union {Unread}
    /\ tmTimer \in Timer \union {NoTimer} /\ tmUsed \in 0..(MaxTimeRequests + 1)
    /\ tmLocked \in TimeScreens \union {"nobody"}
    /\ tmRecorded \in [Timers -> Nat] /\ tmCancelled \subseteq Timers
    /\ tmEntries \subseteq Entry
    /\ tmShown \in [TimeScreens -> ShownValue] /\ tmLoaded \subseteq TimeScreens
    /\ tmReads \subseteq TimeRead /\ tmCall \in [TimeScreens -> TimeCall]
    /\ tmForm \in [panel : Panels, target : Targets] /\ tmAsked \in 0..MaxTimeRequests

FirstReads(open) == {[screen |-> s, live |-> FALSE, answered |-> FALSE, value |-> Blank] :
                     s \in open \union {Workspace}}

TimeInit ==
    /\ tmItem \in WorkItems /\ tmOptions = Unread
    /\ tmTimer \in LeftRunning \union {NoTimer} /\ tmUsed = tmTimer.id
    /\ tmLocked = "nobody"
    /\ tmRecorded = [t \in Timers |-> 0] /\ tmCancelled = {} /\ tmEntries = {}
    /\ tmShown = [s \in TimeScreens |-> Blank] /\ tmLoaded = {} /\ \E open \in Tabs : tmReads = FirstReads(open)
    /\ tmCall = [s \in TimeScreens |-> NoTimeCall]
    /\ \E p \in Panels, t \in Targets :
          tmForm = [panel |-> p, target |-> t]
    /\ tmAsked = 0

\* Another page gives the item another owner, or moves the task into the
\* project or out of it: at any time, also while a timer runs on it.
ItemsMove ==
    /\ tmItem' \in WorkItems
    /\ UNCHANGED <<tmTimer, tmUsed, tmLocked, tmRecorded, tmCancelled, tmEntries,
                   tmScreens>>

---------------------------------------------------------------------------
\* Reading the timer.

\* The workspace's first load asks for its options beside the timer.
OptionsRead ==
    /\ Workspace \notin tmLoaded /\ tmOptions = Unread /\ tmOptions' = tmItem
    /\ UNCHANGED <<tmServer, tmShown, tmLoaded, tmReads, tmCall, tmForm, tmAsked>>

\* Mutant of LiveRefresh: the screen is refreshed until it has loaded.
RefreshedUntilLoaded ==
    /\ Workspace \notin tmLoaded /\ ~\E r \in tmReads : r.live
    /\ tmReads' = tmReads \union {[screen |-> Workspace, live |-> TRUE, answered |-> FALSE,
                                   value |-> Blank]}
    /\ UNCHANGED <<tmServer, tmOptions, tmShown, tmLoaded, tmCall, tmForm, tmAsked>>

\* A live event or a poll; the refreshes of a screen do not overlap.
LiveRefresh ==
    /\ ~\E r \in tmReads : r.live
    /\ tmReads' = tmReads \union {[screen |-> Workspace, live |-> TRUE, answered |-> FALSE,
                                   value |-> Blank]}
    /\ UNCHANGED <<tmServer, tmOptions, tmShown, tmLoaded, tmCall, tmForm, tmAsked>>

TimerRead(r) ==
    /\ r \in tmReads /\ ~r.answered
    /\ tmReads' = (tmReads \ {r}) \union
           {[screen |-> r.screen, live |-> r.live, answered |-> TRUE,
             value |-> [timer |-> Seen(tmTimer), fresh |-> TRUE]]}
    /\ UNCHANGED <<tmServer, tmOptions, tmShown, tmLoaded, tmCall, tmForm, tmAsked>>

\* The end of a load that followed a refusal ends the request.
AfterRead(r) == [tmCall EXCEPT ![r.screen] =
                    IF ~r.live /\ tmCall[r.screen].stage = "reload" THEN NoTimeCall ELSE @]

ReadArrives(r) ==
    /\ r \in tmReads /\ r.answered
    /\ r.screen = Workspace /\ ~r.live => tmOptions # Unread
    /\ tmReads' = tmReads \ {r}
    /\ tmShown' = [tmShown EXCEPT ![r.screen] = r.value]
    /\ tmLoaded' = IF r.live THEN tmLoaded ELSE tmLoaded \union {r.screen}
    /\ tmCall' = AfterRead(r)
    /\ UNCHANGED <<tmServer, tmOptions, tmForm, tmAsked>>

\* A control that could not load keeps what it shows, and nothing is claimed of
\* it; the workspace offers a retry.
ReadFails(r) ==
    /\ r \in tmReads /\ r.answered
    /\ tmReads' = (tmReads \ {r}) \union
           IF r.screen = Workspace /\ ~r.live
           THEN {[screen |-> r.screen, live |-> FALSE, answered |-> FALSE, value |-> Blank]}
           ELSE {}
    /\ tmLoaded' = IF r.screen = Workspace THEN tmLoaded ELSE tmLoaded \union {r.screen}
    /\ tmCall' = AfterRead(r)
    /\ tmShown' = [tmShown EXCEPT ![r.screen].fresh = TRUE]
    /\ UNCHANGED <<tmServer, tmOptions, tmForm, tmAsked>>

---------------------------------------------------------------------------
\* What the screens offer.

TimerIdle(s) == tmCall[s].op = "none"
Shows(s) == tmShown[s].timer

\* The active timer's card, the panel's buttons and the two forms.
WorkspaceOffers ==
    (IF Shows(Workspace) # NoneSeen THEN {"stop", "cancel"} ELSE {})
    \union (IF tmForm.panel = "timer" /\ Shows(Workspace) = NoneSeen THEN {"start"} ELSE {})
    \union (IF tmForm.panel = "manual" THEN {"manual"} ELSE {})

TaskControlOffers == IF Shows("task").target = "task" THEN {"stop"}
                     ELSE IF Shows("task") = NoneSeen THEN {"start"} ELSE {}
TicketControlOffers == IF Shows("ticket").target = "ticket" THEN {"stop"}
                       ELSE IF Shows("ticket") = NoneSeen THEN {"start"} ELSE {}

TimerOffered(s) == CASE s = "task" -> TaskControlOffers [] s = "ticket" -> TicketControlOffers
                [] OTHER -> WorkspaceOffers

\* What a chosen context is sent as; internal time is sent as not billable.
ContextPayload(target, billable) ==
    [target |-> target, project |-> ProjectOf(tmOptions, target),
     billable |-> OwnerOf(tmOptions, target) # "internal" /\ billable]
TaskPayload == [target |-> "task", project |-> "none", billable |-> TRUE]
TicketPayload == [target |-> "ticket", project |-> "none", billable |-> TRUE]

PayloadOf(s, billable) == CASE s = "task" -> TaskPayload [] s = "ticket" -> TicketPayload
                  [] OTHER -> ContextPayload(tmForm.target, billable)

\* The panel is opened and closed.
ChoosePanel == \E p \in {"timer", "manual"} :
    /\ Workspace \in tmLoaded
    /\ p = "timer" => Shows(Workspace) = NoneSeen
    /\ tmForm' = [tmForm EXCEPT !.panel = IF @ = p THEN "none" ELSE p]
    /\ UNCHANGED <<tmServer, tmOptions, tmShown, tmLoaded, tmReads, tmCall, tmAsked>>

Asks(s, op, payload) ==
    /\ s \in tmLoaded /\ TimerIdle(s) /\ op \in TimerOffered(s)
    /\ tmAsked < MaxTimeRequests /\ tmAsked' = tmAsked + 1
    /\ tmCall' = [tmCall EXCEPT ![s] = 
           [op |-> op, stage |-> "sent", payload |-> payload, timer |-> NoTimer]]
    /\ UNCHANGED <<tmServer, tmOptions, tmShown, tmLoaded, tmReads, tmForm>>

StartTimer(s) == \E billable \in BOOLEAN : Asks(s, "start", PayloadOf(s, billable))
StopTimer(s) == Asks(s, "stop", NoPayload)
CancelTimer(s) == Asks(s, "cancel", NoPayload)

\* A duration of zero is refused by the form.
AddManualEntry == \E billable \in BOOLEAN :
    Asks(Workspace, "manual", PayloadOf(Workspace, billable))

---------------------------------------------------------------------------
\* The server.

Reached(s, op, stage) == tmCall[s].op = op /\ tmCall[s].stage = stage
To(s, stage, t) ==
    /\ tmCall' = [tmCall EXCEPT ![s] = [op |-> @.op, stage |-> stage,
                                        payload |-> @.payload, timer |-> t]]
    /\ UNCHANGED <<tmOptions, tmLoaded, tmForm, tmAsked>>

\* What a control shows, or has read, is older than this step of its request.
Handled(s) ==
    /\ tmShown' = [tmShown EXCEPT ![s].fresh = s = Workspace]
    /\ tmReads' = {IF r.screen = s /\ s # Workspace /\ r.answered
                    THEN [r EXCEPT !.value.fresh = FALSE] ELSE r : r \in tmReads}

\* The item's own context decides the owner, whatever was sent.
Billed(owner, billable) == owner # "internal" /\ billable

\* A payload or a timer whose task has left the project it names.
Misplaced(x) == x.project \notin {"none", ProjectOf(tmItem, x.target)}

\* The timer a payload asks for, by the item's context as it is read; it has
\* no row yet, and StartInserts numbers it.
Resolved(p) ==
    LET owner == OwnerOf(tmItem, p.target)
    IN [id |-> tmUsed + 1, target |-> p.target, project |-> ProjectOf(tmItem, p.target),
        owner |-> owner, billable |-> Billed(owner, p.billable)]

\* The entry of a payload or a timer: the item's owner when it is saved.
EntryOf(x) == [owner |-> OwnerOf(tmItem, x.target),
               billable |-> Billed(OwnerOf(tmItem, x.target), x.billable)]

\* Nothing is locked when there is no row: two starts both find none.
StartChecks(s) ==
    /\ Reached(s, "start", "sent") /\ tmTimer = NoTimer /\ ~Misplaced(tmCall[s].payload)
    /\ To(s, "checked", Resolved(tmCall[s].payload))
    /\ UNCHANGED <<tmServer, tmShown, tmReads>>

\* One row per user: the insertion fails when another start committed first.
RowFree == tmTimer = NoTimer

StartInserts(s) ==
    /\ Reached(s, "start", "checked") /\ RowFree
    /\ tmTimer' = [tmCall[s].timer EXCEPT !.id = tmUsed + 1]
    /\ tmUsed' = tmUsed + 1
    /\ To(s, "done", tmTimer') /\ Handled(s)
    /\ UNCHANGED <<tmItem, tmLocked, tmRecorded, tmCancelled, tmEntries>>

\* Mutant of RowTaken: the timer is read without select_for_update.
NeverTaken == FALSE

\* Stop locks the row, records its entry and deletes it, in one transaction,
\* which is rolled back when the entry is not valid.
RowTaken == tmLocked # "nobody"

StopLocks(s) ==
    /\ Reached(s, "stop", "sent") /\ tmTimer # NoTimer /\ ~RowTaken
    /\ tmLocked' = s /\ To(s, "checked", tmTimer)
    /\ UNCHANGED <<tmItem, tmTimer, tmUsed, tmRecorded, tmCancelled, tmEntries, tmShown,
                   tmReads>>

\* full_clean() of the entry, by the item as it is now: the task must still be
\* in the timer's project, and time that became internal must not be billable.
Recordable(t) ==
    ~Misplaced(t) /\ (OwnerOf(tmItem, t.target) = "internal" => ~t.billable)

Unlocked(s) == tmLocked' = IF tmLocked = s THEN "nobody" ELSE tmLocked

StopRecords(s) ==
    /\ Reached(s, "stop", "checked") /\ Recordable(tmCall[s].timer)
    /\ Unlocked(s)
    /\ tmEntries' = tmEntries \union {EntryOf(tmCall[s].timer)}
    /\ tmRecorded' = [tmRecorded EXCEPT ![tmCall[s].timer.id] = @ + 1]
    /\ tmTimer' = IF tmTimer = tmCall[s].timer THEN NoTimer ELSE tmTimer
    /\ To(s, "done", NoTimer) /\ Handled(s)
    /\ UNCHANGED <<tmItem, tmUsed, tmCancelled>>

\* The ValidationError is nowhere caught: the row stays, and every later stop
\* ends in the same way while the item does not move back.
StopRejected(s) ==
    /\ Reached(s, "stop", "checked") /\ ~Recordable(tmCall[s].timer)
    /\ Unlocked(s)
    /\ To(s, "refused", NoTimer) /\ Handled(s)
    /\ UNCHANGED <<tmItem, tmTimer, tmUsed, tmRecorded, tmCancelled, tmEntries>>

\* The deletion waits for the lock.
CancelDeletes(s) ==
    /\ Reached(s, "cancel", "sent") /\ tmTimer # NoTimer /\ ~RowTaken
    /\ tmCancelled' = tmCancelled \union {tmTimer.id} /\ tmTimer' = NoTimer
    /\ To(s, "done", NoTimer) /\ Handled(s)
    /\ UNCHANGED <<tmItem, tmUsed, tmLocked, tmRecorded, tmEntries>>

\* The task's project is compared with the project that was sent.
ManualStored ==
    /\ Reached(Workspace, "manual", "sent") /\ ~Misplaced(tmCall[Workspace].payload)
    /\ tmEntries' = tmEntries \union {EntryOf(tmCall[Workspace].payload)}
    /\ To(Workspace, "done", NoTimer)
    /\ UNCHANGED <<tmItem, tmTimer, tmUsed, tmLocked, tmRecorded, tmCancelled, tmShown,
                   tmReads>>

\* A start that finds a timer, a stop or a cancel that finds none, a context
\* that moved or may not be used.
Impossible(s) ==
    \/ tmCall[s].op = "start" /\ (tmTimer # NoTimer \/ tmCall[s].stage = "sent")
    \/ tmCall[s].op \in {"stop", "cancel"} /\ tmCall[s].stage = "sent" /\ tmTimer = NoTimer
    \/ tmCall[s].op = "manual"

Refuse(s) ==
    /\ tmCall[s].stage \in {"sent", "checked"} /\ Impossible(s)
    /\ To(s, "refused", NoTimer) /\ Handled(s)
    /\ UNCHANGED tmServer

---------------------------------------------------------------------------
\* The answers.

\* A start shows the timer it was given, a stop or a cancel none.
TimerAnswered(s) ==
    /\ ~TimerIdle(s) /\ tmCall[s].stage = "done"
    /\ tmCall' = [tmCall EXCEPT ![s] = NoTimeCall]
    /\ tmShown' = IF tmCall[s].op = "manual" THEN tmShown
                  ELSE [tmShown EXCEPT ![s] =
                           [timer |-> Seen(tmCall[s].timer), fresh |-> TRUE]]
    /\ tmForm' = IF s = Workspace /\ tmCall[s].op \in {"start", "manual"}
                 THEN [tmForm EXCEPT !.panel = "none"] ELSE tmForm
    /\ UNCHANGED <<tmServer, tmOptions, tmLoaded, tmReads, tmAsked>>

\* A refusal, or a request or its answer lost: a control reads the timer again,
\* the workspace only says so.
Reloads(s) == s # Workspace

TimerFailed(s) ==
    /\ ~TimerIdle(s) /\ tmCall[s].stage \in {"sent", "done", "refused"}
    /\ IF Reloads(s)
       THEN /\ tmCall' = [tmCall EXCEPT ![s] = [@ EXCEPT !.stage = "reload"]]
            /\ tmReads' = tmReads \union {[screen |-> s, live |-> FALSE, answered |-> FALSE,
                                           value |-> Blank]}
       ELSE tmCall' = [tmCall EXCEPT ![s] = NoTimeCall] /\ UNCHANGED tmReads
    /\ UNCHANGED <<tmServer, tmOptions, tmShown, tmLoaded, tmForm, tmAsked>>

TimeNext ==
    \/ ItemsMove \/ OptionsRead \/ LiveRefresh \/ ChoosePanel \/ AddManualEntry
    \/ ManualStored
    \/ \E r \in tmReads : TimerRead(r) \/ ReadArrives(r) \/ ReadFails(r)
    \/ \E s \in TimeScreens :
          \/ StartTimer(s) \/ StopTimer(s) \/ CancelTimer(s)
          \/ StartChecks(s) \/ StartInserts(s) \/ StopLocks(s) \/ StopRecords(s)
          \/ StopRejected(s) \/ CancelDeletes(s) \/ Refuse(s) \/ TimerAnswered(s) \/ TimerFailed(s)

TimeSpec == TimeInit /\ [][TimeNext]_tmVars

\* The poll goes on while the tab is visible, and a read that is repeated for
\* ever is answered for ever.
LiveRead == \E r \in tmReads : r.live /\ TimerRead(r)
LiveArrives == \E r \in tmReads : r.live /\ ReadArrives(r)

TimeFairSpec == TimeSpec
    /\ WF_tmVars(LiveRefresh) /\ WF_tmVars(LiveRead) /\ SF_tmVars(LiveArrives)

---------------------------------------------------------------------------
\* Properties.

\* A timer leaves one entry or is cancelled, never both and never twice,
\* though several tabs stop and cancel it at once (select_for_update).
SettledOnce ==
    \A t \in Timers : tmRecorded[t] + (IF t \in tmCancelled THEN 1 ELSE 0)
                      = (IF t <= tmUsed /\ tmTimer.id # t THEN 1 ELSE 0)

\* Internal time is never billable, in the running timer, in the entry a stop
\* leaves or in one made by hand: though the controls ask for billable time,
\* the workspace's options may be old, and the item may have become internal
\* since the timer was started.
InternalNotBilled ==
    \A t \in {tmTimer} \union tmEntries : t.owner = "internal" => ~t.billable

\* A control whose request was refused, or whose answer was lost, shows no
\* state of the row older than the server's handling of it, once it is usable
\* again (and could read the timer).
RefusalTeaches ==
    \A s \in TimerControls : TimerIdle(s) => tmShown[s].fresh

\* The server settles every timer once and bills no internal time, and what it
\* refuses a tab is what the tab learns.
TimeIsSound == SettledOnce /\ InternalNotBilled /\ RefusalTeaches

\* The workspace comes to show the row and goes on showing it, whatever older
\* answers arrive and whatever other tabs did.
WorkspaceCatchesUp == <>[](Shows(Workspace) = Seen(tmTimer))
=============================================================================
