------------------------- MODULE TimeTracking_proofs -------------------------
(***************************************************************************)
(* Proofs about TimeTracking for any tabs, any targets and any number of   *)
(* requests.                                                               *)
(***************************************************************************)
EXTENDS TimeTracking, TLAPS

-----------------------------------------------------------------------------
(* Types.                                                                  *)

(* A start that has not been answered may still make a timer.              *)
StartDue(s) ==
  IF s \in TimeScreens /\ tmCall[s].op = "start" /\ tmCall[s].stage \in {"sent", "checked"}
    THEN 1 ELSE 0

(* Every timer had a request of its own, but for one that was left running, *)
(* so its number is within bounds.                                         *)
StartsCounted ==
  tmUsed + StartDue("workspace") + StartDue("task") + StartDue("ticket") <= tmAsked + 1

(* A request to start or to add carries what it is for, and a start that    *)
(* was checked the timer it is about to insert.                            *)
PayloadsSent ==
  \A s \in TimeScreens :
    /\ tmCall[s].op \in {"start", "manual"} => tmCall[s].payload \in Payload
    /\ tmCall[s].op = "start" /\ tmCall[s].stage = "checked" => tmCall[s].timer \in Timer

OptionsLoaded == Workspace \in tmLoaded => tmOptions # Unread

TimeTypes == TimeTypeOK /\ PayloadsSent /\ StartsCounted /\ OptionsLoaded

LEMMA ScreenNames == TimeScreens \subseteq {"workspace", "task", "ticket"}
  BY TimeBounds DEF TimeScreens, TimerControls, Workspace

LEMMA NoTimerTyped == NoTimeCall \in TimeCall /\ Blank \in ShownValue
  BY DEF NoTimeCall, TimeCall, Blank, ShownValue

LEMMA SeenTyped ==
  ASSUME NEW t \in Timer \union {NoTimer}
  PROVE  [timer |-> Seen(t), fresh |-> TRUE] \in ShownValue
  BY DEF Seen, NoneSeen, Timer, ShownValue

(* A handler that answers a screen's request.                              *)
LEMMA Sent ==
  ASSUME TimeTypes, NEW s \in TimeScreens, NEW t \in Timer \union {NoTimer},
         NEW stage \in {"sent", "checked", "done", "refused", "reload"}, To(s, stage, t),
         tmCall[s].op = "start" /\ stage = "checked" => t \in Timer
  PROVE  /\ tmCall' \in [TimeScreens -> TimeCall] /\ PayloadsSent'
         /\ tmCall'[s].op = tmCall[s].op /\ tmCall'[s].stage = stage
         /\ tmCall'[s].timer = t
         /\ \A x \in TimeScreens : x # s => tmCall'[x] = tmCall[x]
  BY DEF TimeTypes, TimeTypeOK, To, TimeCall, PayloadsSent

(* Handled(s) keeps the types of what is shown and read.                   *)
LEMMA HandledTyped ==
  ASSUME TimeTypes, NEW s \in TimeScreens, Handled(s)
  PROVE  tmShown' \in [TimeScreens -> ShownValue] /\ tmReads' \subseteq TimeRead
<1>1. tmShown' \in [TimeScreens -> ShownValue]
  <2>1. tmShown[s] \in ShownValue
    BY DEF TimeTypes, TimeTypeOK
  <2>2. [tmShown[s] EXCEPT !.fresh = (s = Workspace)] \in ShownValue
    BY <2>1 DEF ShownValue
  <2>3. QED
    BY <2>2 DEF TimeTypes, TimeTypeOK, Handled
<1>2. ASSUME NEW r \in tmReads PROVE [r EXCEPT !.value.fresh = FALSE] \in TimeRead
  <2>1. r \in TimeRead
    BY DEF TimeTypes, TimeTypeOK
  <2>2. [r.value EXCEPT !.fresh = FALSE] \in ShownValue
    BY <2>1 DEF TimeRead, ShownValue
  <2>3. QED
    BY <2>1, <2>2 DEF TimeRead
<1>3. tmReads' \subseteq TimeRead
  BY <1>2 DEF Handled, TimeTypes, TimeTypeOK
<1>4. QED
  BY <1>1, <1>3

(* A request of s that was answered, refused or ended, and none that began.  *)
LEMMA StartsStayCounted ==
  ASSUME StartsCounted, NEW s \in TimeScreens, tmUsed \in Nat, tmAsked \in Nat,
         UNCHANGED <<tmUsed, tmAsked>>,
         \A x \in TimeScreens : x # s => tmCall'[x] = tmCall[x],
         tmCall'[s].op = "start" /\ tmCall'[s].stage \in {"sent", "checked"} =>
             tmCall[s].op = "start" /\ tmCall[s].stage \in {"sent", "checked"}
  PROVE  StartsCounted'
<1>1. ASSUME NEW x \in {"workspace", "task", "ticket"}
      PROVE  StartDue(x)' <= StartDue(x) /\ StartDue(x)' \in {0, 1} /\ StartDue(x) \in {0, 1}
  BY DEF StartDue
<1>2. QED
  BY <1>1 DEF StartsCounted

(* A call that ended, or was told to read again, or was answered.          *)
LEMMA CallTyped ==
  ASSUME TimeTypes, NEW s \in TimeScreens,
         \/ tmCall' = [tmCall EXCEPT ![s] = NoTimeCall]
         \/ tmCall' = [tmCall EXCEPT ![s] = [@ EXCEPT !.stage = "reload"]]
         \/ UNCHANGED tmCall,
         UNCHANGED <<tmUsed, tmAsked>>
  PROVE  tmCall' \in [TimeScreens -> TimeCall] /\ PayloadsSent' /\ StartsCounted'
<1>1. tmCall' \in [TimeScreens -> TimeCall] /\ PayloadsSent'
  <2>1. tmCall \in [TimeScreens -> TimeCall] /\ PayloadsSent
    BY DEF TimeTypes, TimeTypeOK
  <2>2. \A c \in TimeCall : [c EXCEPT !.stage = "reload"] \in TimeCall
    BY DEF TimeCall
  <2>3. tmCall' \in [TimeScreens -> TimeCall]
    BY <2>1, <2>2, NoTimerTyped
  <2>4. \A x \in TimeScreens : \/ tmCall'[x].op = "none"
                               \/ /\ tmCall'[x].op = tmCall[x].op
                                  /\ tmCall'[x].payload = tmCall[x].payload
                                  /\ tmCall'[x].stage \in {tmCall[x].stage, "reload"}
                                  /\ tmCall'[x].timer = tmCall[x].timer
    BY <2>1 DEF NoTimeCall, TimeCall
  <2>5. QED
    BY <2>1, <2>3, <2>4 DEF PayloadsSent
<1>2. /\ \A x \in TimeScreens : x # s => tmCall'[x] = tmCall[x]
      /\ tmCall'[s].op = "start" /\ tmCall'[s].stage \in {"sent", "checked"} =>
             tmCall[s].op = "start" /\ tmCall[s].stage \in {"sent", "checked"}
  BY DEF TimeTypes, TimeTypeOK, TimeCall, NoTimeCall
<1>3. QED
  BY <1>1, <1>2, StartsStayCounted DEF TimeTypes, TimeTypeOK

(* Reading the timer. *)
LEMMA ReadsTyped ==
  ASSUME TimeTypes, NEW r \in tmReads, TimerRead(r) \/ ReadArrives(r) \/ ReadFails(r)
  PROVE  TimeTypes'
<1>0. r \in TimeRead /\ r.screen \in TimeScreens
  BY DEF TimeTypes, TimeTypeOK, TimeRead
<1>1. tmReads' \subseteq TimeRead
  <2>1. CASE TimerRead(r)
    <3>1. [timer |-> Seen(tmTimer), fresh |-> TRUE] \in ShownValue
      BY SeenTyped DEF TimeTypes, TimeTypeOK
    <3>2. [screen |-> r.screen, live |-> r.live, answered |-> TRUE,
           value |-> [timer |-> Seen(tmTimer), fresh |-> TRUE]] \in TimeRead
      BY <1>0, <3>1 DEF TimeRead
    <3>3. QED
      BY <2>1, <3>2 DEF TimeTypes, TimeTypeOK, TimerRead
  <2>2. CASE ReadArrives(r)
    BY <2>2 DEF TimeTypes, TimeTypeOK, ReadArrives
  <2>3. CASE ReadFails(r)
    <3>1. [screen |-> r.screen, live |-> FALSE, answered |-> FALSE, value |-> Blank] \in TimeRead
      BY <1>0, NoTimerTyped DEF TimeRead
    <3>2. QED
      BY <2>3, <3>1 DEF TimeTypes, TimeTypeOK, ReadFails
  <2>4. QED
    BY <2>1, <2>2, <2>3
<1>2. tmShown' \in [TimeScreens -> ShownValue] /\ tmLoaded' \subseteq TimeScreens
  <2>1. CASE TimerRead(r)
    BY <2>1 DEF TimeTypes, TimeTypeOK, TimerRead
  <2>2. CASE ReadArrives(r)
    BY <1>0, <2>2 DEF TimeTypes, TimeTypeOK, ReadArrives, TimeRead
  <2>3. CASE ReadFails(r)
    BY <1>0, <2>3 DEF TimeTypes, TimeTypeOK, ReadFails, ShownValue
  <2>4. QED
    BY <2>1, <2>2, <2>3
<1>3. tmCall' \in [TimeScreens -> TimeCall] /\ PayloadsSent' /\ StartsCounted'
  <2>1. \/ tmCall' = [tmCall EXCEPT ![r.screen] = NoTimeCall]
        \/ UNCHANGED tmCall
    BY DEF TimerRead, ReadArrives, ReadFails, AfterRead, TimeTypes, TimeTypeOK
  <2>2. UNCHANGED <<tmUsed, tmAsked>>
    BY DEF TimerRead, ReadArrives, ReadFails, tmServer
  <2>3. QED
    BY <1>0, <2>1, <2>2, CallTyped
<1>4. UNCHANGED <<tmServer, tmOptions, tmForm, tmAsked>>
  BY DEF TimerRead, ReadArrives, ReadFails
<1>5. OptionsLoaded'
  BY <1>0, <1>4 DEF TimeTypes, OptionsLoaded, TimerRead, ReadArrives, ReadFails
<1>6. QED
  BY <1>1, <1>2, <1>3, <1>4, <1>5 DEF TimeTypes, TimeTypeOK, tmServer

(* What a screen asks. *)
LEMMA AsksTyped ==
  ASSUME TimeTypes, NEW s \in TimeScreens, NEW op \in {"start", "stop", "cancel", "manual"},
         NEW payload \in Payload \union {NoPayload}, op \in {"start", "manual"} => payload \in Payload,
         Asks(s, op, payload)
  PROVE  TimeTypes'
<1>1. tmCall' \in [TimeScreens -> TimeCall] /\ PayloadsSent'
  BY DEF TimeTypes, TimeTypeOK, Asks, TimeCall, PayloadsSent
<1>2. StartsCounted'
  <2>1. /\ tmCall[s].op = "none" /\ tmAsked' = tmAsked + 1 /\ UNCHANGED tmUsed
        /\ \A x \in TimeScreens : x # s => tmCall'[x] = tmCall[x]
    BY DEF Asks, TimerIdle, TimeTypes, TimeTypeOK, tmServer
  <2>2. ASSUME NEW x \in {"workspace", "task", "ticket"}
        PROVE  /\ StartDue(x) \in {0, 1} /\ StartDue(x)' \in {0, 1}
               /\ x # s => StartDue(x)' = StartDue(x)
               /\ x = s => StartDue(x) = 0
    BY <2>1 DEF StartDue
  <2>3. QED
    BY <2>1, <2>2, ScreenNames DEF TimeTypes, TimeTypeOK, StartsCounted
<1>3. QED
  <2>1. tmAsked' \in 0..MaxTimeRequests
    BY TimeBounds DEF Asks, TimeTypes, TimeTypeOK
  <2>2. UNCHANGED <<tmServer, tmOptions, tmShown, tmLoaded, tmReads, tmForm>>
    BY DEF Asks
  <2>3. QED
    BY <1>1, <1>2, <2>1, <2>2 DEF TimeTypes, TimeTypeOK, OptionsLoaded, tmServer

LEMMA PayloadTyped ==
  ASSUME TimeTypes, NEW s \in TimeScreens, NEW billable \in BOOLEAN, s \in tmLoaded
  PROVE  PayloadOf(s, billable) \in Payload
<1>1. tmForm.target \in Targets /\ (s = Workspace => tmOptions \in WorkItems)
  BY DEF TimeTypes, TimeTypeOK, OptionsLoaded
<1>2. s = Workspace => ProjectOf(tmOptions, tmForm.target) \in TaskProjects
  BY <1>1, TimeBounds DEF ProjectOf, TaskProjects
<1>3. ContextPayload(tmForm.target, billable).billable \in BOOLEAN
  BY DEF ContextPayload
<1>4. QED
  BY <1>1, <1>2, <1>3, ScreenNames
  DEF PayloadOf, TaskPayload, TicketPayload, ContextPayload, Payload, WorkTargets, TaskProjects,
      TimerControls, TimeScreens, Workspace

(* The timer and the entry that a request or a timer stands for.           *)
LEMMA ResolvedTyped ==
  ASSUME TimeTypes, NEW p \in Payload, tmUsed + 1 \in Timers
  PROVE  Resolved(p) \in Timer
<1>1. tmItem.owner \in TimeOwners /\ tmItem.project \in TaskProjects
  BY TimeBounds DEF TimeTypes, TimeTypeOK
<1>2. OwnerOf(tmItem, p.target) \in TimeOwners /\ ProjectOf(tmItem, p.target) \in TaskProjects
  BY <1>1 DEF OwnerOf, ProjectOf, TimeOwners, TaskProjects
<1>3. Billed(OwnerOf(tmItem, p.target), p.billable) \in BOOLEAN
  BY DEF Billed, Payload
<1>4. QED
  BY <1>2, <1>3 DEF Resolved, Timer, Payload

LEMMA EntryTyped ==
  ASSUME TimeTypes, NEW x \in Payload \union Timer \union {NoTimer}
  PROVE  EntryOf(x) \in Entry
<1>1. tmItem.owner \in TimeOwners
  BY TimeBounds DEF TimeTypes, TimeTypeOK
<1>2. OwnerOf(tmItem, x.target) \in TimeOwners
  BY <1>1 DEF OwnerOf, TimeOwners
<1>3. Billed(OwnerOf(tmItem, x.target), x.billable) \in BOOLEAN
  BY DEF Billed, Payload, Timer, NoTimer
<1>4. QED
  BY <1>2, <1>3 DEF EntryOf, Entry

(* A start that is being handled still has its timer to make.              *)
LEMMA StartHasNumber ==
  ASSUME TimeTypes, NEW s \in TimeScreens, tmCall[s].op = "start",
         tmCall[s].stage \in {"sent", "checked"}
  PROVE  tmUsed <= tmAsked /\ tmUsed + 1 \in Timers
<1>1. StartDue(s) = 1
  BY DEF StartDue
<1>2. \A x \in {"workspace", "task", "ticket"} : StartDue(x) \in {0, 1}
  BY DEF StartDue
<1>3. tmUsed <= tmAsked
  BY <1>1, <1>2, ScreenNames DEF TimeTypes, TimeTypeOK, StartsCounted
<1>4. QED
  BY <1>3, TimeBounds DEF TimeTypes, TimeTypeOK, Timers

(* A start that found no timer now carries the one it is about to insert.    *)
LEMMA StartChecked ==
  ASSUME TimeTypes, NEW s \in TimeScreens, StartChecks(s)
  PROVE  /\ tmCall[s].payload \in Payload /\ Resolved(tmCall[s].payload) \in Timer
         /\ tmCall' \in [TimeScreens -> TimeCall] /\ PayloadsSent'
         /\ tmCall'[s].op = "start" /\ tmCall'[s].timer = Resolved(tmCall[s].payload)
         /\ \A x \in TimeScreens : x # s => tmCall'[x] = tmCall[x]
<1> DEFINE t == Resolved(tmCall[s].payload)
<1>1. tmCall[s].op = "start" /\ tmCall[s].stage = "sent" /\ To(s, "checked", t)
  BY DEF StartChecks, Reached
<1>2. tmCall[s].payload \in Payload
  BY <1>1 DEF TimeTypes, PayloadsSent
<1>3. t \in Timer
  BY <1>1, <1>2, StartHasNumber, ResolvedTyped
<1> HIDE DEF t
<1>4. /\ tmCall' \in [TimeScreens -> TimeCall] /\ PayloadsSent'
      /\ tmCall'[s].op = "start" /\ tmCall'[s].timer = t
      /\ \A x \in TimeScreens : x # s => tmCall'[x] = tmCall[x]
  BY <1>1, <1>3, Sent
<1>5. QED
  BY <1>2, <1>3, <1>4 DEF t

(* What the server does. *)
LEMMA ServerTyped ==
  ASSUME TimeTypes, NEW s \in TimeScreens,
         \/ StartChecks(s) \/ StartInserts(s) \/ StopLocks(s) \/ StopRecords(s)
         \/ StopRejected(s) \/ CancelDeletes(s) \/ Refuse(s)
  PROVE  TimeTypes'
<1>1. CASE StartChecks(s)
  <2>1. /\ UNCHANGED <<tmServer, tmShown, tmReads, tmOptions, tmLoaded, tmForm, tmAsked>>
        /\ tmCall[s].op = "start" /\ tmCall[s].stage = "sent"
    BY <1>1 DEF StartChecks, To, Reached
  <2>2. StartsCounted'
    BY <1>1, <2>1, StartChecked, StartsStayCounted DEF TimeTypes, TimeTypeOK, tmServer
  <2>3. QED
    BY <1>1, <2>1, <2>2, StartChecked DEF TimeTypes, TimeTypeOK, OptionsLoaded, tmServer
<1>2. CASE StartInserts(s)
  <2>1. /\ To(s, "done", tmTimer') /\ tmUsed' = tmUsed + 1 /\ tmTimer = NoTimer
        /\ tmCall[s].op = "start" /\ tmCall[s].stage = "checked"
        /\ UNCHANGED <<tmItem, tmLocked, tmRecorded, tmCancelled, tmEntries>>
    BY <1>2 DEF StartInserts, Reached, RowFree
  <2>2. StartDue(s) = 1 /\ tmUsed <= tmAsked
    BY <2>1, StartHasNumber DEF StartDue
  <2>3. tmUsed' \in 0..(MaxTimeRequests + 1) /\ tmUsed + 1 \in Timers
    BY <2>1, StartHasNumber DEF TimeTypes, TimeTypeOK, Timers
  <2>4. tmTimer' \in Timer
    <3>1. tmCall[s].timer \in Timer
      BY <2>1 DEF TimeTypes, PayloadsSent
    <3>2. QED
      BY <1>2, <2>3, <3>1 DEF StartInserts, Timer
  <2>5. /\ tmCall' \in [TimeScreens -> TimeCall] /\ PayloadsSent' /\ tmCall'[s].stage = "done"
        /\ \A x \in TimeScreens : x # s => tmCall'[x] = tmCall[x]
    BY <2>1, <2>4, Sent
  <2>6. StartsCounted'
    <3>1. ASSUME NEW x \in {"workspace", "task", "ticket"}
          PROVE  /\ StartDue(x) \in {0, 1} /\ StartDue(x)' \in {0, 1}
                 /\ x # s => StartDue(x)' = StartDue(x)
                 /\ x = s => StartDue(x)' = 0
      BY <2>5 DEF StartDue
    <3>2. UNCHANGED tmAsked
      BY <2>1 DEF To
    <3>3. QED
      BY <2>1, <2>2, <3>1, <3>2, ScreenNames DEF TimeTypes, TimeTypeOK, StartsCounted
  <2>7. tmShown' \in [TimeScreens -> ShownValue] /\ tmReads' \subseteq TimeRead
    BY <1>2, HandledTyped DEF StartInserts
  <2>8. QED
    BY <2>1, <2>3, <2>4, <2>5, <2>6, <2>7 DEF TimeTypes, TimeTypeOK, OptionsLoaded, To
<1>3. CASE StopLocks(s)
  <2>1. /\ To(s, "checked", tmTimer) /\ tmLocked' = s /\ tmCall[s].op = "stop"
        /\ UNCHANGED <<tmItem, tmTimer, tmUsed, tmRecorded, tmCancelled, tmEntries, tmShown,
                       tmReads>>
    BY <1>3 DEF StopLocks, Reached
  <2>2. tmTimer \in Timer \union {NoTimer}
    BY DEF TimeTypes, TimeTypeOK
  <2>3. /\ tmCall' \in [TimeScreens -> TimeCall] /\ PayloadsSent' /\ tmCall'[s].op = "stop"
        /\ \A x \in TimeScreens : x # s => tmCall'[x] = tmCall[x]
    BY <2>1, <2>2, Sent
  <2>4. StartsCounted'
    BY <2>1, <2>3, StartsStayCounted DEF TimeTypes, TimeTypeOK, To
  <2>5. QED
    BY <2>1, <2>3, <2>4 DEF TimeTypes, TimeTypeOK, OptionsLoaded, To
<1>4. CASE StopRecords(s)
  <2>1. /\ To(s, "done", NoTimer) /\ Handled(s) /\ tmCall[s].op = "stop"
        /\ tmLocked' \in {"nobody", tmLocked} /\ tmTimer' \in {NoTimer, tmTimer}
        /\ tmRecorded' = [tmRecorded EXCEPT ![tmCall[s].timer.id] = @ + 1]
        /\ tmEntries' = tmEntries \union {EntryOf(tmCall[s].timer)}
        /\ UNCHANGED <<tmItem, tmUsed, tmCancelled>>
    BY <1>4 DEF StopRecords, Reached, Unlocked
  <2>2. /\ tmCall' \in [TimeScreens -> TimeCall] /\ PayloadsSent' /\ tmCall'[s].op = "stop"
        /\ \A x \in TimeScreens : x # s => tmCall'[x] = tmCall[x]
    BY <2>1, Sent
  <2>3. StartsCounted'
    BY <2>1, <2>2, StartsStayCounted DEF TimeTypes, TimeTypeOK, To
  <2>4. tmRecorded' \in [Timers -> Nat]
    <3>1. ASSUME NEW f \in [Timers -> Nat], NEW t PROVE [f EXCEPT ![t] = @ + 1] \in [Timers -> Nat]
      <4>1. ASSUME NEW x \in Timers PROVE [f EXCEPT ![t] = @ + 1][x] \in Nat
        <5>1. CASE x = t
          BY <5>1
        <5>2. CASE x # t
          BY <5>2
        <5>3. QED
          BY <5>1, <5>2
      <4>2. QED
        BY <4>1
    <3>2. QED
      BY <2>1, <3>1 DEF TimeTypes, TimeTypeOK
  <2>5. tmShown' \in [TimeScreens -> ShownValue] /\ tmReads' \subseteq TimeRead
    BY <2>1, HandledTyped
  <2>6. EntryOf(tmCall[s].timer) \in Entry
    <3>1. tmCall[s].timer \in Timer \union {NoTimer}
      BY DEF TimeTypes, TimeTypeOK, TimeCall
    <3>2. QED
      BY <3>1, EntryTyped
  <2>7. QED
    BY <2>1, <2>2, <2>3, <2>4, <2>5, <2>6 DEF TimeTypes, TimeTypeOK, OptionsLoaded, To
<1>8. CASE StopRejected(s)
  <2>1. /\ To(s, "refused", NoTimer) /\ Handled(s) /\ tmCall[s].op = "stop"
        /\ tmLocked' \in {"nobody", tmLocked}
        /\ UNCHANGED <<tmItem, tmTimer, tmUsed, tmRecorded, tmCancelled, tmEntries>>
    BY <1>8 DEF StopRejected, Reached, Unlocked
  <2>2. /\ tmCall' \in [TimeScreens -> TimeCall] /\ PayloadsSent' /\ tmCall'[s].op = "stop"
        /\ \A x \in TimeScreens : x # s => tmCall'[x] = tmCall[x]
    BY <2>1, Sent
  <2>3. StartsCounted'
    BY <2>1, <2>2, StartsStayCounted DEF TimeTypes, TimeTypeOK, To
  <2>4. tmShown' \in [TimeScreens -> ShownValue] /\ tmReads' \subseteq TimeRead
    BY <2>1, HandledTyped
  <2>5. QED
    BY <2>1, <2>2, <2>3, <2>4 DEF TimeTypes, TimeTypeOK, OptionsLoaded, To
<1>5. CASE CancelDeletes(s)
  <2>1. /\ To(s, "done", NoTimer) /\ Handled(s) /\ tmCall[s].op = "cancel"
        /\ tmCancelled' = tmCancelled \union {tmTimer.id} /\ tmTimer' = NoTimer
        /\ tmTimer # NoTimer
        /\ UNCHANGED <<tmItem, tmUsed, tmLocked, tmRecorded, tmEntries>>
    BY <1>5 DEF CancelDeletes, Reached
  <2>2. /\ tmCall' \in [TimeScreens -> TimeCall] /\ PayloadsSent' /\ tmCall'[s].op = "cancel"
        /\ \A x \in TimeScreens : x # s => tmCall'[x] = tmCall[x]
    BY <2>1, Sent
  <2>3. StartsCounted'
    BY <2>1, <2>2, StartsStayCounted DEF TimeTypes, TimeTypeOK, To
  <2>4. tmCancelled' \subseteq Timers
    BY <2>1 DEF TimeTypes, TimeTypeOK, Timer
  <2>5. tmShown' \in [TimeScreens -> ShownValue] /\ tmReads' \subseteq TimeRead
    BY <2>1, HandledTyped
  <2>6. QED
    BY <2>1, <2>2, <2>3, <2>4, <2>5 DEF TimeTypes, TimeTypeOK, OptionsLoaded, To
<1>6. CASE Refuse(s)
  <2>1. To(s, "refused", NoTimer) /\ Handled(s) /\ UNCHANGED tmServer
    BY <1>6 DEF Refuse
  <2>2. /\ tmCall' \in [TimeScreens -> TimeCall] /\ PayloadsSent' /\ tmCall'[s].stage = "refused"
        /\ \A x \in TimeScreens : x # s => tmCall'[x] = tmCall[x]
    BY <2>1, Sent
  <2>3. StartsCounted'
    BY <2>1, <2>2, StartsStayCounted DEF TimeTypes, TimeTypeOK, To, tmServer
  <2>4. tmShown' \in [TimeScreens -> ShownValue] /\ tmReads' \subseteq TimeRead
    BY <2>1, HandledTyped
  <2>5. QED
    BY <2>1, <2>2, <2>3, <2>4 DEF TimeTypes, TimeTypeOK, OptionsLoaded, To, tmServer
<1>7. QED
  BY <1>1, <1>2, <1>3, <1>4, <1>5, <1>6, <1>8

LEMMA ManualTyped == TimeTypes /\ ManualStored => TimeTypes'
<1> SUFFICES ASSUME TimeTypes, ManualStored PROVE TimeTypes'
  OBVIOUS
<1>0. Workspace \in TimeScreens
  BY DEF TimeScreens
<1>1. /\ To(Workspace, "done", NoTimer) /\ tmCall[Workspace].op = "manual"
      /\ UNCHANGED <<tmItem, tmTimer, tmUsed, tmLocked, tmRecorded, tmCancelled, tmShown, tmReads>>
  BY DEF ManualStored, Reached
<1>2. /\ tmCall' \in [TimeScreens -> TimeCall] /\ PayloadsSent'
      /\ tmCall'[Workspace].stage = "done"
      /\ \A x \in TimeScreens : x # Workspace => tmCall'[x] = tmCall[x]
  BY <1>0, <1>1, Sent
<1>3. StartsCounted'
  BY <1>0, <1>1, <1>2, StartsStayCounted DEF TimeTypes, TimeTypeOK, To
<1>4. tmEntries' \subseteq Entry
  <2>1. tmCall[Workspace].payload \in Payload
    BY <1>0, <1>1 DEF TimeTypes, PayloadsSent
  <2>2. QED
    BY <2>1, EntryTyped DEF ManualStored, TimeTypes, TimeTypeOK
<1>5. QED
  BY <1>1, <1>2, <1>3, <1>4 DEF TimeTypes, TimeTypeOK, OptionsLoaded, To

(* The answers. *)
LEMMA AnswersTyped ==
  ASSUME TimeTypes, NEW s \in TimeScreens, TimerAnswered(s) \/ TimerFailed(s)
  PROVE  TimeTypes'
<1>1. tmCall' \in [TimeScreens -> TimeCall] /\ PayloadsSent' /\ StartsCounted'
  <2>1. UNCHANGED <<tmUsed, tmAsked>>
    BY DEF TimerAnswered, TimerFailed, tmServer
  <2>2. \/ tmCall' = [tmCall EXCEPT ![s] = NoTimeCall]
        \/ tmCall' = [tmCall EXCEPT ![s] = [@ EXCEPT !.stage = "reload"]]
    BY DEF TimerAnswered, TimerFailed
  <2>3. QED
    BY <2>1, <2>2, CallTyped
<1>2. tmShown' \in [TimeScreens -> ShownValue]
  <2>1. [timer |-> Seen(tmCall[s].timer), fresh |-> TRUE] \in ShownValue
    BY SeenTyped DEF TimeTypes, TimeTypeOK, TimeCall
  <2>2. QED
    BY <2>1 DEF TimerAnswered, TimerFailed, TimeTypes, TimeTypeOK
<1>3. tmReads' \subseteq TimeRead
  <2>1. [screen |-> s, live |-> FALSE, answered |-> FALSE, value |-> Blank] \in TimeRead
    BY NoTimerTyped DEF TimeRead
  <2>2. QED
    BY <2>1 DEF TimerAnswered, TimerFailed, TimeTypes, TimeTypeOK
<1>4. tmForm' \in [panel : Panels, target : Targets]
  BY DEF TimerAnswered, TimerFailed, TimeTypes, TimeTypeOK, Panels
<1>5. UNCHANGED <<tmServer, tmOptions, tmLoaded, tmAsked>>
  BY DEF TimerAnswered, TimerFailed
<1>6. QED
  BY <1>1, <1>2, <1>3, <1>4, <1>5 DEF TimeTypes, TimeTypeOK, OptionsLoaded, tmServer

LEMMA TypesStep == TimeTypes /\ [TimeNext]_tmVars => TimeTypes'
<1> SUFFICES ASSUME TimeTypes, [TimeNext]_tmVars PROVE TimeTypes'
  OBVIOUS
<1>1. ASSUME UNCHANGED <<tmCall, tmUsed, tmAsked>> PROVE PayloadsSent' /\ StartsCounted'
  BY <1>1 DEF TimeTypes, PayloadsSent, StartsCounted, StartDue
<1>2. CASE UNCHANGED tmVars
  BY <1>1, <1>2 DEF TimeTypes, TimeTypeOK, OptionsLoaded, tmVars, tmServer, tmScreens
<1>3. CASE ItemsMove
  BY <1>1, <1>3 DEF TimeTypes, TimeTypeOK, OptionsLoaded, ItemsMove, tmScreens
<1>4. CASE OptionsRead
  BY <1>1, <1>4 DEF TimeTypes, TimeTypeOK, OptionsLoaded, OptionsRead, tmServer, TimeOwners
<1>5. CASE LiveRefresh
  <2>1. [screen |-> Workspace, live |-> TRUE, answered |-> FALSE, value |-> Blank] \in TimeRead
    BY NoTimerTyped DEF TimeRead, TimeScreens
  <2>2. QED
    BY <1>1, <1>5, <2>1 DEF TimeTypes, TimeTypeOK, OptionsLoaded, LiveRefresh, tmServer
<1>6. CASE ChoosePanel
  BY <1>1, <1>6 DEF TimeTypes, TimeTypeOK, OptionsLoaded, ChoosePanel, tmServer, Panels
<1>7. CASE AddManualEntry
  <2>1. PICK billable \in BOOLEAN : Asks(Workspace, "manual", PayloadOf(Workspace, billable))
    BY <1>7 DEF AddManualEntry
  <2>2. Workspace \in TimeScreens /\ Workspace \in tmLoaded
    BY <2>1 DEF Asks, TimeScreens
  <2>3. QED
    BY <2>1, <2>2, PayloadTyped, AsksTyped
<1>8. ASSUME NEW s \in TimeScreens, StartTimer(s) \/ StopTimer(s) \/ CancelTimer(s)
      PROVE  TimeTypes'
  <2>1. CASE StartTimer(s)
    <3>1. PICK billable \in BOOLEAN : Asks(s, "start", PayloadOf(s, billable))
      BY <2>1 DEF StartTimer
    <3>2. QED
      BY <3>1, PayloadTyped, AsksTyped DEF Asks
  <2>2. CASE StopTimer(s)
    BY <2>2, AsksTyped DEF StopTimer
  <2>3. CASE CancelTimer(s)
    BY <2>3, AsksTyped DEF CancelTimer
  <2>4. QED
    BY <1>8, <2>1, <2>2, <2>3
<1>9. QED
  BY <1>2, <1>3, <1>4, <1>5, <1>6, <1>7, <1>8, ManualTyped, ReadsTyped, ServerTyped,
     AnswersTyped DEF TimeNext

LEMMA TypesInit == TimeInit => TimeTypes
<1> SUFFICES ASSUME TimeInit PROVE TimeTypes
  OBVIOUS
<1>1. tmReads \subseteq TimeRead
  <2>1. PICK open \in Tabs : tmReads = FirstReads(open)
    BY DEF TimeInit
  <2>2. open \union {Workspace} \subseteq TimeScreens
    BY DEF TimeScreens, TimerControls
  <2>3. ASSUME NEW s \in TimeScreens
        PROVE  [screen |-> s, live |-> FALSE, answered |-> FALSE, value |-> Blank] \in TimeRead
    BY NoTimerTyped DEF TimeRead
  <2>4. QED
    BY <2>1, <2>2, <2>3 DEF FirstReads
<1>2. tmTimer \in Timer \union {NoTimer} /\ tmUsed = tmTimer.id /\ tmUsed \in {0, 1}
  BY LeftRunningAssumption DEF TimeInit, NoTimer
<1>3. PayloadsSent /\ StartsCounted /\ OptionsLoaded
  BY <1>2 DEF TimeInit, PayloadsSent, StartsCounted, StartDue, OptionsLoaded, NoTimeCall
<1>4. QED
  BY <1>1, <1>2, <1>3, TimeBounds, NoTimerTyped
  DEF TimeInit, TimeTypes, TimeTypeOK, TimeOwners, Panels, Timers

(* The row, the screens and their requests keep their types: no more timers *)
(* are numbered than starts were asked for.                                 *)
THEOREM TimeTypeCorrect == TimeSpec => []TimeTypeOK
<1>1. TimeTypes => TimeTypeOK
  BY DEF TimeTypes
<1>2. QED
  BY <1>1, TypesInit, TypesStep, PTL DEF TimeSpec

-----------------------------------------------------------------------------
(* Each timer is settled once.                                             *)

(* A stop that has locked the row holds it, and the row is its timer.      *)
StopHoldsRow ==
  \A s \in TimeScreens : Reached(s, "stop", "checked") =>
    tmLocked = s /\ tmTimer # NoTimer /\ tmCall[s].timer = tmTimer

(* The timers started so far are numbered from 1.                          *)
TimersCounted == tmTimer = NoTimer \/ tmTimer.id \in 1..tmUsed

SettledInv == StopHoldsRow /\ TimersCounted /\ SettledOnce

LEMMA ScreensAreSomebody == "nobody" \notin TimeScreens
  BY ScreenNames

LEMMA SettledInit == TimeInit => SettledInv
  BY TimeBounds, LeftRunningAssumption
  DEF TimeInit, SettledInv, StopHoldsRow, TimersCounted, SettledOnce, Timers, Reached,
      NoTimeCall, NoTimer

(* Steps that leave the row alone and send no stop to it.                  *)
LEMMA RowAlone ==
  ASSUME SettledInv, UNCHANGED <<tmTimer, tmUsed, tmLocked, tmRecorded, tmCancelled>>,
         \A s \in TimeScreens : Reached(s, "stop", "checked")' =>
             Reached(s, "stop", "checked") /\ tmCall'[s].timer = tmCall[s].timer
  PROVE  SettledInv'
  BY DEF SettledInv, StopHoldsRow, TimersCounted, SettledOnce

(* One screen's request changes, to none or to one that is not such a stop. *)
LEMMA OneCall ==
  ASSUME TimeTypes, SettledInv, NEW s \in TimeScreens, NEW c,
         UNCHANGED <<tmTimer, tmUsed, tmLocked, tmRecorded, tmCancelled>>,
         tmCall' = [tmCall EXCEPT ![s] = c], c.op # "stop" \/ c.stage # "checked"
  PROVE  SettledInv'
<1>1. \A x \in TimeScreens : tmCall'[x] = IF x = s THEN c ELSE tmCall[x]
  BY DEF TimeTypes, TimeTypeOK
<1>2. QED
  BY <1>1, RowAlone DEF Reached

LEMMA ServerSettles ==
  ASSUME TimeTypes, SettledInv, NEW s \in TimeScreens,
         \/ StartChecks(s) \/ StartInserts(s) \/ StopLocks(s) \/ StopRecords(s)
         \/ StopRejected(s) \/ CancelDeletes(s) \/ Refuse(s)
  PROVE  SettledInv'
<1> USE DEF TimeTypes, TimeTypeOK
<1>1. CASE StartChecks(s)
  <2>1. UNCHANGED tmServer
    BY <1>1 DEF StartChecks
  <2>2. tmCall'[s].op = "start" /\ \A x \in TimeScreens : x # s => tmCall'[x] = tmCall[x]
    BY <1>1, StartChecked
  <2>3. QED
    BY <2>1, <2>2, RowAlone DEF Reached, tmServer
<1>2. CASE StartInserts(s)
  <2>1. /\ tmTimer = NoTimer /\ tmUsed' = tmUsed + 1 /\ tmTimer'.id = tmUsed + 1
        /\ UNCHANGED <<tmLocked, tmRecorded, tmCancelled>> /\ To(s, "done", tmTimer')
        /\ tmCall[s].op = "start"
    BY <1>2 DEF StartInserts, RowFree, Reached
  <2>2. tmTimer' \in Timer \union {NoTimer}
    BY <1>2, ServerTyped
  <2>3. tmCall'[s].stage = "done" /\ \A x \in TimeScreens : x # s => tmCall'[x] = tmCall[x]
    BY <2>1, <2>2, Sent
  <2>4. StopHoldsRow'
    BY <2>1, <2>3 DEF SettledInv, StopHoldsRow, Reached
  <2>5. TimersCounted'
    BY <2>1 DEF TimersCounted
  <2>6. SettledOnce'
    BY <2>1 DEF SettledInv, SettledOnce, Timers, NoTimer
  <2>7. QED
    BY <2>4, <2>5, <2>6 DEF SettledInv
<1>3. CASE StopLocks(s)
  <2>1. /\ tmTimer # NoTimer /\ tmLocked = "nobody" /\ tmLocked' = s
        /\ UNCHANGED <<tmTimer, tmUsed, tmRecorded, tmCancelled>> /\ To(s, "checked", tmTimer)
        /\ tmCall[s].op = "stop"
    BY <1>3 DEF StopLocks, RowTaken, Reached
  <2>2. tmCall'[s].timer = tmTimer /\ \A x \in TimeScreens : x # s => tmCall'[x] = tmCall[x]
    BY <2>1, Sent
  <2>3. StopHoldsRow'
    BY <2>1, <2>2, ScreensAreSomebody DEF SettledInv, StopHoldsRow, Reached
  <2>4. QED
    BY <2>1, <2>3 DEF SettledInv, TimersCounted, SettledOnce
<1>4. CASE StopRecords(s)
  <2>1. /\ Reached(s, "stop", "checked") /\ To(s, "done", NoTimer)
        /\ tmRecorded' = [tmRecorded EXCEPT ![tmCall[s].timer.id] = @ + 1]
        /\ tmTimer' = IF tmTimer = tmCall[s].timer THEN NoTimer ELSE tmTimer
        /\ UNCHANGED <<tmUsed, tmCancelled>>
    BY <1>4 DEF StopRecords
  <2>2. /\ tmLocked = s /\ tmCall[s].timer = tmTimer /\ tmTimer.id \in 1..tmUsed
        /\ tmTimer' = NoTimer
    BY <2>1 DEF SettledInv, StopHoldsRow, TimersCounted
  <2>3. tmCall'[s].stage = "done" /\ \A x \in TimeScreens : x # s => tmCall'[x] = tmCall[x]
    BY <2>1, Sent
  <2>4. StopHoldsRow'
    BY <2>2, <2>3 DEF SettledInv, StopHoldsRow, Reached
  <2>5. TimersCounted'
    BY <2>2 DEF TimersCounted
  <2>6. SettledOnce'
    BY <2>1, <2>2 DEF SettledInv, SettledOnce, Timers, NoTimer
  <2>7. QED
    BY <2>4, <2>5, <2>6 DEF SettledInv
<1>5. CASE CancelDeletes(s)
  <2>1. /\ tmTimer # NoTimer /\ tmLocked = "nobody" /\ tmTimer' = NoTimer
        /\ tmCancelled' = tmCancelled \union {tmTimer.id} /\ To(s, "done", NoTimer)
        /\ UNCHANGED <<tmUsed, tmLocked, tmRecorded>>
    BY <1>5 DEF CancelDeletes, RowTaken
  <2>2. tmCall'[s].stage = "done" /\ \A x \in TimeScreens : x # s => tmCall'[x] = tmCall[x]
    BY <2>1, Sent
  <2>3. StopHoldsRow'
    BY <2>1, <2>2, ScreensAreSomebody DEF SettledInv, StopHoldsRow, Reached
  <2>4. TimersCounted'
    BY <2>1 DEF TimersCounted
  <2>5. SettledOnce'
    BY <2>1 DEF SettledInv, TimersCounted, SettledOnce, Timers, NoTimer
  <2>6. QED
    BY <2>3, <2>4, <2>5 DEF SettledInv
<1>6. CASE Refuse(s)
  <2>1. To(s, "refused", NoTimer) /\ UNCHANGED tmServer
    BY <1>6 DEF Refuse
  <2>2. tmCall'[s].stage = "refused" /\ \A x \in TimeScreens : x # s => tmCall'[x] = tmCall[x]
    BY <2>1, Sent
  <2>3. QED
    BY <2>1, <2>2, RowAlone DEF Reached, tmServer
<1>7. CASE StopRejected(s)
  <2>1. /\ Reached(s, "stop", "checked") /\ To(s, "refused", NoTimer) /\ Unlocked(s)
        /\ UNCHANGED <<tmTimer, tmUsed, tmRecorded, tmCancelled>>
    BY <1>7 DEF StopRejected
  <2>2. tmLocked = s
    BY <2>1 DEF SettledInv, StopHoldsRow
  <2>3. tmCall'[s].stage = "refused" /\ \A x \in TimeScreens : x # s => tmCall'[x] = tmCall[x]
    BY <2>1, Sent DEF Reached
  <2>4. StopHoldsRow'
    BY <2>2, <2>3 DEF SettledInv, StopHoldsRow, Reached
  <2>5. QED
    BY <2>1, <2>4 DEF SettledInv, TimersCounted, SettledOnce
<1>8. QED
  BY <1>1, <1>2, <1>3, <1>4, <1>5, <1>6, <1>7

LEMMA ScreensSettle ==
  ASSUME TimeTypes, SettledInv,
         \/ OptionsRead \/ LiveRefresh \/ ChoosePanel \/ AddManualEntry
         \/ \E r \in tmReads : TimerRead(r) \/ ReadArrives(r) \/ ReadFails(r)
         \/ \E s \in TimeScreens : \/ StartTimer(s) \/ StopTimer(s) \/ CancelTimer(s)
                                   \/ TimerAnswered(s) \/ TimerFailed(s)
  PROVE  SettledInv'
<1>1. UNCHANGED tmServer
  BY DEF OptionsRead, LiveRefresh, ChoosePanel, AddManualEntry, TimerRead, ReadArrives, ReadFails,
     StartTimer, StopTimer, CancelTimer, Asks, TimerAnswered, TimerFailed
<1>2. CASE OptionsRead \/ LiveRefresh \/ ChoosePanel \/ \E r \in tmReads : TimerRead(r)
  <2>1. UNCHANGED tmCall
    BY <1>2 DEF OptionsRead, LiveRefresh, ChoosePanel, TimerRead
  <2>2. QED
    BY <1>1, <2>1, RowAlone DEF Reached, tmServer
<1>3. ASSUME NEW r \in tmReads, ReadArrives(r) \/ ReadFails(r) PROVE SettledInv'
  <2>1. r.screen \in TimeScreens
    BY <1>3 DEF TimeTypes, TimeTypeOK, TimeRead
  <2>2. tmCall' = [tmCall EXCEPT ![r.screen] = NoTimeCall] \/ UNCHANGED tmCall
    BY <1>3 DEF ReadArrives, ReadFails, AfterRead, TimeTypes, TimeTypeOK
  <2>3. NoTimeCall.op = "none"
    BY DEF NoTimeCall
  <2>4. CASE UNCHANGED tmCall
    BY <1>1, <2>4, RowAlone DEF Reached, tmServer
  <2>5. QED
    BY <1>1, <2>1, <2>2, <2>3, <2>4, OneCall DEF tmServer
<1>4. ASSUME NEW s \in TimeScreens, NEW op, NEW payload, Asks(s, op, payload) PROVE SettledInv'
  <2> DEFINE c == [op |-> op, stage |-> "sent", payload |-> payload, timer |-> NoTimer]
  <2>1. tmCall' = [tmCall EXCEPT ![s] = c] /\ c.stage = "sent"
    BY <1>4 DEF Asks
  <2> HIDE DEF c
  <2>2. QED
    BY <1>1, <2>1, OneCall DEF tmServer
<1>5. ASSUME NEW s \in TimeScreens, TimerAnswered(s) \/ TimerFailed(s) PROVE SettledInv'
  <2>1. \/ tmCall' = [tmCall EXCEPT ![s] = NoTimeCall]
        \/ tmCall' = [tmCall EXCEPT ![s] = [@ EXCEPT !.stage = "reload"]]
    BY <1>5 DEF TimerAnswered, TimerFailed
  <2>2. tmCall[s] \in TimeCall
    BY DEF TimeTypes, TimeTypeOK
  <2>3. QED
    <3>1. NoTimeCall.op = "none" /\ [tmCall[s] EXCEPT !.stage = "reload"].stage = "reload"
      BY <2>2 DEF NoTimeCall, TimeCall
    <3>2. QED
      BY <1>1, <2>1, <3>1, OneCall DEF tmServer
<1>6. Workspace \in TimeScreens
  BY DEF TimeScreens
<1>7. QED
  BY <1>2, <1>3, <1>4, <1>5, <1>6 DEF AddManualEntry, StartTimer, StopTimer, CancelTimer

LEMMA SettledStep == TimeTypes /\ SettledInv /\ [TimeNext]_tmVars => SettledInv'
<1> SUFFICES ASSUME TimeTypes, SettledInv, [TimeNext]_tmVars PROVE SettledInv'
  OBVIOUS
<1>1. CASE UNCHANGED tmVars \/ ItemsMove
  <2>1. UNCHANGED <<tmTimer, tmUsed, tmLocked, tmRecorded, tmCancelled, tmCall>>
    BY <1>1 DEF tmVars, tmServer, tmScreens, ItemsMove
  <2>2. QED
    BY <2>1, RowAlone DEF Reached
<1>2. CASE ManualStored
  <2>1. /\ UNCHANGED <<tmTimer, tmUsed, tmLocked, tmRecorded, tmCancelled>>
        /\ To(Workspace, "done", NoTimer) /\ Workspace \in TimeScreens
    BY <1>2 DEF ManualStored, TimeScreens
  <2>2. /\ tmCall'[Workspace].stage = "done"
        /\ \A x \in TimeScreens : x # Workspace => tmCall'[x] = tmCall[x]
    BY <2>1, Sent
  <2>3. QED
    BY <2>1, <2>2, RowAlone DEF Reached
<1>3. QED
  BY <1>1, <1>2, ServerSettles, ScreensSettle DEF TimeNext

(* Starts, stops and cancels of any number of tabs settle each timer once: *)
(* the lock of stop (select_for_update) and the one row per user.          *)
THEOREM TimersSettledOnce == TimeSpec => []SettledOnce
<1>1. SettledInv => SettledOnce
  BY DEF SettledInv
<1>2. QED
  BY <1>1, TypesInit, TypesStep, SettledInit, SettledStep, PTL DEF TimeSpec

-----------------------------------------------------------------------------
(* A control learns what became of its request.                            *)

(* A control reads the timer once at a time, on arrival or after a request  *)
(* of its own, and nothing of its own happens meanwhile.                    *)
OneReadEach ==
  \A r, q \in tmReads : r.screen = q.screen /\ r.screen # Workspace => r = q

ReadsAreFresh ==
  \A r \in tmReads : r.screen # Workspace =>
    /\ ~r.live /\ r.value.fresh
    /\ r.screen \in tmLoaded => tmCall[r.screen].stage = "reload"

IdleCalls ==
  \A s \in TimeScreens :
    /\ TimerIdle(s) => tmCall[s].stage = "sent"
    /\ s \notin tmLoaded => TimerIdle(s)
    /\ tmCall[s].op = "manual" => s = Workspace

OldWhileAsking ==
  \A s \in TimeScreens : s # Workspace /\ ~tmShown[s].fresh =>
    ~TimerIdle(s) /\ tmCall[s].stage \in {"done", "refused", "reload"}

TeachInv == OneReadEach /\ ReadsAreFresh /\ IdleCalls /\ OldWhileAsking

LEMMA TeachInit == TimeInit => TeachInv
<1> SUFFICES ASSUME TimeInit PROVE TeachInv
  OBVIOUS
<1>1. \A r \in tmReads : r = [screen |-> r.screen, live |-> FALSE, answered |-> FALSE, value |-> Blank]
  BY DEF TimeInit, FirstReads
<1>2. OneReadEach
  BY <1>1 DEF OneReadEach
<1>3. ReadsAreFresh
  BY <1>1 DEF ReadsAreFresh, Blank, TimeInit
<1>4. IdleCalls /\ OldWhileAsking
  BY DEF TimeInit, IdleCalls, OldWhileAsking, TimerIdle, NoTimeCall, Blank
<1>5. QED
  BY <1>2, <1>3, <1>4 DEF TeachInv

(* A control that asks, or whose request the server has not settled, reads  *)
(* nothing.                                                                 *)
LEMMA AskingReadsNothing ==
  ASSUME TimeTypes, TeachInv, NEW s \in TimeScreens, s # Workspace,
         ~TimerIdle(s) \/ s \in tmLoaded, tmCall[s].stage # "reload"
  PROVE  \A r \in tmReads : r.screen # s
  BY DEF TeachInv, ReadsAreFresh, IdleCalls

(* The server's step of a request.                                         *)
LEMMA ServerTeaches ==
  ASSUME TimeTypes, TeachInv, NEW s \in TimeScreens, NEW t \in Timer \union {NoTimer},
         NEW stage \in {"checked", "done", "refused"}, To(s, stage, t),
         tmCall[s].op = "start" /\ stage = "checked" => t \in Timer, ~TimerIdle(s), tmCall[s].stage \in {"sent", "checked"},
         \/ UNCHANGED <<tmShown, tmReads>> /\ (s = Workspace \/ stage = "checked")
         \/ Handled(s) /\ stage # "checked"
  PROVE  TeachInv'
<1>1. /\ tmCall'[s].op = tmCall[s].op /\ tmCall'[s].stage = stage
      /\ \A x \in TimeScreens : x # s => tmCall'[x] = tmCall[x]
  BY Sent
<1>2. UNCHANGED tmLoaded
  BY DEF To
<1>3. s # Workspace => \A r \in tmReads : r.screen # s
  BY AskingReadsNothing
<1>4. UNCHANGED tmReads
  BY <1>3 DEF Handled
<1>5. \A r \in tmReads : r.screen \in TimeScreens
  BY DEF TimeTypes, TimeTypeOK, TimeRead
<1>6. OneReadEach'
  BY <1>4 DEF TeachInv, OneReadEach
<1>7. ReadsAreFresh'
  BY <1>1, <1>2, <1>3, <1>4, <1>5 DEF TeachInv, ReadsAreFresh
<1>8. IdleCalls'
  BY <1>1, <1>2 DEF TeachInv, IdleCalls, TimerIdle
<1>9. OldWhileAsking'
  <2>1. ASSUME NEW x \in TimeScreens, x # s PROVE tmShown'[x].fresh = tmShown[x].fresh
    BY <2>1 DEF Handled, TimeTypes, TimeTypeOK
  <2>2. s # Workspace /\ stage = "checked" => tmShown[s].fresh /\ UNCHANGED tmShown
    BY DEF TeachInv, OldWhileAsking
  <2>3. QED
    BY <1>1, <2>1, <2>2 DEF TeachInv, OldWhileAsking, TimerIdle
<1>10. QED
  BY <1>6, <1>7, <1>8, <1>9 DEF TeachInv

LEMMA ReadsTeach ==
  ASSUME TimeTypes, TeachInv, NEW r \in tmReads, TimerRead(r) \/ ReadArrives(r) \/ ReadFails(r)
  PROVE  TeachInv'
<1>0. /\ r \in TimeRead /\ r.screen \in TimeScreens
      /\ \A q \in tmReads : q.screen \in TimeScreens
  BY DEF TimeTypes, TimeTypeOK, TimeRead
<1>1. CASE TimerRead(r)
  <2> DEFINE a == [screen |-> r.screen, live |-> r.live, answered |-> TRUE,
                   value |-> [timer |-> Seen(tmTimer), fresh |-> TRUE]]
  <2>1. /\ tmReads' = (tmReads \ {r}) \union {a}
        /\ UNCHANGED <<tmCall, tmLoaded, tmShown>>
    BY <1>1 DEF TimerRead
  <2>2. a.screen = r.screen /\ a.live = r.live /\ a.value.fresh
    OBVIOUS
  <2> HIDE DEF a
  <2>3. OneReadEach'
    BY <2>1, <2>2 DEF TeachInv, OneReadEach
  <2>4. ReadsAreFresh'
    BY <2>1, <2>2 DEF TeachInv, ReadsAreFresh
  <2>5. IdleCalls' /\ OldWhileAsking'
    BY <2>1 DEF TeachInv, IdleCalls, OldWhileAsking, TimerIdle
  <2>6. QED
    BY <2>3, <2>4, <2>5 DEF TeachInv
<1>2. CASE ReadArrives(r) \/ ReadFails(r)
  <2>1. tmCall' = AfterRead(r)
    BY <1>2 DEF ReadArrives, ReadFails
  <2>2. \A x \in TimeScreens :
          /\ x # r.screen => tmCall'[x] = tmCall[x]
          /\ x = r.screen => tmCall'[x] \in {tmCall[x], NoTimeCall}
    BY <2>1 DEF AfterRead, TimeTypes, TimeTypeOK
  <2>3. r.screen # Workspace => /\ tmReads' = tmReads \ {r}
                               /\ tmLoaded' = tmLoaded \union {r.screen}
                               /\ tmShown'[r.screen].fresh
    <3>1. CASE ReadArrives(r)
      BY <1>0, <3>1 DEF ReadArrives, TeachInv, ReadsAreFresh, TimeTypes, TimeTypeOK
    <3>2. CASE ReadFails(r)
      BY <1>0, <3>2 DEF ReadFails, TimeTypes, TimeTypeOK, ShownValue
    <3>3. QED
      BY <1>2, <3>1, <3>2
  <2>4. \A x \in TimeScreens : x # r.screen => tmShown'[x] = tmShown[x]
    BY <1>2 DEF ReadArrives, ReadFails, TimeTypes, TimeTypeOK
  <2>5. \A q \in tmReads' : q \in tmReads \/ q.screen = Workspace
    BY <1>2 DEF ReadArrives, ReadFails
  <2>6. \A x \in TimeScreens : x # r.screen => (x \in tmLoaded' <=> x \in tmLoaded)
    BY <1>2 DEF ReadArrives, ReadFails
  <2>7. r.screen # Workspace => \A q \in tmReads' : q.screen # r.screen
    BY <2>3 DEF TeachInv, OneReadEach
  <2>8. OneReadEach'
    BY <2>5 DEF TeachInv, OneReadEach
  <2>9. ReadsAreFresh'
    BY <1>0, <2>2, <2>5, <2>6, <2>7 DEF TeachInv, ReadsAreFresh
  <2>10. IdleCalls'
    <3>1. tmLoaded \subseteq tmLoaded'
      BY <1>2 DEF ReadArrives, ReadFails
    <3>2. QED
      BY <2>2, <3>1 DEF TeachInv, IdleCalls, TimerIdle, NoTimeCall
  <2>11. OldWhileAsking'
    BY <2>2, <2>3, <2>4 DEF TeachInv, OldWhileAsking, TimerIdle
  <2>12. QED
    BY <2>8, <2>9, <2>10, <2>11 DEF TeachInv
<1>3. QED
  BY <1>1, <1>2

LEMMA AsksTeach ==
  ASSUME TimeTypes, TeachInv, NEW s \in TimeScreens, NEW op \in {"start", "stop", "cancel", "manual"},
         NEW payload, op = "manual" => s = Workspace, Asks(s, op, payload)
  PROVE  TeachInv'
<1>1. /\ s \in tmLoaded /\ TimerIdle(s) /\ UNCHANGED <<tmShown, tmLoaded, tmReads>>
      /\ tmCall'[s].op = op /\ tmCall'[s].stage = "sent"
      /\ \A x \in TimeScreens : x # s => tmCall'[x] = tmCall[x]
  BY DEF Asks, TimeTypes, TimeTypeOK
<1>2. s # Workspace => \A r \in tmReads : r.screen # s
  BY <1>1, AskingReadsNothing DEF TeachInv, IdleCalls
<1>3. \A r \in tmReads : r.screen \in TimeScreens
  BY DEF TimeTypes, TimeTypeOK, TimeRead
<1>4. OneReadEach' /\ ReadsAreFresh'
  BY <1>1, <1>2, <1>3 DEF TeachInv, OneReadEach, ReadsAreFresh
<1>5. IdleCalls' /\ OldWhileAsking'
  BY <1>1 DEF TeachInv, IdleCalls, OldWhileAsking, TimerIdle
<1>6. QED
  BY <1>4, <1>5 DEF TeachInv

LEMMA AnswersTeach ==
  ASSUME TimeTypes, TeachInv, NEW s \in TimeScreens, TimerAnswered(s) \/ TimerFailed(s)
  PROVE  TeachInv'
<1>0. tmCall[s].stage # "reload" /\ ~TimerIdle(s) /\ UNCHANGED tmLoaded /\ s \in tmLoaded
  BY DEF TimerAnswered, TimerFailed, TeachInv, IdleCalls
<1>1. s # Workspace => \A r \in tmReads : r.screen # s
  BY <1>0, AskingReadsNothing
<1>2. \A r \in tmReads : r.screen \in TimeScreens
  BY DEF TimeTypes, TimeTypeOK, TimeRead
<1>3. CASE tmCall' = [tmCall EXCEPT ![s] = NoTimeCall] /\ UNCHANGED tmReads
  <2>1. /\ tmCall'[s] = NoTimeCall /\ \A x \in TimeScreens : x # s => tmCall'[x] = tmCall[x]
    BY <1>3 DEF TimeTypes, TimeTypeOK
  <2>2. /\ \A x \in TimeScreens : x # s => tmShown'[x] = tmShown[x]
        /\ s # Workspace => tmShown'[s].fresh
    <3>1. CASE TimerAnswered(s)
      BY <3>1 DEF TimerAnswered, TimeTypes, TimeTypeOK, TeachInv, IdleCalls
    <3>2. CASE TimerFailed(s)
      <4>1. s = Workspace
        BY <1>3, <2>1, <3>2 DEF TimerFailed, Reloads, NoTimeCall, TimeTypes, TimeTypeOK, TimeCall
      <4>2. QED
        BY <3>2, <4>1 DEF TimerFailed
    <3>3. QED
      BY <3>1, <3>2
  <2>3. OneReadEach' /\ ReadsAreFresh'
    BY <1>0, <1>1, <1>2, <1>3, <2>1 DEF TeachInv, OneReadEach, ReadsAreFresh
  <2>4. IdleCalls'
    BY <1>0, <2>1 DEF TeachInv, IdleCalls, TimerIdle, NoTimeCall
  <2>5. OldWhileAsking'
    BY <2>1, <2>2 DEF TeachInv, OldWhileAsking, TimerIdle
  <2>6. QED
    BY <2>3, <2>4, <2>5 DEF TeachInv
<1>4. CASE TimerFailed(s) /\ Reloads(s)
  <2> DEFINE n == [screen |-> s, live |-> FALSE, answered |-> FALSE, value |-> Blank]
  <2>1. /\ tmCall' = [tmCall EXCEPT ![s] = [@ EXCEPT !.stage = "reload"]]
        /\ tmReads' = tmReads \union {n} /\ UNCHANGED tmShown /\ s # Workspace
    BY <1>4 DEF TimerFailed, Reloads
  <2>2. /\ tmCall'[s].op = tmCall[s].op /\ tmCall'[s].stage = "reload"
        /\ \A x \in TimeScreens : x # s => tmCall'[x] = tmCall[x]
    BY <2>1 DEF TimeTypes, TimeTypeOK, TimeCall
  <2>3. n.screen = s /\ ~n.live /\ n.value.fresh
    BY DEF Blank
  <2> HIDE DEF n
  <2>4. OneReadEach'
    BY <1>1, <2>1, <2>3 DEF TeachInv, OneReadEach
  <2>5. ReadsAreFresh'
    BY <1>0, <1>1, <1>2, <2>1, <2>2, <2>3 DEF TeachInv, ReadsAreFresh
  <2>6. IdleCalls' /\ OldWhileAsking'
    BY <1>0, <2>1, <2>2 DEF TeachInv, IdleCalls, OldWhileAsking, TimerIdle
  <2>7. QED
    BY <2>4, <2>5, <2>6 DEF TeachInv
<1>5. QED
  BY <1>3, <1>4 DEF TimerAnswered, TimerFailed

LEMMA TeachStep == TimeTypes /\ TeachInv /\ [TimeNext]_tmVars => TeachInv'
<1> SUFFICES ASSUME TimeTypes, TeachInv, [TimeNext]_tmVars PROVE TeachInv'
  OBVIOUS
<1>1. CASE UNCHANGED tmVars \/ ItemsMove \/ OptionsRead \/ ChoosePanel
  <2>1. UNCHANGED <<tmShown, tmLoaded, tmReads, tmCall>>
    BY <1>1 DEF tmVars, tmScreens, ItemsMove, OptionsRead, ChoosePanel
  <2>2. QED
    BY <2>1 DEF TeachInv, OneReadEach, ReadsAreFresh, IdleCalls, OldWhileAsking, TimerIdle
<1>2. CASE LiveRefresh
  <2> DEFINE n == [screen |-> Workspace, live |-> TRUE, answered |-> FALSE, value |-> Blank]
  <2>1. tmReads' = tmReads \union {n} /\ UNCHANGED <<tmShown, tmLoaded, tmCall>>
    BY <1>2 DEF LiveRefresh
  <2>2. n.screen = Workspace
    OBVIOUS
  <2> HIDE DEF n
  <2>3. QED
    BY <2>1, <2>2 DEF TeachInv, OneReadEach, ReadsAreFresh, IdleCalls, OldWhileAsking, TimerIdle
<1>3. CASE AddManualEntry
  <2>1. Workspace \in TimeScreens
    BY DEF TimeScreens
  <2>2. QED
    BY <1>3, <2>1, AsksTeach DEF AddManualEntry
<1>4. CASE ManualStored
  <2>1. /\ To(Workspace, "done", NoTimer) /\ UNCHANGED <<tmShown, tmReads>>
        /\ tmCall[Workspace].op = "manual" /\ tmCall[Workspace].stage = "sent"
        /\ Workspace \in TimeScreens
    BY <1>4 DEF ManualStored, Reached, TimeScreens
  <2>2. QED
    BY <2>1, ServerTeaches DEF TimerIdle
<1>5. ASSUME NEW s \in TimeScreens, StartTimer(s) \/ StopTimer(s) \/ CancelTimer(s)
      PROVE  TeachInv'
  BY <1>5, AsksTeach DEF StartTimer, StopTimer, CancelTimer
<1>6. ASSUME NEW s \in TimeScreens,
             \/ StartChecks(s) \/ StartInserts(s) \/ StopLocks(s) \/ StopRecords(s)
             \/ StopRejected(s) \/ CancelDeletes(s) \/ Refuse(s)
      PROVE  TeachInv'
  <2>1. ~TimerIdle(s) /\ tmCall[s].stage \in {"sent", "checked"}
    BY <1>6 DEF StartChecks, StartInserts, StopLocks, StopRecords, StopRejected, CancelDeletes,
       Refuse, Impossible, Reached, TimerIdle
  <2>2. tmTimer \in Timer \union {NoTimer} /\ tmTimer' \in Timer \union {NoTimer}
    BY <1>6, ServerTyped DEF TimeTypes, TimeTypeOK
  <2>3. CASE StartChecks(s)
    <3>1. /\ To(s, "checked", Resolved(tmCall[s].payload)) /\ UNCHANGED <<tmShown, tmReads>>
          /\ Resolved(tmCall[s].payload) \in Timer
      BY <2>3, StartChecked DEF StartChecks
    <3>2. QED
      BY <2>1, <3>1, ServerTeaches
  <2>4. CASE StopLocks(s)
    <3>1. /\ To(s, "checked", tmTimer) /\ UNCHANGED <<tmShown, tmReads>>
          /\ tmCall[s].op = "stop"
      BY <2>4 DEF StopLocks, Reached
    <3>2. QED
      BY <2>1, <2>2, <3>1, ServerTeaches
  <2>5. CASE ~StartChecks(s) /\ ~StopLocks(s)
    <3>1. \/ To(s, "done", tmTimer') /\ Handled(s)
          \/ To(s, "done", NoTimer) /\ Handled(s)
          \/ To(s, "refused", NoTimer) /\ Handled(s)
      BY <1>6, <2>5 DEF StartInserts, StopRecords, StopRejected, CancelDeletes, Refuse
    <3>2. QED
      BY <2>1, <2>2, <3>1, ServerTeaches
  <2>6. QED
    BY <2>3, <2>4, <2>5
<1>7. QED
  BY <1>1, <1>2, <1>3, <1>4, <1>5, <1>6, ReadsTeach, AnswersTeach DEF TimeNext

(* The controls of a task and of a ticket never show, while they can be     *)
(* used, a state of the timer from before the server settled their request: *)
(* after a refusal or a lost answer they read it again first.               *)
THEOREM ControlsLearn == TimeSpec => []RefusalTeaches
<1>1. TeachInv => RefusalTeaches
  BY TimeBounds DEF TeachInv, OldWhileAsking, RefusalTeaches, TimeScreens, TimerControls, Workspace
<1>2. QED
  BY <1>1, TypesInit, TypesStep, TeachInit, TeachStep, PTL DEF TimeSpec

-----------------------------------------------------------------------------
(* Internal time is not billed.                                            *)

Unbilled(t) == t.owner = "internal" => ~t.billable

(* A start that was checked is about to insert its timer, although the item *)
(* may have moved meanwhile.                                               *)
CheckedUnbilled ==
  \A s \in TimeScreens : Reached(s, "start", "checked") => Unbilled(tmCall[s].timer)

InternalInv == InternalNotBilled /\ CheckedUnbilled

LEMMA EntryUnbilled == \A x : Unbilled(EntryOf(x))
  BY DEF Unbilled, EntryOf, Billed

(* No other step than a check makes a checked start.                       *)
LEMMA CheckedStays ==
  ASSUME TimeTypes, CheckedUnbilled,
         \A s \in TimeScreens : Reached(s, "start", "checked")' =>
             Reached(s, "start", "checked") /\ tmCall'[s].timer = tmCall[s].timer
  PROVE  CheckedUnbilled'
  BY DEF CheckedUnbilled

LEMMA OneCallUnbilled ==
  ASSUME TimeTypes, CheckedUnbilled, NEW s \in TimeScreens, NEW c,
         tmCall' = [tmCall EXCEPT ![s] = c], c.op # "start" \/ c.stage # "checked"
  PROVE  CheckedUnbilled'
<1>1. \A x \in TimeScreens : tmCall'[x] = IF x = s THEN c ELSE tmCall[x]
  BY DEF TimeTypes, TimeTypeOK
<1>2. QED
  BY <1>1, CheckedStays DEF Reached

LEMMA ScreensUnbilled ==
  ASSUME TimeTypes, InternalInv,
         \/ OptionsRead \/ LiveRefresh \/ ChoosePanel \/ AddManualEntry
         \/ \E r \in tmReads : TimerRead(r) \/ ReadArrives(r) \/ ReadFails(r)
         \/ \E s \in TimeScreens : \/ StartTimer(s) \/ StopTimer(s) \/ CancelTimer(s)
                                   \/ TimerAnswered(s) \/ TimerFailed(s)
  PROVE  InternalInv'
<1>1. InternalNotBilled' /\ CheckedUnbilled
  BY DEF InternalInv, InternalNotBilled, tmServer, OptionsRead, LiveRefresh, ChoosePanel,
     AddManualEntry, TimerRead, ReadArrives, ReadFails, StartTimer, StopTimer, CancelTimer, Asks,
     TimerAnswered, TimerFailed
<1>2. CASE OptionsRead \/ LiveRefresh \/ ChoosePanel \/ \E r \in tmReads : TimerRead(r)
  <2>1. UNCHANGED tmCall
    BY <1>2 DEF OptionsRead, LiveRefresh, ChoosePanel, TimerRead
  <2>2. QED
    BY <1>1, <2>1 DEF InternalInv, CheckedUnbilled, Reached
<1>3. ASSUME NEW r \in tmReads, ReadArrives(r) \/ ReadFails(r) PROVE InternalInv'
  <2>1. r.screen \in TimeScreens
    BY <1>3 DEF TimeTypes, TimeTypeOK, TimeRead
  <2>2. tmCall' = [tmCall EXCEPT ![r.screen] = NoTimeCall] \/ UNCHANGED tmCall
    BY <1>3 DEF ReadArrives, ReadFails, AfterRead, TimeTypes, TimeTypeOK
  <2>3. NoTimeCall.op = "none"
    BY DEF NoTimeCall
  <2>4. CASE UNCHANGED tmCall
    BY <1>1, <2>4 DEF InternalInv, CheckedUnbilled, Reached
  <2>5. QED
    BY <1>1, <2>1, <2>2, <2>3, <2>4, OneCallUnbilled DEF InternalInv
<1>4. ASSUME NEW s \in TimeScreens, NEW op, NEW payload, Asks(s, op, payload)
      PROVE  InternalInv'
  <2> DEFINE c == [op |-> op, stage |-> "sent", payload |-> payload, timer |-> NoTimer]
  <2>1. tmCall' = [tmCall EXCEPT ![s] = c] /\ c.stage = "sent"
    BY <1>4 DEF Asks
  <2> HIDE DEF c
  <2>2. QED
    BY <1>1, <2>1, OneCallUnbilled DEF InternalInv
<1>5. ASSUME NEW s \in TimeScreens, TimerAnswered(s) \/ TimerFailed(s) PROVE InternalInv'
  <2>1. \/ tmCall' = [tmCall EXCEPT ![s] = NoTimeCall]
        \/ tmCall' = [tmCall EXCEPT ![s] = [@ EXCEPT !.stage = "reload"]]
    BY <1>5 DEF TimerAnswered, TimerFailed
  <2>2. tmCall[s] \in TimeCall
    BY DEF TimeTypes, TimeTypeOK
  <2>3. NoTimeCall.op = "none" /\ [tmCall[s] EXCEPT !.stage = "reload"].stage = "reload"
    BY <2>2 DEF NoTimeCall, TimeCall
  <2>4. QED
    BY <1>1, <2>1, <2>3, OneCallUnbilled DEF InternalInv
<1>6. Workspace \in TimeScreens
  BY DEF TimeScreens
<1>7. QED
  BY <1>2, <1>3, <1>4, <1>5, <1>6 DEF AddManualEntry, StartTimer, StopTimer, CancelTimer

LEMMA ServerBillsNone ==
  ASSUME TimeTypes, InternalInv, NEW s \in TimeScreens,
         \/ StartChecks(s) \/ StartInserts(s) \/ StopLocks(s) \/ StopRecords(s)
         \/ StopRejected(s) \/ CancelDeletes(s) \/ Refuse(s)
  PROVE  InternalInv'
<1>1. CASE StartChecks(s)
  <2>1. Unbilled(Resolved(tmCall[s].payload))
    BY DEF Unbilled, Resolved, Billed
  <2>2. CheckedUnbilled'
    BY <1>1, <2>1, StartChecked DEF InternalInv, CheckedUnbilled, Reached
  <2>3. QED
    BY <1>1, <2>2 DEF StartChecks, tmServer, InternalInv, InternalNotBilled
<1>2. ASSUME NEW t \in Timer \union {NoTimer}, NEW stage \in {"checked", "done", "refused"},
             To(s, stage, t), stage = "checked" => tmCall[s].op # "start"
      PROVE  CheckedUnbilled'
  <2>1. /\ tmCall'[s].op = tmCall[s].op /\ tmCall'[s].stage = stage
        /\ \A x \in TimeScreens : x # s => tmCall'[x] = tmCall[x]
    BY <1>2, Sent
  <2>2. QED
    BY <1>2, <2>1, CheckedStays DEF InternalInv, Reached
<1>3. CASE StartInserts(s)
  <2>1. /\ tmTimer' = [tmCall[s].timer EXCEPT !.id = tmUsed + 1] /\ UNCHANGED tmEntries
        /\ Reached(s, "start", "checked") /\ To(s, "done", tmTimer') /\ tmTimer' \in Timer
    <3>1. tmTimer' \in Timer \union {NoTimer} /\ tmCall[s].timer \in Timer
      BY <1>3, ServerTyped DEF TimeTypes, TimeTypeOK, PayloadsSent, StartInserts, Reached
    <3>2. tmTimer'.target # "none"
      BY <1>3, <3>1, TimeBounds DEF StartInserts, Timer, WorkTargets, TimerControls
    <3>3. QED
      BY <1>3, <3>1, <3>2 DEF StartInserts, NoTimer
  <2>2. Unbilled(tmTimer')
    <3>1. Unbilled(tmCall[s].timer) /\ tmCall[s].timer \in Timer
      BY <2>1 DEF InternalInv, CheckedUnbilled, TimeTypes, PayloadsSent, Reached
    <3>2. QED
      BY <2>1, <3>1 DEF Unbilled, Timer
  <2>3. InternalNotBilled'
    BY <2>1, <2>2 DEF InternalInv, InternalNotBilled, Unbilled
  <2>4. QED
    BY <1>2, <2>1, <2>3 DEF InternalInv
<1>4. CASE StopRecords(s)
  <2>1. /\ tmTimer' \in {tmTimer, NoTimer} /\ To(s, "done", NoTimer)
        /\ tmEntries' = tmEntries \union {EntryOf(tmCall[s].timer)}
    BY <1>4 DEF StopRecords
  <2>2. InternalNotBilled'
    BY <2>1, EntryUnbilled DEF InternalInv, InternalNotBilled, Unbilled, NoTimer
  <2>3. QED
    BY <1>2, <2>1, <2>2 DEF InternalInv
<1>5. CASE StopLocks(s)
  <2>1. UNCHANGED <<tmTimer, tmEntries>> /\ To(s, "checked", tmTimer) /\ tmCall[s].op = "stop"
    BY <1>5 DEF StopLocks, Reached
  <2>2. tmTimer \in Timer \union {NoTimer}
    BY DEF TimeTypes, TimeTypeOK
  <2>3. QED
    BY <1>2, <2>1, <2>2 DEF InternalInv, InternalNotBilled
<1>6. CASE StopRejected(s) \/ CancelDeletes(s) \/ Refuse(s)
  <2>1. /\ tmTimer' \in {tmTimer, NoTimer} /\ UNCHANGED tmEntries
        /\ To(s, "done", NoTimer) \/ To(s, "refused", NoTimer)
    BY <1>6 DEF StopRejected, CancelDeletes, Refuse, tmServer
  <2>2. InternalNotBilled'
    BY <2>1 DEF InternalInv, InternalNotBilled, NoTimer
  <2>3. QED
    BY <1>2, <2>1, <2>2 DEF InternalInv
<1>7. QED
  BY <1>1, <1>3, <1>4, <1>5, <1>6

LEMMA InternalStep == TimeTypes /\ InternalInv /\ [TimeNext]_tmVars => InternalInv'
<1> SUFFICES ASSUME TimeTypes, InternalInv, [TimeNext]_tmVars PROVE InternalInv'
  OBVIOUS
<1>1. CASE UNCHANGED tmVars \/ ItemsMove
  <2>1. UNCHANGED <<tmTimer, tmEntries, tmCall>>
    BY <1>1 DEF tmVars, tmServer, tmScreens, ItemsMove
  <2>2. QED
    BY <2>1 DEF InternalInv, InternalNotBilled, CheckedUnbilled, Reached
<1>2. CASE ManualStored
  <2>1. /\ UNCHANGED tmTimer /\ To(Workspace, "done", NoTimer) /\ Workspace \in TimeScreens
        /\ tmEntries' = tmEntries \union {EntryOf(tmCall[Workspace].payload)}
    BY <1>2 DEF ManualStored, TimeScreens
  <2>2. InternalNotBilled'
    BY <2>1, EntryUnbilled DEF InternalInv, InternalNotBilled, Unbilled
  <2>3. /\ tmCall'[Workspace].stage = "done"
        /\ \A x \in TimeScreens : x # Workspace => tmCall'[x] = tmCall[x]
    BY <2>1, Sent
  <2>4. QED
    BY <2>2, <2>3, CheckedStays DEF InternalInv, Reached
<1>3. QED
  BY <1>1, <1>2, ServerBillsNone, ScreensUnbilled DEF TimeNext

(* Whatever a screen with old options sends, and however the item moves     *)
(* while a timer runs on it, neither the timer, nor the entry a stop leaves, *)
(* nor one made by hand bills internal time: the server takes the owner from *)
(* the item when it checks and again when it saves.                         *)
THEOREM InternalStaysUnbilled == TimeSpec => []InternalNotBilled
<1>1. TimeInit => InternalInv
  BY LeftRunningAssumption
  DEF TimeInit, InternalInv, InternalNotBilled, CheckedUnbilled, Reached, NoTimeCall, NoTimer
<1>2. InternalInv => InternalNotBilled
  BY DEF InternalInv
<1>3. QED
  BY <1>1, <1>2, TypesInit, TypesStep, InternalStep, PTL DEF TimeSpec

\* Timers settled once, internal time unbilled, refusals learnt: together.
THEOREM TimeStaysSound == TimeSpec => []TimeIsSound
BY TimersSettledOnce, InternalStaysUnbilled, ControlsLearn, PTL DEF TimeIsSound
=============================================================================
