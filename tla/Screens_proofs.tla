----------------------------- MODULE Screens_proofs -----------------------------
(***************************************************************************)
(* Proofs about the lists and dashboards of the staff console, for every   *)
(* screen, filter and part of it, any set of values a filter may take and  *)
(* any number of the user's moves: what the screens ask for is bounded by  *)
(* those moves, and page, dependent choice and rows belong to the filters. *)
(* That a screen left alone catches up stays a property of the runs.       *)
(***************************************************************************)
EXTENDS Screens, TLAPS

LEMMA ScreenNumbers == MaxMoves \in Nat /\ Start \in Choices
BY ScreenBounds

LEMMA ScreensNamed ==
  ScreenKinds = {"tickets", "scoped_tickets", "leads", "tasks", "clients", "credentials",
                 "activity", "providers", "knowledge", "retention", "celery", "task_logs",
                 "github", "run_jobs", "resources", "ledger", "calendar", "check", "monitoring",
                 "search"}
BY DEF ScreenKinds, Screens

(* A change of any filter goes back to page 1, by an effect or in its       *)
(* handler, wherever there are pages.                                      *)
LEMMA FiltersReset ==
  scKind \in ScreenKinds /\ scFld \in This.filters => Reset \/ scKind \in Unpaged
<1> SUFFICES ASSUME scKind \in ScreenKinds, scFld \in This.filters, scKind \notin Unpaged
             PROVE  Reset
  OBVIOUS
<1> USE ScreensNamed DEF This, Screens, Screen, Reset, In, EffectResets, HandlerResets, Unpaged
<1>1. CASE scKind \in {"tickets", "scoped_tickets", "leads", "tasks", "clients", "credentials"}
  BY <1>1 DEF TicketFilters, ScopedFilters, LeadFilters, TaskFilters, ClientFilters,
     CredentialFilters
<1>2. CASE scKind \in {"activity", "providers", "knowledge", "retention", "celery", "task_logs"}
  BY <1>2 DEF ActivityFilters, ProviderFilters, KnowledgeFilters, RetentionFilters,
     CeleryFilters, LogFilters
<1>3. CASE scKind \in {"github", "run_jobs", "resources", "ledger", "check"}
  BY <1>3 DEF GitHubFilters, ResourceFilters, LedgerFilters
<1>4. QED
  BY <1>1, <1>2, <1>3

(* The screens whose rows are promised to answer their filters change no    *)
(* records, open no drawer and show nothing but rows.                      *)
Watched == {"search", "task_logs", "run_jobs"}

LEMMA WatchedOnlyRead ==
  scKind \in Watched =>
    /\ This.posts = {} /\ "drawer" \notin This.offers
    /\ This.parts = {} /\ This.sets = {"rows"}
    /\ In(EffectResets) = {} /\ In(DelayedBoxes) = {} /\ In(ClearedBy) = {}
    /\ scKind \in LatestOnly /\ scKind \in Cleaned
    /\ scKind = "search" <=> scKind \in Delayed
    /\ scKind = "search" => "refresh" \notin This.offers /\ "retry" \notin This.offers
<1> SUFFICES ASSUME scKind \in Watched
             PROVE  WatchedOnlyRead!2
  OBVIOUS
<1>1. In(EffectResets) = {} /\ In(DelayedBoxes) = {} /\ In(ClearedBy) = {}
  BY DEF Watched, In, EffectResets, DelayedBoxes, ClearedBy
<1>2. /\ scKind \in LatestOnly /\ scKind \in Cleaned
      /\ scKind = "search" <=> scKind \in Delayed
  BY DEF Watched, LatestOnly, Cleaned, Delayed
<1>3. CASE scKind = "search"
  <2>1. This = Screen(SearchFilters, SearchAsks, {}, {"rows"}, {}, {})
    BY <1>3 DEF This, Screens
  <2>2. QED
    BY <1>1, <1>2, <2>1 DEF Screen
<1>4. CASE scKind = "task_logs"
  <2>1. This = Screen(LogFilters, LogsAsk, {}, {"rows"}, {}, {"refresh"})
    BY <1>4 DEF This, Screens
  <2>2. QED
    BY <1>1, <1>2, <1>4, <2>1 DEF Screen
<1>5. CASE scKind = "run_jobs"
  <2>1. This = Screen({}, {}, {}, {"rows"}, {}, {})
    BY <1>5 DEF This, Screens
  <2>2. QED
    BY <1>1, <1>2, <1>5, <2>1 DEF Screen
<1>6. QED
  BY <1>3, <1>4, <1>5 DEF Watched

(* A search box whose filter waits is one of its screen's filters; no       *)
(* choice depends on it.                                                   *)
LEMMA BoxesAreFilters ==
  scFld \in In(DelayedBoxes) => /\ scKind \in {"credentials", "celery"}
                                /\ scFld \in This.filters /\ In(ClearedBy) = {}
BY DEF In, DelayedBoxes, ClearedBy, This, Screens, Screen, CredentialFilters, CeleryFilters

LEMMA SameScreen ==
  [ScreenNext]_scVars => UNCHANGED scKind /\ UNCHANGED scFld /\ UNCHANGED scPart
BY DEF ScreenNext, Change, TurnPage, Answer, Failure, LogsClamped, BoxApplies, ChooseDependent,
   FollowLive, Settles, LiveReads, Refresh, Act, ActAnswered, ActFails, OpenDrawer, CloseDrawer,
   RecordsChange, scVars, scWhat

-----------------------------------------------------------------------------
(* What the user's moves may still make the screen ask for: the load that   *)
(* waits for its delay, the reload after an action (which may start another *)
(* delay), the one after a drawer, those of a box that was typed in (its    *)
(* page is asked for first) and the one a page of the logs may need again.  *)
DueCost == IF scDue THEN 1 ELSE 0
ActCost == IF scAct # Nothing THEN 2 ELSE 0
DrawerCost == IF scDrawer THEN 1 ELSE 0
BoxCost == IF scTyping # scVal THEN 2 ELSE 0
PageCost == IF scKind = "task_logs" /\ scPage = 2 THEN 1 ELSE 0

ReadsFollowMoves ==
  scSent + DueCost + ActCost + DrawerCost + BoxCost + PageCost <= 2 * scMoves + 1

BoxAhead == scTyping # scVal => scFld \in In(DelayedBoxes)

LEMMA CostsTyped ==
  /\ DueCost \in 0..1 /\ ActCost \in 0..2 /\ DrawerCost \in 0..1
  /\ BoxCost \in 0..2 /\ PageCost \in 0..1
BY DEF DueCost, ActCost, DrawerCost, BoxCost, PageCost

LEMMA QueriesTyped ==
  ASSUME NEW v \in Choices, NEW s \in Choices \union {"none"}, NEW p \in 1..2
  PROVE  Asked(v, s, p) \in Queries
BY ScreenNumbers DEF Asked, Queries

LEMMA CallsTyped ==
  ASSUME ScreenTypeOK
  PROVE  /\ \A n \in 0..(2 * MaxMoves + 2), q \in Queries : NewCall(n, q) \in ScreenCalls
         /\ Old(scCalls) \subseteq ScreenCalls
<1>1. \A n \in 0..(2 * MaxMoves + 2), q \in Queries : NewCall(n, q) \in ScreenCalls
  BY DEF NewCall, ScreenCalls, ScreenTypeOK
<1>2. \A c \in ScreenCalls : [c EXCEPT !.last = FALSE] \in ScreenCalls
  BY DEF ScreenCalls
<1>3. QED
  BY <1>1, <1>2 DEF Old, ScreenTypeOK

(* The effects of a change cost one read, or two where the page is reset by *)
(* an effect on the filter.                                                *)
LEMMA EffectsCost ==
  ASSUME ScreenTypeOK, NEW v, NEW s, NEW p, Effects(v, s, p)
  PROVE  \E n \in Nat, e \in 0..1 :
           /\ scSent' = n /\ DueCost' = e /\ n + e <= scSent + DueCost + 2
           /\ v = scVal => n + e <= scSent + DueCost + 1
<1>1. scSent \in Nat
  BY ScreenNumbers DEF ScreenTypeOK
<1>2. CASE scKind \in Delayed
  <2>1. scSent' = scSent
    BY <1>2 DEF Effects
  <2>2. PICK d \in 0..1 : DueCost' = d
    BY DEF DueCost
  <2>3. DueCost \in 0..1
    BY DEF DueCost
  <2>4. QED
    BY <1>1, <2>1, <2>2, <2>3
<1>3. CASE scKind \notin Delayed
  <2>1. /\ scDue' = scDue
        /\ scSent' = scSent + 1 \/ (/\ scSent' = scSent + 2
                                    /\ v # scVal /\ scFld \in In(EffectResets))
    BY <1>3 DEF Effects
  <2>2. DueCost' = DueCost /\ DueCost \in 0..1
    BY <2>1 DEF DueCost
  <2>3. QED
    BY <1>1, <2>1, <2>2
<1>4. QED
  BY <1>2, <1>3

LEMMA EffectsTyped ==
  ASSUME ScreenTypeOK, NEW v \in Choices, NEW s \in Choices \union {"none"}, NEW p \in 1..2,
         Effects(v, s, p), scSent' \in 0..(2 * MaxMoves + 2)
  PROVE  /\ scCalls' \subseteq ScreenCalls
         /\ scDue' \in BOOLEAN /\ scBusy' \in BOOLEAN /\ scError' \in BOOLEAN
<1>n. MaxMoves \in Nat /\ scSent \in Nat
  BY ScreenNumbers DEF ScreenTypeOK
<1>1. scDue' \in BOOLEAN /\ scBusy' \in BOOLEAN /\ scError' \in BOOLEAN
  BY DEF Effects, ScreenTypeOK
<1>2. CASE scKind \in Delayed
  BY <1>1, <1>2, CallsTyped DEF Effects, ScreenTypeOK
<1>3. CASE scKind \notin Delayed
  <2>1. scSent' \in {scSent + 1, scSent + 2}
    BY <1>3 DEF Effects
  <2>2. scSent + 1 \in 0..(2 * MaxMoves + 2)
    BY <1>n, <2>1
  <2>3. Asked(v, s, p) \in Queries /\ Asked(v, s, scPage) \in Queries
    BY QueriesTyped DEF ScreenTypeOK
  <2>4. /\ NewCall(scSent', Asked(v, s, p)) \in ScreenCalls
        /\ [NewCall(scSent + 1, Asked(v, s, scPage)) EXCEPT !.last = FALSE] \in ScreenCalls
    <3>1. NewCall(scSent + 1, Asked(v, s, scPage)) \in ScreenCalls
      BY <2>2, <2>3, CallsTyped
    <3>2. QED
      BY <2>3, <3>1, CallsTyped DEF ScreenCalls
  <2>5. scCalls' \subseteq Old(scCalls) \union
          {NewCall(scSent', Asked(v, s, p)),
           [NewCall(scSent + 1, Asked(v, s, scPage)) EXCEPT !.last = FALSE]}
    BY <1>3 DEF Effects
  <2>6. QED
    BY <1>1, <2>4, <2>5, CallsTyped
<1>4. QED
  BY <1>2, <1>3

-----------------------------------------------------------------------------
(* What the screens keep.  A page past the first is where there are pages;  *)
(* a dependent choice is where there is one; a screen that only reads has   *)
(* no action and no drawer; the latest read of such a screen asks for what  *)
(* it shows; and once no read of the logs or the jobs can still set their   *)
(* rows, these answer the query.                                           *)
Unturned == scKind \in Unpaged => scPage = 1
DependentsOfTheirOwn == scSub # "none" => Clears
OnlyReads == scKind \in Watched => scAct = Nothing /\ ~scDrawer
LatestAsksTheQuery == scKind \in Watched => \A c \in scCalls : c.last => c.asked = Query
Superseded == \A c \in scCalls : ~c.last
RowsWhenQuiet ==
  scKind \in {"task_logs", "run_jobs"} =>
    (Superseded /\ ~scDue /\ ~scError => scShown.asked = Query)

ScreenInv ==
  /\ ScreenTypeOK
  /\ ReadsFollowMoves /\ BoxAhead
  /\ Unturned /\ DependentsOfTheirOwn /\ OnlyReads
  /\ LatestAsksTheQuery /\ RowsWhenQuiet
  /\ ScreenIsConsistent

LEMMA QueryTyped == ScreenTypeOK => Query \in Queries /\ Query # Nothing
<1> SUFFICES ASSUME ScreenTypeOK
             PROVE  Query \in Queries /\ Query # Nothing
  OBVIOUS
<1>1. Query \in Queries
  BY QueriesTyped DEF Query, ScreenTypeOK
<1>2. Nothing \notin Queries
  BY DEF Nothing, Queries
<1>3. QED
  BY <1>1, <1>2

LEMMA ScreenStarts == ScreenInit => ScreenInv
<1> SUFFICES ASSUME ScreenInit
             PROVE  ScreenInv
  OBVIOUS
<1>n. MaxMoves \in Nat /\ Start \in Choices
  BY ScreenNumbers
<1>1. ScreenTypeOK
  <2>1. NoRows \in [asked : Queries \union {Nothing}, new : {"old", "new"}]
    BY DEF NoRows
  <2>2. 0 \in 0..(2 * MaxMoves + 2) /\ 0 \in 0..MaxMoves
    BY <1>n
  <2>3. scFld \in This.filters \union {"none"} /\ scPart \in This.parts \union {"rows"}
    BY DEF ScreenInit
  <2>4. /\ scVal \in Choices /\ scTyping \in Choices /\ scSub \in Choices \union {"none"}
        /\ scPage \in 1..2 /\ scMoves \in 0..MaxMoves /\ scSent \in 0..(2 * MaxMoves + 2)
    BY <1>n, <2>2 DEF ScreenInit
  <2>5. /\ scTurned \in BOOLEAN /\ scFollow \in BOOLEAN /\ scDue \in BOOLEAN
        /\ scBusy \in BOOLEAN /\ scError \in BOOLEAN /\ scDrawer \in BOOLEAN
    BY DEF ScreenInit
  <2>6. /\ scKind \in ScreenKinds /\ scCalls \subseteq ScreenCalls
        /\ scServer \in {"old", "new"} /\ scAct \in Queries \union {Nothing}
        /\ scShown \in [asked : Queries \union {Nothing}, new : {"old", "new"}]
    BY <2>1 DEF ScreenInit
  <2>7. QED
    BY <2>3, <2>4, <2>5, <2>6 DEF ScreenTypeOK
<1>2. ReadsFollowMoves /\ BoxAhead
  BY DEF ScreenInit, ReadsFollowMoves, BoxAhead, DueCost, ActCost, DrawerCost, BoxCost, PageCost
<1>3. Unturned /\ DependentsOfTheirOwn /\ OnlyReads
  BY DEF ScreenInit, Unturned, DependentsOfTheirOwn, OnlyReads
<1>4. LatestAsksTheQuery /\ RowsWhenQuiet
  BY DEF ScreenInit, LatestAsksTheQuery, RowsWhenQuiet
<1>5. ScreenIsConsistent
  BY DEF ScreenInit, ScreenIsConsistent, PageOfItsFilter, DependentsAgree, RowsAnswerTheScreen
<1>6. QED
  BY <1>1, <1>2, <1>3, <1>4, <1>5 DEF ScreenInv

-----------------------------------------------------------------------------
(* Every read is paid for by a move of the user.                           *)
LEMMA MovesPay ==
  ASSUME ScreenInv, [ScreenNext]_scVars
  PROVE  ReadsFollowMoves' /\ scMoves' \in 0..MaxMoves /\ scSent' \in 0..(2 * MaxMoves + 2)
<1>n. MaxMoves \in Nat /\ scSent \in Nat /\ scMoves \in 0..MaxMoves /\ ScreenTypeOK
  BY ScreenNumbers DEF ScreenInv, ScreenTypeOK
<1>k. UNCHANGED scKind /\ UNCHANGED scFld
  BY SameScreen
<1>v. PICK n, m : scSent' = n /\ scMoves' = m
  OBVIOUS
<1>c. PICK d \in 0..1, a \in 0..2, r \in 0..1, b \in 0..2, g \in 0..1 :
        DueCost' = d /\ ActCost' = a /\ DrawerCost' = r /\ BoxCost' = b /\ PageCost' = g
  BY DEF DueCost, ActCost, DrawerCost, BoxCost, PageCost
<1>o. /\ DueCost \in 0..1 /\ ActCost \in 0..2 /\ DrawerCost \in 0..1
      /\ BoxCost \in 0..2 /\ PageCost \in 0..1
  BY CostsTyped
<1>i. scSent + DueCost + ActCost + DrawerCost + BoxCost + PageCost <= 2 * scMoves + 1
  BY DEF ScreenInv, ReadsFollowMoves
<1>m. ASSUME Moves
      PROVE  m = scMoves + 1 /\ m \in 0..MaxMoves
  BY <1>n, <1>v, <1>m DEF Moves
<1> DEFINE Paid == /\ n \in Nat /\ m \in 0..MaxMoves
                   /\ n + d + a + r + b + g <= 2 * m + 1
<1>1. ASSUME NEW v \in Choices, Change(v)
      PROVE  Paid
  <2>1. Moves /\ a = ActCost /\ r = DrawerCost
    BY <1>1, <1>v, <1>c DEF Change, ActCost, DrawerCost
  <2>2. CASE scFld \in In(DelayedBoxes)
    <3>1. n = scSent /\ d = DueCost /\ g = PageCost
      BY <1>1, <1>v, <1>c, <1>k, <2>2 DEF Change, scAsk, scRead, DueCost, PageCost
    <3>2. QED
      BY <1>n, <1>c, <1>o, <1>i, <1>m, <2>1, <3>1
  <2>3. CASE scFld \notin In(DelayedBoxes)
    <3>1. b = 0
      BY <1>1, <1>v, <1>c, <2>3 DEF Change, After, BoxCost
    <3>2. g <= PageCost
      BY <1>1, <1>v, <1>c, <1>k, <2>3 DEF Change, After, PageCost
    <3>3. Effects(v, IF Clears THEN "none" ELSE scSub, IF Reset THEN 1 ELSE scPage)
      BY <1>1, <2>3 DEF Change, After
    <3>4. n \in Nat /\ n + d <= scSent + DueCost + 2
      BY <1>c, <1>n, <1>v, <3>3, EffectsCost
    <3>5. QED
      BY <1>n, <1>c, <1>o, <1>i, <1>m, <2>1, <3>1, <3>2, <3>4
  <2>4. QED
    BY <2>2, <2>3
<1>2. ASSUME NEW p \in 1..2, TurnPage(p)
      PROVE  Paid
  <2>1. Moves /\ a = ActCost /\ r = DrawerCost /\ b = BoxCost
    BY <1>2, <1>v, <1>c DEF TurnPage, After, ActCost, DrawerCost, BoxCost
  <2>2. g <= PageCost + 1
    BY <1>c, <1>o
  <2>3. Effects(scVal, scSub, p)
    BY <1>2 DEF TurnPage, After
  <2>4. n \in Nat /\ n + d <= scSent + DueCost + 1
    BY <1>c, <1>n, <1>v, <2>3, EffectsCost
  <2>5. QED
    BY <1>n, <1>c, <1>o, <1>i, <1>m, <2>1, <2>2, <2>4
<1>3. ASSUME NEW c \in scCalls, Answer(c) \/ Failure(c)
      PROVE  Paid
  <2>1. /\ n = scSent /\ m = scMoves
        /\ d = DueCost /\ a = ActCost /\ r = DrawerCost /\ b = BoxCost /\ g = PageCost
    BY <1>3, <1>v, <1>c, <1>k DEF Answer, Failure, scAsk, DueCost, ActCost, DrawerCost, BoxCost, PageCost
  <2>2. QED
    BY <1>n, <1>c, <1>i, <2>1
<1>4. ASSUME NEW c \in scCalls, LogsClamped(c)
      PROVE  Paid
  <2>1. /\ n = scSent + 1 /\ m = scMoves
        /\ d = DueCost /\ a = ActCost /\ r = DrawerCost /\ b = BoxCost
    BY <1>4, <1>v, <1>c DEF LogsClamped, DueCost, ActCost, DrawerCost, BoxCost
  <2>2. g = 0 /\ PageCost = 1
    BY <1>4, <1>v, <1>c DEF LogsClamped, PageCost
  <2>3. QED
    BY <1>n, <1>c, <1>o, <1>i, <2>1, <2>2
<1>5. ASSUME BoxApplies
      PROVE  Paid
  <2>1. m = scMoves /\ a = ActCost /\ r = DrawerCost
    BY <1>5, <1>v, <1>c DEF BoxApplies, ActCost, DrawerCost
  <2>2. b = 0 /\ BoxCost = 2
    BY <1>5, <1>v, <1>c DEF BoxApplies, After, BoxCost
  <2>3. g <= PageCost
    BY <1>5, <1>v, <1>c, <1>k DEF BoxApplies, After, PageCost
  <2>4. Effects(scTyping, scSub, IF Reset THEN 1 ELSE scPage)
    BY <1>5 DEF BoxApplies, After
  <2>5. n \in Nat /\ n + d <= scSent + DueCost + 2
    BY <1>c, <1>n, <1>v, <2>4, EffectsCost
  <2>6. QED
    BY <1>n, <1>c, <1>o, <1>i, <2>1, <2>2, <2>3, <2>5
<1>6. ASSUME ChooseDependent
      PROVE  Paid
  <2>1. Moves /\ a = ActCost /\ r = DrawerCost
    BY <1>6, <1>v, <1>c DEF ChooseDependent, ActCost, DrawerCost
  <2>2. CASE scKind = "retention"
    <3>1. n = scSent /\ d = DueCost /\ g = PageCost
      BY <1>6, <1>v, <1>c, <1>k, <2>2 DEF ChooseDependent, scRead, DueCost, PageCost
    <3>2. b = 0
      BY <1>6, <1>v, <1>c, <2>2 DEF ChooseDependent, Moving, BoxCost
    <3>3. QED
      BY <1>n, <1>c, <1>o, <1>i, <1>m, <2>1, <3>1, <3>2
  <2>3. CASE scKind # "retention"
    <3>1. PICK v : After(v, v, 1) /\ scTyping' = v
      BY <1>6, <2>3 DEF ChooseDependent
    <3>2. b = 0
      BY <1>c, <3>1 DEF After, BoxCost
    <3>3. g = 0
      BY <1>c, <3>1 DEF After, PageCost
    <3>4. n \in Nat /\ n + d <= scSent + DueCost + 2
      BY <1>c, <1>n, <1>v, <3>1, EffectsCost DEF After
    <3>5. QED
      BY <1>n, <1>c, <1>o, <1>i, <1>m, <2>1, <3>2, <3>3, <3>4
  <2>4. QED
    BY <2>2, <2>3
<1>7. ASSUME FollowLive
      PROVE  Paid
  <2>1. Moves /\ a = ActCost /\ r = DrawerCost /\ b = BoxCost
    BY <1>7, <1>v, <1>c DEF FollowLive, After, scAsk, ActCost, DrawerCost, BoxCost
  <2>2. g <= PageCost
    BY <1>7, <1>v, <1>c, <1>k DEF FollowLive, After, scAsk, PageCost
  <2>3. CASE Effects(scVal, scSub, 1)
    <3>1. n \in Nat /\ n + d <= scSent + DueCost + 1
      BY <1>c, <1>n, <1>v, <2>3, EffectsCost
    <3>2. QED
      BY <1>n, <1>c, <1>o, <1>i, <1>m, <2>1, <2>2, <3>1
  <2>4. CASE UNCHANGED <<scDue, scSent>>
    <3>1. n = scSent /\ d = DueCost
      BY <1>v, <1>c, <2>4 DEF DueCost
    <3>2. QED
      BY <1>n, <1>c, <1>o, <1>i, <1>m, <2>1, <2>2, <3>1
  <2>5. QED
    BY <1>7, <2>3, <2>4 DEF FollowLive, After, scRead
<1>8. ASSUME Settles
      PROVE  Paid
  <2>1. /\ n = scSent + 1 /\ m = scMoves
        /\ a = ActCost /\ r = DrawerCost /\ b = BoxCost /\ g = PageCost
    BY <1>8, <1>v, <1>c, <1>k DEF Settles, Load, scAsk, ActCost, DrawerCost, BoxCost, PageCost
  <2>2. d = 0 /\ DueCost = 1
    BY <1>8, <1>v, <1>c DEF Settles, DueCost
  <2>3. QED
    BY <1>n, <1>c, <1>o, <1>i, <2>1, <2>2
<1>9. ASSUME LiveReads \/ RecordsChange
      PROVE  Paid
  <2>1. /\ n = scSent /\ m = scMoves
        /\ d = DueCost /\ a = ActCost /\ r = DrawerCost /\ b = BoxCost /\ g = PageCost
    BY <1>9, <1>v, <1>c, <1>k DEF LiveReads, RecordsChange, scAsk, scRead, DueCost, ActCost, DrawerCost,
       BoxCost, PageCost
  <2>2. QED
    BY <1>n, <1>c, <1>i, <2>1
<1>10. ASSUME Refresh
       PROVE  Paid
  <2>1. /\ Moves /\ n = scSent + 1 /\ d = DueCost
        /\ a = ActCost /\ r = DrawerCost /\ b = BoxCost /\ g = PageCost
    BY <1>10, <1>v, <1>c, <1>k DEF Refresh, Load, scAsk, DueCost, ActCost, DrawerCost, BoxCost, PageCost
  <2>2. QED
    BY <1>n, <1>c, <1>o, <1>i, <1>m, <2>1
<1>11. ASSUME Act
       PROVE  Paid
  <2>1. /\ Moves /\ n = scSent /\ d = DueCost
        /\ r = DrawerCost /\ b = BoxCost /\ g = PageCost /\ ActCost = 0
    BY <1>11, <1>v, <1>c, <1>k DEF Act, scAsk, scRead, DueCost, ActCost, DrawerCost, BoxCost, PageCost
  <2>2. QED
    BY <1>n, <1>c, <1>o, <1>i, <1>m, <2>1
<1>12. ASSUME ActAnswered
       PROVE  Paid
  <2>1. /\ n = scSent + 1 /\ m = scMoves /\ r = DrawerCost
        /\ a = 0 /\ ActCost = 2
    BY <1>12, <1>v, <1>c DEF ActAnswered, Load, ActCost, DrawerCost
  <2>2. d <= DueCost + 1
    BY <1>c, <1>o
  <2>3. b <= BoxCost /\ g <= PageCost
    <3>1. CASE scKind = "tickets"
      <4>1. scTyping' = scVal'
        BY <1>12, <3>1 DEF ActAnswered, BackToMine
      <4>2. b = 0
        BY <1>v, <1>c, <4>1 DEF BoxCost
      <4>3. g = 0
        BY <1>12, <1>v, <1>c, <1>k, <3>1 DEF PageCost
      <4>4. QED
        BY <1>o, <4>2, <4>3
    <3>2. CASE scKind # "tickets"
      <4>1. UNCHANGED scVal /\ UNCHANGED scPage /\ UNCHANGED scTyping
        BY <1>12, <3>2 DEF ActAnswered, scAsk
      <4>2. b = BoxCost /\ g = PageCost
        BY <1>c, <1>k, <4>1 DEF BoxCost, PageCost
      <4>3. QED
        BY <1>o, <4>2
    <3>3. QED
      BY <3>1, <3>2
  <2>4. QED
    BY <1>n, <1>c, <1>o, <1>i, <2>1, <2>2, <2>3
<1>13. ASSUME ActFails
       PROVE  Paid
  <2>1. /\ n = scSent /\ m = scMoves /\ a = 0
        /\ d = DueCost /\ r = DrawerCost /\ b = BoxCost /\ g = PageCost
    BY <1>13, <1>v, <1>c, <1>k DEF ActFails, scAsk, scRead, DueCost, ActCost, DrawerCost, BoxCost, PageCost
  <2>2. QED
    BY <1>n, <1>c, <1>o, <1>i, <2>1
<1>14. ASSUME OpenDrawer
       PROVE  Paid
  <2>1. /\ Moves /\ n = scSent
        /\ d = DueCost /\ a = ActCost /\ b = BoxCost /\ g = PageCost
    BY <1>14, <1>v, <1>c, <1>k DEF OpenDrawer, scAsk, scRead, DueCost, ActCost, BoxCost, PageCost
  <2>2. QED
    BY <1>n, <1>c, <1>o, <1>i, <1>m, <2>1
<1>15. ASSUME CloseDrawer
       PROVE  Paid
  <2>1. /\ m = scMoves /\ r = 0 /\ DrawerCost = 1
        /\ d = DueCost /\ a = ActCost /\ b = BoxCost /\ g = PageCost
    BY <1>15, <1>v, <1>c, <1>k DEF CloseDrawer, scAsk, DueCost, ActCost, DrawerCost, BoxCost, PageCost
  <2>2. n \in {scSent, scSent + 1}
    BY <1>15, <1>v DEF CloseDrawer, Load, scRead
  <2>3. QED
    BY <1>n, <1>c, <1>o, <1>i, <2>1, <2>2
<1>16. ASSUME UNCHANGED scVars
       PROVE  Paid
  <2>1. /\ n = scSent /\ m = scMoves
        /\ d = DueCost /\ a = ActCost /\ r = DrawerCost /\ b = BoxCost /\ g = PageCost
    BY <1>16, <1>v, <1>c, <1>k DEF scVars, scAsk, scRead, DueCost, ActCost, DrawerCost, BoxCost, PageCost
  <2>2. QED
    BY <1>n, <1>c, <1>i, <2>1
<1>17. Paid
  BY <1>1, <1>2, <1>3, <1>4, <1>5, <1>6, <1>7, <1>8, <1>9, <1>10, <1>11, <1>12, <1>13, <1>14,
     <1>15, <1>16 DEF ScreenNext
<1>18. n <= 2 * m + 1 /\ n \in 0..(2 * MaxMoves + 2)
  BY <1>n, <1>17
<1>19. ReadsFollowMoves'
  BY <1>v, <1>c, <1>17 DEF ReadsFollowMoves
<1>20. QED
  BY <1>v, <1>17, <1>18, <1>19

-----------------------------------------------------------------------------
AskTyped == /\ scVal \in Choices /\ scTyping \in Choices /\ scSub \in Choices \union {"none"}
            /\ scPage \in 1..2

LEMMA AskStaysTyped ==
  ASSUME ScreenTypeOK, [ScreenNext]_scVars
  PROVE  AskTyped'
<1>n. ScreenTypeOK /\ Start \in Choices /\ 1 \in 1..2
  BY ScreenNumbers
<1> USE DEF ScreenTypeOK, AskTyped
<1>1. ASSUME NEW v \in Choices, Change(v)
      PROVE  AskTyped'
  BY <1>n, <1>1 DEF Change, After, scAsk
<1>2. ASSUME NEW p \in 1..2, TurnPage(p)
      PROVE  AskTyped'
  BY <1>n, <1>2 DEF TurnPage, After
<1>3. ASSUME BoxApplies
      PROVE  AskTyped'
  BY <1>n, <1>3 DEF BoxApplies, After
<1>4. ASSUME ChooseDependent
      PROVE  AskTyped'
  <2>1. PICK v \in Choices : /\ scTyping' = v
                             /\ \/ scSub' = v /\ UNCHANGED scVal /\ UNCHANGED scPage
                                \/ After(v, v, 1)
    BY <1>n, <1>4 DEF ChooseDependent
  <2>2. QED
    BY <1>n, <2>1 DEF After
<1>5. ASSUME FollowLive
      PROVE  AskTyped'
  BY <1>n, <1>5 DEF FollowLive, After, scAsk
<1>6. ASSUME ActAnswered
      PROVE  AskTyped'
  BY <1>n, <1>6 DEF ActAnswered, BackToMine, scAsk
<1>7. ASSUME NEW c \in scCalls, LogsClamped(c)
      PROVE  AskTyped'
  BY <1>n, <1>7 DEF LogsClamped
<1>8. ASSUME UNCHANGED <<scAsk, scTyping>>
      PROVE  AskTyped'
  BY <1>n, <1>8 DEF scAsk
<1>9. ASSUME NEW c \in scCalls, Answer(c) \/ Failure(c)
      PROVE  AskTyped'
  BY <1>8, <1>9 DEF Answer, Failure
<1>10. ASSUME Settles \/ LiveReads \/ Refresh \/ Act \/ ActFails
       PROVE  AskTyped'
  BY <1>8, <1>10 DEF Settles, LiveReads, Refresh, Act, ActFails
<1>11. ASSUME OpenDrawer \/ CloseDrawer \/ RecordsChange \/ UNCHANGED scVars
       PROVE  AskTyped'
  BY <1>8, <1>11 DEF OpenDrawer, CloseDrawer, RecordsChange, scVars
<1>12. QED
  BY <1>1, <1>2, <1>3, <1>4, <1>5, <1>6, <1>7, <1>9, <1>10, <1>11 DEF ScreenNext

ReadsTyped == /\ scCalls \subseteq ScreenCalls
              /\ scDue \in BOOLEAN /\ scBusy \in BOOLEAN /\ scError \in BOOLEAN

LEMMA LoadTyped ==
  ASSUME ScreenTypeOK, NEW q \in Queries, Load(q), scSent' \in 0..(2 * MaxMoves + 2)
  PROVE  scCalls' \subseteq ScreenCalls /\ scBusy' \in BOOLEAN /\ scError' \in BOOLEAN
<1>1. scCalls' = Old(scCalls) \union {NewCall(scSent', q)}
  BY DEF Load
<1>2. NewCall(scSent', q) \in ScreenCalls
  BY CallsTyped
<1>3. scBusy' \in BOOLEAN /\ scError' \in BOOLEAN
  BY DEF Load, ScreenTypeOK
<1>4. QED
  BY <1>1, <1>2, <1>3, CallsTyped

LEMMA ReadsStayTyped ==
  ASSUME ScreenTypeOK, [ScreenNext]_scVars, scSent' \in 0..(2 * MaxMoves + 2)
  PROVE  ReadsTyped'
<1>n. /\ ReadsTyped /\ Query \in Queries /\ 1 \in 1..2 /\ scKind \in ScreenKinds
      /\ scVal \in Choices /\ scSub \in Choices \union {"none"} /\ scPage \in 1..2
      /\ scTyping \in Choices
  BY QueryTyped DEF ScreenTypeOK, ReadsTyped
<1> DEFINE Effected == \E v \in Choices, s \in Choices \union {"none"}, p \in 1..2 : Effects(v, s, p)
<1>e. Effected => ReadsTyped'
  BY EffectsTyped DEF ReadsTyped
<1>u. UNCHANGED <<scDue, scCalls, scBusy, scError>> => ReadsTyped'
  BY <1>n DEF ReadsTyped
<1> HIDE DEF Effected
<1>1. ASSUME NEW v \in Choices, Change(v)
      PROVE  ReadsTyped'
  <2>1. CASE scFld \in In(DelayedBoxes)
    BY <1>1, <1>u, <2>1 DEF Change, scRead, scView
  <2>2. CASE scFld \notin In(DelayedBoxes)
    <3>1. Effects(v, IF Clears THEN "none" ELSE scSub, IF Reset THEN 1 ELSE scPage)
      BY <1>1, <2>2 DEF Change, After
    <3>2. Effected
      BY <1>n, <3>1 DEF Effected
    <3>3. QED
      BY <1>e, <3>2
  <2>3. QED
    BY <2>1, <2>2
<1>2. ASSUME NEW p \in 1..2, TurnPage(p)
      PROVE  ReadsTyped'
  BY <1>n, <1>e, <1>2 DEF TurnPage, After, Effected
<1>3. ASSUME NEW c \in scCalls, Answer(c) \/ Failure(c)
      PROVE  ReadsTyped'
  <2>1. scCalls' \subseteq ScreenCalls
    BY <1>n, <1>3 DEF Answer, Failure, ReadsTyped
  <2>2. scDue' \in BOOLEAN /\ scBusy' \in BOOLEAN /\ scError' \in BOOLEAN
    BY <1>n, <1>3 DEF Answer, Failure, scView, ReadsTyped
  <2>3. QED
    BY <2>1, <2>2 DEF ReadsTyped
<1>4. ASSUME NEW c \in scCalls, LogsClamped(c)
      PROVE  ReadsTyped'
  <2>1. scCalls' = Old(scCalls \ {c}) \union {NewCall(scSent', Asked(scVal, scSub, 1))}
    BY <1>4 DEF LogsClamped
  <2>2. NewCall(scSent', Asked(scVal, scSub, 1)) \in ScreenCalls
    BY <1>n, QueriesTyped, CallsTyped
  <2>3. Old(scCalls \ {c}) \subseteq ScreenCalls
    BY CallsTyped DEF Old
  <2>4. scDue' \in BOOLEAN /\ scBusy' \in BOOLEAN /\ scError' \in BOOLEAN
    BY <1>n, <1>4 DEF LogsClamped, ReadsTyped
  <2>5. QED
    BY <2>1, <2>2, <2>3, <2>4 DEF ReadsTyped
<1>5. ASSUME BoxApplies
      PROVE  ReadsTyped'
  <2>1. Effects(scTyping, scSub, IF Reset THEN 1 ELSE scPage)
    BY <1>5 DEF BoxApplies, After
  <2>2. Effected
    BY <1>n, <2>1 DEF Effected
  <2>3. QED
    BY <1>e, <2>2
<1>6. ASSUME ChooseDependent
      PROVE  ReadsTyped'
  <2>1. PICK v \in Choices : \/ UNCHANGED <<scDue, scCalls, scBusy, scError>>
                             \/ Effects(v, v, 1)
    BY <1>n, <1>6 DEF ChooseDependent, After, scRead, scView
  <2>2. QED
    BY <1>n, <1>e, <1>u, <2>1 DEF Effected
<1>7. ASSUME FollowLive
      PROVE  ReadsTyped'
  <2>1. Effects(scVal, scSub, 1) \/ UNCHANGED <<scDue, scCalls, scBusy, scError>>
    BY <1>7 DEF FollowLive, After, scRead, scView
  <2>2. QED
    BY <1>n, <1>e, <1>u, <2>1 DEF Effected
<1>8. ASSUME \/ Settles /\ Load(Query)
             \/ Refresh /\ Load(Query)
             \/ CloseDrawer /\ Load(Query)
      PROVE  ReadsTyped'
  <2>1. scCalls' \subseteq ScreenCalls /\ scBusy' \in BOOLEAN /\ scError' \in BOOLEAN
    BY <1>n, <1>8, LoadTyped
  <2>2. scDue' \in BOOLEAN
    BY <1>n, <1>8 DEF Settles, Refresh, CloseDrawer, ReadsTyped
  <2>3. QED
    BY <2>1, <2>2 DEF ReadsTyped
<1>9. ASSUME LiveReads
      PROVE  ReadsTyped'
  <2>1. NewCall(0, Query) \in ScreenCalls
    BY <1>n, ScreenNumbers, CallsTyped
  <2>2. scCalls' \subseteq ScreenCalls
    BY <1>9, <2>1, CallsTyped DEF LiveReads
  <2>3. scDue' \in BOOLEAN /\ scBusy' \in BOOLEAN /\ scError' \in BOOLEAN
    BY <1>n, <1>9 DEF LiveReads, ReadsTyped
  <2>4. QED
    BY <2>2, <2>3 DEF ReadsTyped
<1>10. ASSUME ActAnswered
       PROVE  ReadsTyped'
  <2>1. scAct \in Queries /\ Load(scAct)
    BY <1>10 DEF ActAnswered, ScreenTypeOK
  <2>2. scCalls' \subseteq ScreenCalls /\ scBusy' \in BOOLEAN /\ scError' \in BOOLEAN
    BY <2>1, LoadTyped
  <2>3. scDue' \in BOOLEAN
    BY <1>n, <1>10 DEF ActAnswered, BackToMine, ReadsTyped
  <2>4. QED
    BY <2>2, <2>3 DEF ReadsTyped
<1>11. ASSUME Act \/ ActFails
       PROVE  ReadsTyped'
  <2>1. scCalls' \subseteq ScreenCalls
    BY <1>n, <1>11 DEF Act, ActFails, scRead, ReadsTyped
  <2>2. scDue' \in BOOLEAN /\ scBusy' \in BOOLEAN /\ scError' \in BOOLEAN
    BY <1>n, <1>11 DEF Act, ActFails, scRead, ReadsTyped
  <2>3. QED
    BY <2>1, <2>2 DEF ReadsTyped
<1>12. ASSUME OpenDrawer \/ RecordsChange \/ UNCHANGED scVars
       PROVE  ReadsTyped'
  BY <1>u, <1>12 DEF OpenDrawer, RecordsChange, scRead, scView, scVars
<1>13. ASSUME CloseDrawer, UNCHANGED <<scRead, scBusy, scError>>
       PROVE  ReadsTyped'
  BY <1>u, <1>13 DEF CloseDrawer, scRead
<1>14. ASSUME Settles \/ Refresh \/ CloseDrawer
       PROVE  ReadsTyped'
  BY <1>8, <1>13, <1>14 DEF Settles, Refresh, CloseDrawer
<1>15. QED
  BY <1>1, <1>2, <1>3, <1>4, <1>5, <1>6, <1>7, <1>8, <1>9, <1>10, <1>11, <1>12, <1>13, <1>14
     DEF ScreenNext

LEMMA ScreenStaysTyped ==
  ASSUME ScreenInv, [ScreenNext]_scVars
  PROVE  ScreenTypeOK'
<1>1. ScreenTypeOK
  BY DEF ScreenInv
<1>2. /\ AskTyped' /\ ReadsTyped'
      /\ scMoves' \in 0..MaxMoves /\ scSent' \in 0..(2 * MaxMoves + 2)
  BY <1>1, MovesPay, AskStaysTyped, ReadsStayTyped
<1>3. /\ scKind' \in ScreenKinds
      /\ scFld' \in This'.filters \union {"none"} /\ scPart' \in This'.parts \union {"rows"}
  BY <1>1, SameScreen DEF ScreenTypeOK, This, ScreenKinds
<1>4. scTurned' \in BOOLEAN
  BY <1>1 DEF ScreenTypeOK, ScreenNext, Change, TurnPage, Answer, Failure, LogsClamped,
     BoxApplies, ChooseDependent, FollowLive, Settles, LiveReads, Refresh, Act, ActAnswered,
     BackToMine, ActFails, OpenDrawer, CloseDrawer, RecordsChange, scVars, scAsk
<1>5. scFollow' \in BOOLEAN /\ scDrawer' \in BOOLEAN
  BY <1>1 DEF ScreenTypeOK, ScreenNext, Change, TurnPage, Answer, Failure, LogsClamped,
     BoxApplies, ChooseDependent, FollowLive, Settles, LiveReads, Refresh, Act, ActAnswered,
     ActFails, OpenDrawer, CloseDrawer, RecordsChange, scVars
<1>6. scServer' \in {"old", "new"} /\ scAct' \in Queries \union {Nothing}
  BY <1>1, QueryTyped DEF ScreenTypeOK, ScreenNext, Change, TurnPage, Answer, Failure,
     LogsClamped, BoxApplies, ChooseDependent, FollowLive, Settles, LiveReads, Refresh, Act,
     ActAnswered, ActFails, OpenDrawer, CloseDrawer, RecordsChange, scVars
<1>7. scShown' \in [asked : Queries \union {Nothing}, new : {"old", "new"}]
  <2> DEFINE Shows == [asked : Queries \union {Nothing}, new : {"old", "new"}]
  <2>1. NoRows \in Shows /\ scShown \in Shows
    BY <1>1 DEF NoRows, ScreenTypeOK
  <2>2. \A c \in scCalls : c \in ScreenCalls
    BY <1>1 DEF ScreenTypeOK
  <2>3. \A c \in ScreenCalls, n \in {"old", "new"} :
          c.new \in {"old", "new"} /\ [asked |-> c.asked, new |-> n] \in Shows
    BY DEF ScreenCalls
  <2>4. ASSUME NEW c \in scCalls, Answer(c) \/ Failure(c)
        PROVE  scShown' \in Shows
    <3>1. \/ scShown' \in {scShown, NoRows}
          \/ \E n \in {c.new, scServer} : scShown' = [asked |-> c.asked, new |-> n]
      BY <2>4 DEF Answer, Failure, scView
    <3>2. c \in ScreenCalls /\ scServer \in {"old", "new"}
      BY <1>1, <2>2 DEF ScreenTypeOK
    <3>3. QED
      BY <2>1, <2>3, <3>1, <3>2
  <2>5. ASSUME ~(\E c \in scCalls : Answer(c) \/ Failure(c))
        PROVE  scShown' \in {scShown, NoRows}
    <3>1. CASE UNCHANGED scView \/ UNCHANGED scShown
      BY <3>1 DEF scView
    <3>2. CASE \E v, s, p : After(v, s, p)
      BY <3>2 DEF After
    <3>3. QED
      BY <2>5, <3>1, <3>2 DEF ScreenNext, Change, TurnPage, LogsClamped,
         BoxApplies, ChooseDependent, FollowLive, Settles, LiveReads, Refresh, Act, ActAnswered,
         ActFails, OpenDrawer, CloseDrawer, RecordsChange, scVars
  <2>6. QED
    BY <2>1, <2>4, <2>5
<1>8. QED
  BY <1>2, <1>3, <1>4, <1>5, <1>6, <1>7 DEF ScreenTypeOK, AskTyped, ReadsTyped

-----------------------------------------------------------------------------
(* Page and dependent choice follow the filter.                            *)
FollowsFilter == PageOfItsFilter /\ DependentsAgree /\ DependentsOfTheirOwn /\ Unturned

LEMMA PageFollowsFilter ==
  ASSUME ScreenInv, [ScreenNext]_scVars
  PROVE  FollowsFilter' /\ BoxAhead'
<1> DEFINE Kept == FollowsFilter' /\ BoxAhead'
<1>n. ScreenTypeOK /\ FollowsFilter /\ BoxAhead
  BY DEF ScreenInv, ScreenIsConsistent, FollowsFilter
<1>k. UNCHANGED scKind /\ UNCHANGED scFld /\ (Clears' <=> Clears)
  BY SameScreen DEF Clears, In
<1>b. In(DelayedBoxes)' = In(DelayedBoxes)
  BY <1>k DEF In
<1>u. UNCHANGED <<scVal, scSub, scTyping, scPage, scTurned>> => Kept
  BY <1>n, <1>k, <1>b DEF FollowsFilter, PageOfItsFilter, DependentsAgree, DependentsOfTheirOwn,
     Unturned, BoxAhead
<1>f. \A s \in {"none"} \union Choices, p \in 1..2 :
        /\ scSub' = s /\ scPage' = p /\ scTyping' = scVal'
        /\ s = "none" \/ (Clears /\ s = scVal')
        /\ p = 1 \/ (scTurned' /\ scKind \notin Unpaged)
        => Kept
  BY <1>k DEF FollowsFilter, PageOfItsFilter, DependentsAgree, DependentsOfTheirOwn,
     Unturned, BoxAhead
<1>1. ASSUME NEW v \in Choices, Change(v)
      PROVE  Kept
  <2>1. CASE scFld \in In(DelayedBoxes)
    <3>1. UNCHANGED <<scVal, scSub, scPage, scTurned>>
      BY <1>1, <2>1 DEF Change, scAsk
    <3>2. QED
      BY <1>n, <1>k, <1>b, <2>1, <3>1 DEF FollowsFilter, PageOfItsFilter, DependentsAgree,
         DependentsOfTheirOwn, Unturned, BoxAhead
  <2>2. CASE scFld \notin In(DelayedBoxes)
    <3>1. /\ scVal' = v /\ scTyping' = v
          /\ scSub' = (IF Clears THEN "none" ELSE scSub)
          /\ scPage' = (IF Reset THEN 1 ELSE scPage)
      BY <1>1, <2>2 DEF Change, After
    <3>2. scSub' = "none"
      BY <1>n, <3>1 DEF FollowsFilter, DependentsOfTheirOwn
    <3>3. Reset \/ scKind \in Unpaged
      BY <1>1, <1>n, FiltersReset DEF Change, ScreenTypeOK
    <3>4. scPage' = 1
      BY <1>n, <3>1, <3>3 DEF FollowsFilter, Unturned
    <3>5. QED
      BY <1>f, <3>1, <3>2, <3>4
  <2>3. QED
    BY <2>1, <2>2
<1>2. ASSUME NEW p \in 1..2, TurnPage(p)
      PROVE  Kept
  BY <1>2, <1>n, <1>k, <1>b DEF TurnPage, After, FollowsFilter, PageOfItsFilter, DependentsAgree,
     DependentsOfTheirOwn, Unturned, BoxAhead
<1>3. ASSUME NEW c \in scCalls, Answer(c) \/ Failure(c)
      PROVE  Kept
  BY <1>3, <1>u DEF Answer, Failure, scAsk
<1>4. ASSUME NEW c \in scCalls, LogsClamped(c)
      PROVE  Kept
  BY <1>4, <1>n, <1>k, <1>b DEF LogsClamped, FollowsFilter, PageOfItsFilter, DependentsAgree,
     DependentsOfTheirOwn, Unturned, BoxAhead
<1>5. ASSUME BoxApplies
      PROVE  Kept
  <2>1. /\ scFld \in This.filters /\ scKind \in {"credentials", "celery"} /\ ~Clears
    BY <1>5, <1>n, BoxesAreFilters DEF BoxApplies, BoxAhead, Clears
  <2>2. Reset
    BY <1>n, <2>1, FiltersReset DEF Unpaged, ScreenTypeOK
  <2>3. scVal' = scTyping /\ scTyping' = scTyping /\ scSub' = scSub /\ scPage' = 1
    BY <1>5, <2>2 DEF BoxApplies, After
  <2>4. scSub = "none"
    BY <1>n, <2>1 DEF FollowsFilter, DependentsOfTheirOwn
  <2>5. QED
    BY <1>f, <2>3, <2>4
<1>6. ASSUME ChooseDependent
      PROVE  Kept
  <2>1. Clears
    BY <1>6 DEF ChooseDependent, Clears
  <2>2. CASE scKind = "retention"
    <3>1. scTyping' = scVal /\ scSub' = scVal /\ UNCHANGED <<scVal, scPage, scTurned>>
      BY <1>6, <2>2 DEF ChooseDependent, Moving
    <3>2. QED
      BY <1>n, <1>k, <1>b, <2>1, <3>1 DEF FollowsFilter, PageOfItsFilter, DependentsAgree,
         DependentsOfTheirOwn, Unturned, BoxAhead
  <2>3. CASE scKind # "retention"
    <3>1. PICK v \in Choices : scTyping' = v /\ After(v, v, 1)
      BY <1>6, <1>n, <2>3 DEF ChooseDependent, ScreenTypeOK
    <3>2. scSub' = v /\ scVal' = v /\ scPage' = 1 /\ 1 \in 1..2
      BY <3>1 DEF After
    <3>3. QED
      BY <1>f, <2>1, <3>1, <3>2
  <2>4. QED
    BY <2>2, <2>3
<1>7. ASSUME FollowLive
      PROVE  Kept
  <2>1. CASE UNCHANGED scAsk
    BY <1>7, <1>u, <2>1 DEF FollowLive, scAsk
  <2>2. CASE After(scVal, scSub, 1)
    BY <1>7, <1>n, <1>k, <1>b, <2>2 DEF FollowLive, After, FollowsFilter, PageOfItsFilter,
       DependentsAgree, DependentsOfTheirOwn, Unturned, BoxAhead
  <2>3. QED
    BY <1>7, <2>1, <2>2 DEF FollowLive
<1>8. ASSUME Settles \/ LiveReads \/ Refresh \/ Act \/ ActFails
      PROVE  Kept
  BY <1>8, <1>u DEF Settles, LiveReads, Refresh, Act, ActFails, scAsk
<1>9. ASSUME OpenDrawer \/ CloseDrawer \/ RecordsChange \/ UNCHANGED scVars
      PROVE  Kept
  BY <1>9, <1>u DEF OpenDrawer, CloseDrawer, RecordsChange, scVars, scAsk
<1>10. ASSUME ActAnswered
       PROVE  Kept
  <2>1. CASE scKind = "tickets"
    <3>1. PICK moved \in BOOLEAN :
            /\ scPage' = (IF moved THEN 1 ELSE scPage)
            /\ scTurned' = (scTurned /\ ~moved)
      BY <1>10, <2>1 DEF ActAnswered, BackToMine
    <3>2. scTyping' = scVal' /\ scVal' \in {scVal, Start} /\ scSub' = "none"
      BY <1>10, <2>1 DEF ActAnswered, BackToMine
    <3>3. scKind \notin Unpaged
      BY <2>1 DEF Unpaged
    <3>4. QED
      BY <1>f, <1>n, <1>k, <1>b, <3>1, <3>2, <3>3 DEF FollowsFilter, PageOfItsFilter,
         DependentsAgree, DependentsOfTheirOwn, Unturned, BoxAhead
  <2>2. CASE scKind = "retention"
    BY <1>10, <1>n, <1>k, <1>b, <2>2 DEF ActAnswered, FollowsFilter, PageOfItsFilter,
       DependentsAgree, DependentsOfTheirOwn, Unturned, BoxAhead
  <2>3. CASE scKind \notin {"tickets", "retention"}
    BY <1>10, <1>u, <2>3 DEF ActAnswered, scAsk
  <2>4. QED
    BY <2>1, <2>2, <2>3
<1>11. QED
  BY <1>1, <1>2, <1>3, <1>4, <1>5, <1>6, <1>7, <1>8, <1>9, <1>10 DEF ScreenNext

-----------------------------------------------------------------------------
(* A read that starts becomes the latest one and asks for the query; the    *)
(* earlier ones are no longer the latest.                                  *)
LEMMA OldOnesAreNotLast ==
  ASSUME ScreenTypeOK, NEW C \in SUBSET scCalls
  PROVE  \A o \in Old(C) : ~o.last
BY DEF Old, ScreenTypeOK, ScreenCalls

LEMMA NewOneIsLast ==
  \A n, q : NewCall(n, q).last /\ NewCall(n, q).asked = q
BY DEF NewCall

LEMMA LateOneIsNot ==
  \A n, q : ~[NewCall(n, q) EXCEPT !.last = FALSE].last
BY DEF NewCall

LEMMA LoadAsks ==
  ASSUME ScreenTypeOK, NEW n, NEW C \in SUBSET scCalls,
         scCalls' = Old(C) \union {NewCall(n, Query')}
  PROVE  ~Superseded' /\ \A c \in scCalls' : c.last => c.asked = Query'
BY OldOnesAreNotLast, NewOneIsLast DEF Superseded

(* The effects of a change read the new query at once, or in the search     *)
(* dialog after its delay, until when it is busy.                          *)
LEMMA EffectsAsk ==
  ASSUME ScreenTypeOK, scKind \in Watched, UNCHANGED scKind, UNCHANGED scFld,
         NEW v, NEW s, NEW p, After(v, s, p)
  PROVE  /\ \A c \in scCalls' : c.last => c.asked = Query'
         /\ IF scKind = "search" THEN scBusy' ELSE ~Superseded'
<1>1. Query' = Asked(v, s, p)
  BY DEF After, Query, Asked, This
<1>2. Effects(v, s, p) /\ scKind \in Cleaned /\ (scKind = "search" <=> scKind \in Delayed)
  BY WatchedOnlyRead DEF After
<1>3. CASE scKind = "search"
  <2>1. scCalls' = Old(scCalls) /\ scBusy'
    BY <1>2, <1>3 DEF Effects
  <2>2. QED
    BY <1>3, <2>1, OldOnesAreNotLast
<1>4. CASE scKind # "search"
  <2>1. \E m, n, q : scCalls' \in
          {Old(scCalls) \union {NewCall(m, Asked(v, s, p))},
           Old(scCalls) \union {NewCall(m, Asked(v, s, p))}
             \union {[NewCall(n, q) EXCEPT !.last = FALSE]}}
    BY <1>2, <1>4 DEF Effects
  <2>2. PICK m, n, q : scCalls' \in
          {Old(scCalls) \union {NewCall(m, Query')},
           Old(scCalls) \union {NewCall(m, Query')}
             \union {[NewCall(n, q) EXCEPT !.last = FALSE]}}
    BY <1>1, <2>1
  <2>3. QED
    BY <1>4, <2>2, OldOnesAreNotLast, NewOneIsLast, LateOneIsNot DEF Superseded
<1>5. QED
  BY <1>3, <1>4

(* What the watched screens do at all.                                     *)
LEMMA WatchedSteps ==
  ASSUME ScreenInv, [ScreenNext]_scVars, scKind \in Watched
  PROVE  \/ \E v, s, p : After(v, s, p)
         \/ Settles \/ LiveReads \/ (Refresh /\ scKind # "search")
         \/ \E c \in scCalls : Answer(c) \/ Failure(c) \/ LogsClamped(c)
         \/ UNCHANGED <<scAsk, scDue, scRead, scView>>
<1>1. /\ scAct = Nothing /\ ~scDrawer /\ In(DelayedBoxes) = {} /\ In(ClearedBy) = {}
      /\ This.posts = {} /\ "drawer" \notin This.offers
      /\ scKind = "search" => "refresh" \notin This.offers /\ "retry" \notin This.offers
      /\ scTyping = scVal
  BY WatchedOnlyRead DEF ScreenInv, OnlyReads, BoxAhead
<1>2. ~BoxApplies /\ ~ChooseDependent /\ ~Act /\ ~ActAnswered /\ ~ActFails
  BY <1>1 DEF BoxApplies, ChooseDependent, Act, ActAnswered, ActFails
<1>3. ~OpenDrawer /\ ~CloseDrawer /\ (Refresh => scKind # "search")
  BY <1>1 DEF OpenDrawer, CloseDrawer, Refresh
<1>4. \A v : Change(v) => \E s, p : After(v, s, p)
  BY <1>1 DEF Change
<1>5. /\ \A p : TurnPage(p) => After(scVal, scSub, p)
      /\ FollowLive => \/ After(scVal, scSub, 1)
                       \/ UNCHANGED <<scAsk, scDue, scRead, scView>>
      /\ RecordsChange \/ UNCHANGED scVars => UNCHANGED <<scAsk, scDue, scRead, scView>>
  BY DEF TurnPage, FollowLive, RecordsChange, scVars
<1>6. QED
  BY <1>2, <1>3, <1>4, <1>5 DEF ScreenNext

LEMMA RowsFollowReads ==
  ASSUME ScreenInv, [ScreenNext]_scVars
  PROVE  OnlyReads' /\ LatestAsksTheQuery' /\ RowsWhenQuiet' /\ RowsAnswerTheScreen'
<1>n. /\ ScreenTypeOK /\ OnlyReads /\ LatestAsksTheQuery /\ RowsWhenQuiet
      /\ RowsAnswerTheScreen
  BY DEF ScreenInv, ScreenIsConsistent
<1>k. UNCHANGED scKind /\ UNCHANGED scFld /\ UNCHANGED scPart
  BY SameScreen
<1>1. OnlyReads'
  <2> SUFFICES ASSUME scKind \in Watched
               PROVE  scAct' = Nothing /\ ~scDrawer'
    BY <1>k DEF OnlyReads
  <2>1. /\ scAct = Nothing /\ ~scDrawer
        /\ This.posts = {} /\ "drawer" \notin This.offers
    BY <1>n, WatchedOnlyRead DEF OnlyReads
  <2>2. ~Act /\ ~ActAnswered /\ ~ActFails /\ ~OpenDrawer /\ ~CloseDrawer
    BY <2>1 DEF Act, ActAnswered, ActFails, OpenDrawer, CloseDrawer
  <2>3. UNCHANGED <<scAct, scDrawer>>
    BY <2>2 DEF ScreenNext, Change, TurnPage, Answer, Failure, LogsClamped, BoxApplies,
       ChooseDependent, FollowLive, Settles, LiveReads, Refresh, RecordsChange, scVars
  <2>4. QED
    BY <2>1, <2>3
<1>2. ASSUME scKind \notin Watched
      PROVE  LatestAsksTheQuery' /\ RowsWhenQuiet' /\ RowsAnswerTheScreen'
  BY <1>2, <1>k DEF LatestAsksTheQuery, RowsWhenQuiet, RowsAnswerTheScreen, Watched
<1>3. ASSUME scKind \in Watched
      PROVE  LatestAsksTheQuery' /\ RowsWhenQuiet' /\ RowsAnswerTheScreen'
  <2> DEFINE Asks == \A c \in scCalls' : c.last => c.asked = Query'
             Quiet == scKind # "search" => (Superseded' /\ ~scDue' /\ ~scError'
                                              => scShown'.asked = Query')
             Found == scKind = "search" => (~scBusy' /\ scShown' # NoRows
                                              => scShown'.asked = Query')
  <2>n. /\ \A c \in scCalls : c.last => c.asked = Query
        /\ scKind # "search" => (Superseded /\ ~scDue /\ ~scError => scShown.asked = Query)
        /\ scKind = "search" => (~scBusy /\ scShown # NoRows => scShown.asked = Query)
    BY <1>n, <1>3 DEF LatestAsksTheQuery, RowsWhenQuiet, RowsAnswerTheScreen, Watched
  <2>q. UNCHANGED scAsk => Query' = Query
    BY <1>k DEF Query, Asked, This, scAsk
  <2>1. ASSUME NEW v, NEW s, NEW p, After(v, s, p)
        PROVE  Asks /\ Quiet /\ Found
    BY <1>n, <1>k, <1>3, <2>1, EffectsAsk
  <2>2. ASSUME Settles \/ (Refresh /\ scKind # "search")
        PROVE  Asks /\ Quiet /\ Found
    <3>1. UNCHANGED scAsk /\ Load(Query)
      BY <2>2 DEF Settles, Refresh
    <3>2. scCalls' = Old(scCalls) \union {NewCall(scSent + 1, Query')} /\ scBusy'
      BY <2>q, <3>1 DEF Load
    <3>3. QED
      BY <1>n, <3>2, LoadAsks
  <2>3. ASSUME LiveReads
        PROVE  Asks /\ Quiet /\ Found
    <3>1. UNCHANGED scAsk
      BY <2>3 DEF LiveReads
    <3>2. scCalls' = Old(scCalls) \union {NewCall(0, Query')} /\ scBusy'
      BY <2>q, <2>3, <3>1 DEF LiveReads
    <3>3. QED
      BY <1>n, <3>2, LoadAsks
  <2>4. ASSUME NEW c \in scCalls, LogsClamped(c)
        PROVE  Asks /\ Quiet /\ Found
    <3>1. Query' = Asked(scVal, scSub, 1)
      BY <1>k, <2>4 DEF LogsClamped, Query, Asked, This
    <3>2. scCalls' = Old(scCalls \ {c}) \union {NewCall(scSent + 1, Query')} /\ scBusy'
      BY <2>4, <3>1 DEF LogsClamped
    <3>3. QED
      BY <1>n, <3>2, LoadAsks
  <2>5. ASSUME NEW c \in scCalls, Answer(c) \/ Failure(c)
        PROVE  Asks /\ Quiet /\ Found
    <3>1. scCalls' = scCalls \ {c} /\ Query' = Query /\ UNCHANGED scDue
      BY <2>5, <2>q DEF Answer, Failure
    <3>2. Asks
      BY <2>n, <3>1
    <3>3. CASE c.last
      <4>1. Accepted(c) /\ scPart \in This.sets
        BY <1>3, <1>n, <3>3, WatchedOnlyRead DEF Accepted, ScreenTypeOK
      <4>2. CASE Answer(c)
        <5>1. \E n : scShown' = [asked |-> c.asked, new |-> n]
          BY <4>1, <4>2 DEF Answer
        <5>2. scShown'.asked = Query'
          BY <2>n, <3>1, <3>3, <5>1
        <5>3. QED
          BY <3>2, <5>2
      <4>3. CASE Failure(c)
        <5>1. scError' /\ (scKind = "search" => scShown' = NoRows)
          BY <4>1, <4>3 DEF Failure
        <5>2. QED
          BY <3>2, <5>1
      <4>4. QED
        BY <2>5, <4>2, <4>3
    <3>4. CASE ~c.last
      <4>1. UNCHANGED scView
        BY <1>3, <2>5, <3>4, WatchedOnlyRead DEF Accepted, Answer, Failure
      <4>2. Superseded' => Superseded
        BY <3>1, <3>4 DEF Superseded
      <4>3. QED
        BY <2>n, <3>1, <3>2, <4>1, <4>2 DEF scView
    <3>5. QED
      BY <3>3, <3>4
  <2>6. ASSUME UNCHANGED <<scAsk, scDue, scRead, scView>>
        PROVE  Asks /\ Quiet /\ Found
    BY <2>n, <2>q, <2>6 DEF scRead, scView, Superseded
  <2>7. Asks /\ Quiet /\ Found
    BY <1>3, <2>1, <2>2, <2>3, <2>4, <2>5, <2>6, WatchedSteps
  <2>8. LatestAsksTheQuery' /\ RowsWhenQuiet'
    BY <1>k, <2>7 DEF LatestAsksTheQuery, RowsWhenQuiet
  <2>9. scCalls' = {} => Superseded'
    BY DEF Superseded
  <2>10. QED
    BY <1>k, <2>7, <2>8, <2>9 DEF RowsAnswerTheScreen
<1>4. QED
  BY <1>1, <1>2, <1>3

-----------------------------------------------------------------------------
LEMMA ScreenStep ==
  ScreenInv /\ [ScreenNext]_scVars => ScreenInv'
<1> SUFFICES ASSUME ScreenInv, [ScreenNext]_scVars
             PROVE  ScreenInv'
  OBVIOUS
<1>1. ScreenTypeOK' /\ ReadsFollowMoves'
  BY MovesPay, ScreenStaysTyped
<1>2. FollowsFilter' /\ BoxAhead'
  BY PageFollowsFilter
<1>3. OnlyReads' /\ LatestAsksTheQuery' /\ RowsWhenQuiet' /\ RowsAnswerTheScreen'
  BY RowsFollowReads
<1>4. QED
  BY <1>1, <1>2, <1>3 DEF ScreenInv, ScreenIsConsistent, FollowsFilter

LEMMA ScreenInvariant == ScreenSpec => []ScreenInv
BY ScreenStarts, ScreenStep, PTL DEF ScreenSpec

(* Filters, pages, reads and rows of every screen keep their types.         *)
THEOREM ScreensTyped == ScreenSpec => []ScreenTypeOK
BY ScreenInvariant, PTL DEF ScreenInv

(* No screen of the console makes itself read over and over: beside the     *)
(* poll's one read at a time, it has sent at most two reads for each move   *)
(* of its user and the one it opened with.  An effect that ran because of   *)
(* what another effect set would break this.                               *)
THEOREM ReadsAreAskedFor == ScreenSpec => [](scSent <= 2 * scMoves + 1)
<1>1. ScreenInv => scSent <= 2 * scMoves + 1
  <2> SUFFICES ASSUME ScreenInv
               PROVE  scSent <= 2 * scMoves + 1
    OBVIOUS
  <2>1. scSent \in Nat /\ scMoves \in Nat
    BY ScreenNumbers DEF ScreenInv, ScreenTypeOK
  <2>2. scSent + DueCost + ActCost + DrawerCost + BoxCost + PageCost <= 2 * scMoves + 1
    BY DEF ScreenInv, ReadsFollowMoves
  <2>3. QED
    BY <2>1, <2>2, CostsTyped
<1>2. QED
  BY <1>1, ScreenInvariant, PTL

(* Whatever the screen, the filter that is followed and the order in which   *)
(* the answers come: a filter never leaves a page its rows may not have, a   *)
(* dependent choice never outlives the filter it was made under, and the     *)
(* screens that drop late answers show rows of the query they have now.      *)
THEOREM ScreensConsistent == ScreenSpec => []ScreenIsConsistent
BY ScreenInvariant, PTL DEF ScreenInv
=============================================================================
