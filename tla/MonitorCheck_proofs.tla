------------------------- MODULE MonitorCheck_proofs -------------------------
(***************************************************************************)
(* Proofs about MonitorCheck for any workers, staff requests and bounds.   *)
(***************************************************************************)
EXTENDS MonitorCheck, TLAPS

USE IdentitiesAssumption, BoundsAssumption

LEMMA BumpType == \A n \in 0..MaxThreshold : Bump(n) \in 0..MaxThreshold
BY DEF Bump

(* Every way a check row is written writes a row of the model's type.       *)
LEMMA RowWrites ==
  ASSUME NEW row \in Rows
  PROVE  /\ Aged(row) \in Rows
         /\ \A ft, rt \in 1..MaxThreshold :
              /\ NewRow(ft, rt) \in Rows
              /\ [row EXCEPT !.failure_threshold = ft, !.recovery_threshold = rt] \in Rows
         /\ [row EXCEPT !.enabled = "no", !.status = "paused", !.next_run = "none"] \in Rows
         /\ [row EXCEPT !.status = "paused", !.next_run = "none"] \in Rows
         /\ [row EXCEPT !.enabled = "yes", !.status = "pending", !.next_run = "due",
                        !.failures = 0, !.successes = 0] \in Rows
         /\ \A n \in 0..MaxThreshold, s \in {"healthy", "degraded", "failing"} :
              /\ [row EXCEPT !.failures = 0, !.successes = n, !.status = s,
                             !.next_run = "later"] \in Rows
              /\ [row EXCEPT !.successes = 0, !.failures = n, !.status = s,
                             !.next_run = "later"] \in Rows
<1>1. 0 \in 0..MaxThreshold
  OBVIOUS
<1>2. Aged(row) \in Rows
  BY DEF Aged, Rows
<1>3. ASSUME NEW ft \in 1..MaxThreshold, NEW rt \in 1..MaxThreshold
      PROVE  /\ NewRow(ft, rt) \in Rows
             /\ [row EXCEPT !.failure_threshold = ft, !.recovery_threshold = rt] \in Rows
  BY <1>1 DEF NewRow, Rows
<1>4. /\ [row EXCEPT !.enabled = "no", !.status = "paused", !.next_run = "none"] \in Rows
      /\ [row EXCEPT !.status = "paused", !.next_run = "none"] \in Rows
  BY DEF Rows
<1>5. [row EXCEPT !.enabled = "yes", !.status = "pending", !.next_run = "due",
                  !.failures = 0, !.successes = 0] \in Rows
  BY <1>1 DEF Rows
<1>6. ASSUME NEW n \in 0..MaxThreshold, NEW s \in {"healthy", "degraded", "failing"}
      PROVE  /\ [row EXCEPT !.failures = 0, !.successes = n, !.status = s,
                            !.next_run = "later"] \in Rows
             /\ [row EXCEPT !.successes = 0, !.failures = n, !.status = s,
                            !.next_run = "later"] \in Rows
  BY <1>1 DEF Rows
<1>7. QED
  BY <1>2, <1>3, <1>4, <1>5, <1>6, Zenon

(* The row, the incident, the queue, the lock and the requests keep their   *)
(* types.                                                                   *)
THEOREM TypeCorrect == Spec => []TypeOK
<1>1. Init => TypeOK
  <2> SUFFICES ASSUME Init PROVE TypeOK
    OBVIOUS
  <2>1. check \in Rows /\ draft \in [Editors -> Rows]
    BY DEF Init, NewRow, Rows
  <2>2. QED
    BY <2>1 DEF Init, TypeOK, Verdicts, Steps
<1>2. TypeOK /\ [Next]_vars => TypeOK'
  <2> SUFFICES ASSUME TypeOK, [Next]_vars PROVE TypeOK'
    OBVIOUS
  <2> USE DEF TypeOK, Verdicts, Steps, Goto, staff, worker, faults
  <2>1. CASE Dispatch
    BY <2>1 DEF Dispatch
  <2>2. CASE IntervalPasses
    <3>1. check' \in Rows /\ draft' \in [Editors -> Rows]
      BY <2>2, RowWrites, Zenon DEF IntervalPasses
    <3>2. QED
      BY <2>2, <3>1 DEF IntervalPasses
  <2>3. ASSUME NEW w \in Workers, WorkerStep(w) PROVE TypeOK'
    <3>1. CASE StartTask(w)
      BY <3>1 DEF StartTask
    <3>2. CASE AcquireLock(w)
      <4>1. lock' \in Workers \cup {Nobody, Dead} /\ pc' \in [Workers -> Steps]
        BY <3>2 DEF AcquireLock
      <4>2. QED
        BY <3>2, <4>1 DEF AcquireLock
    <3>3. CASE RefreshCheck(w)
      BY <3>3 DEF RefreshCheck
    <3>4. CASE RefreshResource(w)
      BY <3>4 DEF RefreshResource
    <3>5. CASE Record(w)
      <4>0. check.failures \in 0..MaxThreshold /\ check.successes \in 0..MaxThreshold
        BY DEF Rows
      <4>1. check' \in Rows /\ incident' \in {"none", "open", "acknowledged"}
        <5>1. CASE RecordWhilePaused
          BY <5>1, RowWrites, Zenon DEF RecordWhilePaused
        <5>2. CASE RecordSuccess
          BY <4>0, <5>2, RowWrites, BumpType, Zenon DEF RecordSuccess
        <5>3. CASE RecordFailure
          BY <4>0, <5>3, RowWrites, BumpType, Zenon DEF RecordFailure
        <5>4. QED
          BY <3>5, <5>1, <5>2, <5>3 DEF Record
      <4>2. streak' \in [of : Verdicts, length : 0..MaxThreshold]
        <5>1. \A v \in Verdicts : Extended(v) \in [of : Verdicts, length : 0..MaxThreshold]
          BY BumpType DEF Extended
        <5>2. QED
          BY <3>5, <5>1 DEF Record, RecordWhilePaused
      <4>3. QED
        BY <3>5, <4>1, <4>2 DEF Record
    <3>6. CASE Release(w)
      BY <3>6 DEF Release
    <3>7. QED
      BY <2>3, <3>1, <3>2, <3>3, <3>4, <3>5, <3>6 DEF WorkerStep
  <2>4. ASSUME NEW w \in Workers, Crash(w) PROVE TypeOK'
    BY <2>4 DEF Crash
  <2>4a. ASSUME NEW w \in Workers, RecordRaises(w) PROVE TypeOK'
    BY <2>4a DEF RecordRaises
  <2>5. CASE StaffStep
    <3>1. ASSUME NEW e \in Editors, OpenEdit(e) PROVE TypeOK'
      BY <3>1 DEF OpenEdit
    <3>2. ASSUME NEW e \in Editors, SaveEdit(e) PROVE TypeOK'
      <4>0. draft[e] \in Rows /\ NewRow(1, 1) \in Rows
        <5>1. 1 \in 1..MaxThreshold
          OBVIOUS
        <5>2. QED
          BY <5>1, RowWrites, Zenon
      <4>1. check' \in Rows
        <5>1. PICK ft, rt \in 1..MaxThreshold :
                check' = [draft[e] EXCEPT !.failure_threshold = ft, !.recovery_threshold = rt]
          BY <3>2, Zenon DEF SaveEdit
        <5>2. QED
          BY <4>0, <5>1, RowWrites, Zenon
      <4>2. draft' \in [Editors -> Rows]
        BY <3>2, <4>0 DEF SaveEdit
      <4>3. overwrites' \in {"none", "some"} /\ request' \in [Editors -> {"none", "edit", "resume"}]
        BY <3>2 DEF SaveEdit
      <4>4. QED
        BY <3>2, <4>1, <4>2, <4>3 DEF SaveEdit
    <3>3. ASSUME NEW e \in Editors, AskResume(e) PROVE TypeOK'
      BY <3>3 DEF AskResume
    <3>4. ASSUME NEW e \in Editors, Resume(e) PROVE TypeOK'
      <4>1. check' \in Rows
        BY <3>4, RowWrites, Zenon DEF Resume
      <4>2. streak' \in [of : Verdicts, length : 0..MaxThreshold]
        BY <3>4 DEF Resume
      <4>3. QED
        BY <3>4, <4>1, <4>2 DEF Resume
    <3>5. CASE Pause
      <4>1. check' \in Rows
        BY <3>5, RowWrites, Zenon DEF Pause
      <4>2. QED
        BY <3>5, <4>1 DEF Pause
    <3>6. CASE Acknowledge
      BY <3>6 DEF Acknowledge
    <3>7. CASE ChangeLifecycle
      BY <3>7 DEF ChangeLifecycle
    <3>8. QED
      BY <2>5, <3>1, <3>2, <3>3, <3>4, <3>5, <3>6, <3>7 DEF StaffStep
  <2>6. CASE DeadLockExpires
    BY <2>6 DEF DeadLockExpires
  <2>7. CASE LiveLockExpires
    BY <2>7 DEF LiveLockExpires
  <2>8. CASE UNCHANGED vars
    BY <2>8 DEF vars
  <2>9. QED
    BY <2>1, <2>2, <2>3, <2>4, <2>4a, <2>5, <2>6, <2>7, <2>8 DEF Next
<1>3. QED
  BY <1>1, <1>2, PTL DEF Spec

-----------------------------------------------------------------------------
(* Pausing and scheduling stay consistent because every draft is a copy of  *)
(* a consistent row.                                                        *)
DraftsConsistent == \A e \in Editors : Consistent(draft[e])

THEOREM PauseConsistent == Spec => []PausedIffDisabled
<1> DEFINE Inv == PausedIffDisabled /\ DraftsConsistent
<1>1. Init => Inv
  BY DEF Init, NewRow, PausedIffDisabled, DraftsConsistent, Consistent
<1>2. TypeOK /\ Inv /\ [Next]_vars => Inv'
  <2> SUFFICES ASSUME TypeOK, Inv, [Next]_vars PROVE Inv'
    OBVIOUS
  <2>0. /\ check \in Rows /\ draft \in [Editors -> Rows]
        /\ request \in [Editors -> {"none", "edit", "resume"}]
    BY DEF TypeOK
  <2>a. ASSUME UNCHANGED <<check, draft>> PROVE Inv'
    BY <2>a DEF PausedIffDisabled, DraftsConsistent
  <2>b. ASSUME Consistent(check'), UNCHANGED draft PROVE Inv'
    BY <2>b DEF PausedIffDisabled, DraftsConsistent
  <2> USE DEF PausedIffDisabled, DraftsConsistent
  <2>1. CASE IntervalPasses
    <3>1. \A row \in Rows : Consistent(row) => Consistent(Aged(row))
      BY DEF Rows, Consistent, Aged
    <3>2. QED
      BY <2>0, <2>1, <3>1 DEF IntervalPasses
  <2>2. ASSUME NEW w \in Workers, WorkerStep(w) PROVE Inv'
    <3>1. CASE Record(w)
      <4>1. CASE RecordWhilePaused
        BY <2>0, <2>b, <3>1, <4>1 DEF Record, RecordWhilePaused, Consistent, Rows, staff
      <4>2. CASE RecordSuccess
        BY <2>0, <2>b, <3>1, <4>2 DEF Record, RecordSuccess, Consistent, Rows, staff
      <4>3. CASE RecordFailure
        BY <2>0, <2>b, <3>1, <4>3 DEF Record, RecordFailure, Consistent, Rows, staff
      <4>4. QED
        BY <3>1, <4>1, <4>2, <4>3 DEF Record
    <3>2. CASE UNCHANGED <<check, draft>>
      BY <2>a, <3>2
    <3>3. QED
      BY <2>2, <3>1, <3>2 DEF WorkerStep, StartTask, AcquireLock, RefreshCheck,
         RefreshResource, Release, staff
  <2>3. CASE StaffStep
    <3>1. ASSUME NEW e \in Editors, OpenEdit(e) PROVE Inv'
      BY <2>0, <3>1 DEF OpenEdit
    <3>2. ASSUME NEW e \in Editors, SaveEdit(e) PROVE Inv'
      <4>1. draft[e] \in Rows /\ Consistent(draft[e])
        BY <2>0
      <4>2. Consistent(check')
        <5>1. PICK ft, rt \in 1..MaxThreshold :
                check' = [draft[e] EXCEPT !.failure_threshold = ft, !.recovery_threshold = rt]
          BY <3>2, Zenon DEF SaveEdit
        <5>2. /\ check'.enabled = draft[e].enabled
              /\ check'.status = draft[e].status
              /\ check'.next_run = draft[e].next_run
          BY <4>1, <5>1 DEF Rows
        <5>3. QED
          BY <4>1, <5>2 DEF Consistent
      <4>3. Consistent(NewRow(1, 1))
        BY DEF NewRow, Consistent
      <4>4. draft' = [draft EXCEPT ![e] = NewRow(1, 1)]
        BY <3>2 DEF SaveEdit
      <4>5. QED
        BY <2>0, <4>2, <4>3, <4>4
    <3>3. CASE Pause
      BY <2>0, <2>b, <3>3 DEF Pause, Consistent, Rows, staff
    <3>4. ASSUME NEW e \in Editors, Resume(e) PROVE Inv'
      BY <2>0, <2>b, <3>4 DEF Resume, Consistent, Rows
    <3>5. CASE UNCHANGED <<check, draft>>
      BY <2>a, <3>5
    <3>6. QED
      BY <2>3, <3>1, <3>2, <3>3, <3>4, <3>5
      DEF StaffStep, AskResume, Acknowledge, ChangeLifecycle, staff
  <2>4. CASE UNCHANGED <<check, draft>>
    BY <2>a, <2>4
  <2>5. QED
    BY <2>1, <2>2, <2>3, <2>4
    DEF Next, vars, Dispatch, Crash, RecordRaises, DeadLockExpires, LiveLockExpires, staff
<1>3. QED
  BY <1>1, <1>2, TypeCorrect, PTL DEF Spec

-----------------------------------------------------------------------------
(* Until an edit overwrites the row, its counters are the length of the     *)
(* latest run of results, so no incident opens or closes without one.       *)
CountersAreReal ==
  overwrites = "none" =>
    /\ check.failures = IF streak.of = "failure" THEN streak.length ELSE 0
    /\ check.successes = IF streak.of = "success" THEN streak.length ELSE 0

Ledger == CountersAreReal /\ StatusMatchesIncident

LEMMA LedgerStep ==
  ASSUME TypeOK, Ledger, [Next]_vars
  PROVE  Ledger'
<1>0. /\ check \in Rows /\ draft \in [Editors -> Rows]
      /\ incident \in {"none", "open", "acknowledged"}
      /\ streak \in [of : Verdicts, length : 0..MaxThreshold]
      /\ overwrites \in {"none", "some"}
  BY DEF TypeOK
<1>1. CASE overwrites' = "some"
  BY <1>1 DEF Ledger, CountersAreReal, StatusMatchesIncident
<1>2. CASE overwrites' = "none"
  <2>0. overwrites = "none"
    BY <1>0, <1>2, Zenon DEF Next, vars, Dispatch, IntervalPasses, WorkerStep, StartTask, AcquireLock,
       RefreshCheck, RefreshResource, Record, Release, Crash, RecordRaises, StaffStep, OpenEdit, SaveEdit,
       AskResume, Resume, Pause, Acknowledge, ChangeLifecycle, DeadLockExpires, LiveLockExpires
  <2> USE DEF Ledger, CountersAreReal, StatusMatchesIncident, Agree
  <2>a. ASSUME UNCHANGED <<check, incident, streak>> PROVE Ledger'
    BY <1>2, <2>0, <2>a
  <2>1. CASE IntervalPasses
    BY <1>0, <1>2, <2>0, <2>1 DEF IntervalPasses, Aged, Rows
  <2>2. ASSUME NEW w \in Workers, WorkerStep(w) PROVE Ledger'
    <3>1. CASE Record(w)
      <4>1. CASE RecordWhilePaused
        BY <1>0, <2>0, <4>1 DEF RecordWhilePaused, Rows
      <4>2. CASE RecordSuccess /\ streak' = Extended("success")
        BY <1>0, <2>0, <4>2 DEF RecordSuccess, Extended, Bump, Rows, Verdicts
      <4>3. CASE RecordFailure /\ streak' = Extended("failure")
        BY <1>0, <2>0, <4>3 DEF RecordFailure, Extended, Bump, Rows, Verdicts
      <4>4. QED
        BY <3>1, <4>1, <4>2, <4>3 DEF Record
    <3>2. CASE UNCHANGED <<check, incident, streak>>
      BY <2>a, <3>2
    <3>3. QED
      BY <2>2, <3>1, <3>2 DEF WorkerStep, StartTask, AcquireLock, RefreshCheck,
         RefreshResource, Release
  <2>3. CASE StaffStep
    <3>1. ASSUME NEW e \in Editors, SaveEdit(e) PROVE Ledger'
      <4>1. draft[e] = check /\ UNCHANGED <<incident, streak>>
        BY <1>2, <3>1 DEF SaveEdit
      <4>2. PICK ft, rt \in 1..MaxThreshold :
              check' = [check EXCEPT !.failure_threshold = ft, !.recovery_threshold = rt]
        BY <3>1, <4>1, Zenon DEF SaveEdit
      <4>3. /\ check'.failures = check.failures /\ check'.successes = check.successes
            /\ check'.status = check.status
        BY <1>0, <4>2 DEF Rows
      <4>4. QED
        BY <2>0, <4>1, <4>3
    <3>2. CASE Pause
      BY <1>0, <2>0, <3>2 DEF Pause, Rows
    <3>3. ASSUME NEW e \in Editors, Resume(e) PROVE Ledger'
      BY <1>0, <2>0, <3>3 DEF Resume, Rows
    <3>4. CASE Acknowledge
      BY <1>0, <2>0, <3>4 DEF Acknowledge
    <3>5. CASE UNCHANGED <<check, incident, streak>>
      BY <2>a, <3>5
    <3>6. QED
      BY <2>3, <3>1, <3>2, <3>3, <3>4, <3>5
      DEF StaffStep, OpenEdit, AskResume, ChangeLifecycle
  <2>4. CASE UNCHANGED <<check, incident, streak>>
    BY <2>a, <2>4
  <2>5. QED
    BY <2>1, <2>2, <2>3, <2>4
    DEF Next, vars, Dispatch, Crash, RecordRaises, DeadLockExpires, LiveLockExpires
<1>3. QED
  <2>1. overwrites' \in {"none", "some"}
    BY <1>0, Zenon DEF Next, vars, Dispatch, IntervalPasses, WorkerStep, StartTask, AcquireLock,
       RefreshCheck, RefreshResource, Record, Release, Crash, RecordRaises, StaffStep, OpenEdit, SaveEdit,
       AskResume, Resume, Pause, Acknowledge, ChangeLifecycle, DeadLockExpires, LiveLockExpires
  <2>2. QED
    BY <1>1, <1>2, <2>1

LEMMA LedgerInvariant == Spec => []Ledger
<1>1. Init => Ledger
  BY DEF Init, NewRow, Ledger, CountersAreReal, StatusMatchesIncident, Agree
<1>2. QED
  BY <1>1, LedgerStep, TypeCorrect, PTL DEF Spec

(* A failing check has an active incident and a healthy one has none.       *)
THEOREM StatusHonest == Spec => []StatusMatchesIncident
BY LedgerInvariant, PTL DEF Ledger

(* Incidents open and close only on a full run of results.                  *)
THEOREM IncidentsHonest == Spec => IncidentsEarned
<1> DEFINE Fair == overwrites = "none" =>
                     /\ incident = "none" /\ incident' = "open"
                          => Earned("failure", check.failure_threshold)
                     /\ incident # "none" /\ incident' = "none"
                          => Earned("success", check.recovery_threshold)
<1>1. ASSUME TypeOK, Ledger, [Next]_vars PROVE Fair
  <2>0. /\ check \in Rows
        /\ incident \in {"none", "open", "acknowledged"}
        /\ streak \in [of : Verdicts, length : 0..MaxThreshold]
    BY <1>1 DEF TypeOK
  <2>1. ASSUME NEW w \in Workers, Record(w) PROVE Fair
    <3> SUFFICES ASSUME overwrites = "none"
                 PROVE  /\ incident = "none" /\ incident' = "open"
                             => Earned("failure", check.failure_threshold)
                        /\ incident # "none" /\ incident' = "none"
                             => Earned("success", check.recovery_threshold)
      OBVIOUS
    <3> USE DEF Earned, Rows, Verdicts, Bump, Extended
    <3>1. CASE RecordWhilePaused
      BY <2>0, <3>1 DEF RecordWhilePaused
    <3>2. CASE RecordSuccess /\ streak' = Extended("success")
      BY <1>1, <2>0, <3>2 DEF RecordSuccess, Ledger, CountersAreReal
    <3>3. CASE RecordFailure /\ streak' = Extended("failure")
      BY <1>1, <2>0, <3>3 DEF RecordFailure, Ledger, CountersAreReal
    <3>4. QED
      BY <2>1, <3>1, <3>2, <3>3 DEF Record
  <2>2. CASE UNCHANGED incident \/ Acknowledge
    BY <2>0, <2>2 DEF Acknowledge
  <2>3. QED
    BY <1>1, <2>1, <2>2, Zenon
    DEF Next, vars, Dispatch, IntervalPasses, WorkerStep, StartTask, AcquireLock,
        RefreshCheck, RefreshResource, Release, Crash, RecordRaises, StaffStep, OpenEdit, SaveEdit,
        AskResume, Resume, Pause, ChangeLifecycle, DeadLockExpires, LiveLockExpires
<1>2. TypeOK /\ Ledger /\ [Next]_vars => [Fair]_vars
  BY <1>1
<1>3. QED
  BY <1>2, TypeCorrect, LedgerInvariant, PTL DEF Spec, IncidentsEarned

-----------------------------------------------------------------------------
(* A worker past its refresh still holds the lock and a check that is not   *)
(* rescheduled: only lock holders and overwriting edits reschedule it.      *)
HolderOwnsLock ==
  expiries = 0 => \A w \in Workers : pc[w] \in Holding => lock = w

StillDue ==
  expiries = 0 /\ overwrites = "none" =>
    \A w \in Workers : pc[w] \in {"refreshed", "probing"} => check.next_run # "later"

Scheduling == HolderOwnsLock /\ StillDue

LEMMA HolderOwnsLockStep ==
  ASSUME TypeOK, HolderOwnsLock, [Next]_vars
  PROVE  HolderOwnsLock'
<1>0. pc \in [Workers -> Steps] /\ expiries \in Nat
  BY DEF TypeOK
<1>a. ASSUME UNCHANGED <<lock, pc, expiries>> PROVE HolderOwnsLock'
  BY <1>a DEF HolderOwnsLock
<1> USE DEF HolderOwnsLock, Holding, Steps, Goto, faults
<1>1. ASSUME NEW w \in Workers, WorkerStep(w) PROVE HolderOwnsLock'
  <2>1. CASE StartTask(w)
    BY <1>0, <2>1 DEF StartTask
  <2>2. CASE AcquireLock(w)
    BY <1>0, <2>2 DEF AcquireLock
  <2>3. CASE RefreshCheck(w) \/ RefreshResource(w) \/ Record(w)
    BY <1>0, <2>3 DEF RefreshCheck, RefreshResource, Record
  <2>4. CASE Release(w)
    BY <1>0, <2>4 DEF Release
  <2>5. QED
    BY <1>1, <2>1, <2>2, <2>3, <2>4 DEF WorkerStep
<1>2. ASSUME NEW w \in Workers, Crash(w) PROVE HolderOwnsLock'
  BY <1>0, <1>2 DEF Crash
<1>2a. ASSUME NEW w \in Workers, RecordRaises(w) PROVE HolderOwnsLock'
  BY <1>0, <1>2a DEF RecordRaises
<1>3. CASE DeadLockExpires
  BY <1>0, <1>3 DEF DeadLockExpires
<1>4. CASE LiveLockExpires
  BY <1>0, <1>4 DEF LiveLockExpires
<1>5. CASE UNCHANGED <<lock, pc, expiries>>
  BY <1>a, <1>5
<1>6. QED
  BY <1>1, <1>2, <1>2a, <1>3, <1>4, <1>5, Zenon
  DEF Next, vars, worker, Dispatch, IntervalPasses, StaffStep, OpenEdit, SaveEdit,
      AskResume, Resume, Pause, Acknowledge, ChangeLifecycle

LEMMA StillDueStep ==
  ASSUME TypeOK, Scheduling, [Next]_vars
  PROVE  StillDue'
<1>0. /\ check \in Rows /\ pc \in [Workers -> Steps] /\ expiries \in Nat
      /\ overwrites \in {"none", "some"}
  BY DEF TypeOK
<1>1. CASE ~(expiries' = 0 /\ overwrites' = "none")
  BY <1>1 DEF StillDue
<1>2. CASE expiries' = 0 /\ overwrites' = "none"
  <2>0. expiries = 0 /\ overwrites = "none"
    <3>1. CASE LiveLockExpires
      BY <1>0, <1>2, <3>1 DEF LiveLockExpires
    <3>2. CASE \E e \in Editors : SaveEdit(e)
      BY <1>0, <1>2, <3>2 DEF SaveEdit, faults
    <3>3. CASE UNCHANGED <<expiries, overwrites>>
      BY <1>2, <3>3
    <3>4. QED
      BY <3>1, <3>2, <3>3 DEF Next, vars, faults, Dispatch, IntervalPasses, WorkerStep,
         StartTask, AcquireLock, RefreshCheck, RefreshResource, Record, Release, Crash, RecordRaises,
         StaffStep, OpenEdit, AskResume, Resume, Pause, Acknowledge, ChangeLifecycle,
         DeadLockExpires
  <2>a. ASSUME check'.next_run = check.next_run \/ check'.next_run # "later",
               \A w \in Workers : pc'[w] \in {"refreshed", "probing"}
                                    => pc[w] \in {"refreshed", "probing"}
        PROVE  StillDue'
    BY <2>0, <2>a DEF StillDue, Scheduling
  <2> USE DEF Steps, Goto
  <2>1. ASSUME NEW w \in Workers, WorkerStep(w) PROVE StillDue'
    <3>1. CASE StartTask(w)
      BY <1>0, <2>a, <3>1 DEF StartTask
    <3>2. CASE AcquireLock(w)
      BY <1>0, <2>a, <3>2 DEF AcquireLock
    <3>3. CASE RefreshCheck(w)
      BY <1>0, <2>0, <3>3 DEF RefreshCheck, Due, StillDue, Scheduling
    <3>4. CASE RefreshResource(w)
      BY <1>0, <2>a, <3>4 DEF RefreshResource
    <3>5. CASE Record(w)
      <4>1. \A v \in Workers : pc[v] \in {"refreshed", "probing"} => v = w
        BY <2>0, <3>5 DEF Record, Scheduling, HolderOwnsLock, Holding
      <4>2. \A v \in Workers : pc'[v] \notin {"refreshed", "probing"}
        BY <1>0, <3>5, <4>1 DEF Record
      <4>3. QED
        BY <4>2 DEF StillDue
    <3>6. CASE Release(w)
      BY <1>0, <2>a, <3>6 DEF Release
    <3>7. QED
      BY <2>1, <3>1, <3>2, <3>3, <3>4, <3>5, <3>6 DEF WorkerStep
  <2>2. ASSUME NEW w \in Workers, Crash(w) PROVE StillDue'
    BY <1>0, <2>a, <2>2 DEF Crash
  <2>2a. ASSUME NEW w \in Workers, RecordRaises(w) PROVE StillDue'
    BY <1>0, <2>a, <2>2a DEF RecordRaises
  <2>3. CASE IntervalPasses
    BY <1>0, <2>a, <2>3 DEF IntervalPasses, Aged, Rows, worker
  <2>4. CASE StaffStep
    <3>0. UNCHANGED pc
      BY <2>4, Zenon DEF StaffStep, OpenEdit, SaveEdit, AskResume, Resume, Pause, Acknowledge,
         ChangeLifecycle, worker
    <3>1. ASSUME NEW e \in Editors, SaveEdit(e) PROVE StillDue'
      <4>1. PICK ft, rt \in 1..MaxThreshold :
              check' = [check EXCEPT !.failure_threshold = ft, !.recovery_threshold = rt]
        BY <1>2, <3>1, Zenon DEF SaveEdit
      <4>2. check'.next_run = check.next_run
        BY <1>0, <4>1 DEF Rows
      <4>3. QED
        BY <2>a, <3>0, <4>2
    <3>2. ASSUME Pause \/ \E e \in Editors : Resume(e) PROVE StillDue'
      <4>1. check'.next_run # "later"
        BY <1>0, <3>2 DEF Pause, Resume, Rows
      <4>2. QED
        BY <2>a, <3>0, <4>1
    <3>3. CASE UNCHANGED check
      BY <2>a, <3>0, <3>3
    <3>4. QED
      BY <2>4, <3>1, <3>2, <3>3 DEF StaffStep, OpenEdit, AskResume, Acknowledge, ChangeLifecycle
  <2>5. CASE UNCHANGED <<check, pc>>
    BY <2>a, <2>5
  <2>6. QED
    BY <2>1, <2>2, <2>2a, <2>3, <2>4, <2>5
    DEF Next, vars, worker, Dispatch, DeadLockExpires, LiveLockExpires
<1>3. QED
  BY <1>1, <1>2

(* No period is observed twice, whatever tasks are duplicated and whichever *)
(* workers die, while locks outlive their holders and no edit overwrites    *)
(* the schedule.                                                            *)
THEOREM NoStaleDuplicates == Spec => ObservedOncePerPeriod
<1> DEFINE Once == \A w \in Workers :
                     Recorded(w) /\ expiries = 0 /\ overwrites = "none"
                       => check.next_run # "later"
<1>1. Init => Scheduling
  BY DEF Init, Scheduling, HolderOwnsLock, StillDue, Holding
<1>2. TypeOK /\ Scheduling /\ [Next]_vars => Scheduling'
  BY HolderOwnsLockStep, StillDueStep DEF Scheduling
<1>3. Scheduling => [Once]_vars
  BY DEF Scheduling, StillDue, Recorded
<1>4. QED
  BY <1>1, <1>2, <1>3, TypeCorrect, PTL DEF Spec, ObservedOncePerPeriod

(* Any recorded result makes status and incident agree, even if an edit has *)
(* overwritten the status before.                                           *)
LEMMA ResultAgrees ==
  ASSUME TypeOK, NEW w \in Workers, Record(w), check.enabled = "yes"
  PROVE  Agree'
<1>0. check \in Rows
  BY DEF TypeOK
<1>1. CASE RecordSuccess
  BY <1>0, <1>1 DEF RecordSuccess, Agree, Rows
<1>2. CASE RecordFailure
  BY <1>0, <1>2 DEF RecordFailure, Agree, Rows
<1>3. QED
  BY <1>1, <1>2 DEF Record, RecordWhilePaused

(* Only Record takes a worker from its probe to the release of its lock     *)
(* without a failure.                                                       *)
LEMMA OnlyRecordRecords ==
  ASSUME TypeOK, [Next]_vars, NEW w \in Workers, Recorded(w)
  PROVE  Record(w)
<1>0. pc \in [Workers -> Steps] /\ crashes \in Nat
  BY DEF TypeOK
<1>1. pc[w] = "probing" /\ pc'[w] = "release" /\ crashes' = crashes
  BY DEF Recorded
<1>2. ~UNCHANGED pc
  BY <1>1
<1>3. ASSUME NEW v \in Workers, WorkerStep(v) PROVE Record(w)
  <2>1. v = w
    BY <1>0, <1>1, <1>3 DEF WorkerStep, StartTask, AcquireLock, RefreshCheck, RefreshResource,
       Record, Release, Goto
  <2>2. QED
    BY <1>1, <1>3, <2>1 DEF WorkerStep, StartTask, AcquireLock, RefreshCheck, RefreshResource,
       Release
<1>4. ASSUME NEW v \in Workers, Crash(v) \/ RecordRaises(v) PROVE FALSE
  BY <1>0, <1>1, <1>4 DEF Crash, RecordRaises
<1>5. CASE StaffStep
  BY <1>2, <1>5, Zenon DEF StaffStep, OpenEdit, SaveEdit, AskResume, Resume, Pause, Acknowledge,
     ChangeLifecycle, worker
<1>6. CASE Dispatch \/ IntervalPasses \/ DeadLockExpires \/ LiveLockExpires \/ UNCHANGED vars
  BY <1>2, <1>6 DEF Dispatch, IntervalPasses, DeadLockExpires, LiveLockExpires, vars, worker
<1>7. QED
  BY <1>3, <1>4, <1>5, <1>6 DEF Next

(* Later results repair what an edit overwrote.                             *)
THEOREM ResultsRepair == Spec => ResultsRepairStatus
<1> DEFINE Repaired == \A w \in Workers : Recorded(w) /\ check.enabled = "yes" => Agree'
<1>1. TypeOK /\ [Next]_vars => [Repaired]_vars
  BY ResultAgrees, OnlyRecordRecords
<1>2. QED
  BY <1>1, TypeCorrect, PTL DEF Spec, ResultsRepairStatus

(* A check's status is true to its switch and to its incidents.             *)
THEOREM StatusStaysTrue == Spec => []StatusIsTrue
BY PauseConsistent, StatusHonest, PTL DEF StatusIsTrue
=============================================================================
