------------------------- MODULE TicketDelivery_proofs -------------------------
(***************************************************************************)
(* Proofs about TicketDelivery for any sets of messages and workers and    *)
(* any bounds.                                                             *)
(***************************************************************************)
EXTENDS TicketDelivery, TLAPS

(* The worker's lock is its own, unless it expired under some holder.       *)
HolderOwnsLock ==
  \A w \in Workers :
    pc[w] \in Holding /\ expiries[job[w]] = 0 => lock[job[w]] = w

(* What Refresh read stays true: the message is not sent by anyone else.    *)
RefreshStillTrue ==
  \A w \in Workers :
    pc[w] \in {"ready", "calling", "accepted", "error"} /\ expiries[job[w]] = 0
      => status[job[w]] # "sent"

-----------------------------------------------------------------------------
(* Publishing or taking a task keeps the broker's counters natural numbers. *)
LEMMA QueueUpdate ==
  ASSUME TypeOK, NEW m \in Messages, NEW t \in 0..MaxRetries
  PROVE  /\ Enqueued(m, t) \in [Messages -> [0..MaxRetries -> Nat]]
         /\ queue[m][t] > 0 => Dequeued(m, t) \in [Messages -> [0..MaxRetries -> Nat]]
<1>1. queue[m] \in [0..MaxRetries -> Nat] /\ queue[m][t] \in Nat
  BY DEF TypeOK
<1>2. \A q \in [0..MaxRetries -> Nat] :
        [queue EXCEPT ![m] = q] \in [Messages -> [0..MaxRetries -> Nat]]
  BY DEF TypeOK
<1>3. [queue[m] EXCEPT ![t] = queue[m][t] + 1] \in [0..MaxRetries -> Nat]
  BY <1>1
<1>4. queue[m][t] > 0 =>
        [queue[m] EXCEPT ![t] = queue[m][t] - 1] \in [0..MaxRetries -> Nat]
  BY <1>1
<1>5. QED
  BY <1>2, <1>3, <1>4 DEF Enqueued, Dequeued

-----------------------------------------------------------------------------
(* A worker may be written into its message's lock.                         *)
LEMMA LockUpdate ==
  ASSUME TypeOK, NEW w \in Workers
  PROVE  [lock EXCEPT ![job[w]] = w] \in [Messages -> Workers \cup {Nobody, Dead}]
<1>1. job[w] \in Messages /\ lock \in [Messages -> Workers \cup {Nobody, Dead}]
  BY DEF TypeOK
<1>2. QED
  BY <1>1

(* The variables keep their types: every status, lock owner, step and       *)
(* retry number is one the code can write.                                  *)
THEOREM TypeCorrect == Spec => []TypeOK
<1> USE IdentitiesAssumption, BoundsAssumption
<1>1. Init => TypeOK
  BY DEF Init, TypeOK, Statuses, MailboxStates, Steps
<1>2. TypeOK /\ [Next]_vars => TypeOK'
  <2> SUFFICES ASSUME TypeOK, [Next]_vars PROVE TypeOK'
    OBVIOUS
  <2> USE DEF TypeOK, Statuses, MailboxStates, Steps, Goto, history
  <2>1. ASSUME NEW m \in Messages, RequestStep(m) PROVE TypeOK'
    <3>1. CASE Prepare(m)
      BY <3>1 DEF Prepare
    <3>2. CASE Publish(m)
      BY <3>2, QueueUpdate, 0 \in 0..MaxRetries DEF Publish
    <3>3. CASE PublishFails(m)
      BY <3>3 DEF PublishFails
    <3>4. QED
      BY <2>1, <3>1, <3>2, <3>3 DEF RequestStep
  <2>2. ASSUME NEW w \in Workers, WorkerStep(w) PROVE TypeOK'
    <3>1. ASSUME NEW m \in Messages, NEW t \in 0..MaxRetries, StartTask(w, m, t) PROVE TypeOK'
      <4>1. queue' \in [Messages -> [0..MaxRetries -> Nat]]
        BY <3>1, QueueUpdate DEF StartTask
      <4>2. pc' \in [Workers -> Steps]
        BY <3>1 DEF StartTask
      <4>3. job' \in [Workers -> Messages] /\ tries' \in [Workers -> 0..MaxRetries]
        BY <3>1 DEF StartTask
      <4>4. QED
        BY <3>1, <4>1, <4>2, <4>3 DEF StartTask
    <3>2. CASE AcquireLock(w)
      <4>1. lock' \in [Messages -> Workers \cup {Nobody, Dead}]
        <5> HIDE DEF TypeOK
        <5>1. lock' = lock \/ lock' = [lock EXCEPT ![job[w]] = w]
          BY <3>2 DEF AcquireLock
        <5>2. lock \in [Messages -> Workers \cup {Nobody, Dead}]
          BY DEF TypeOK
        <5>3. QED
          BY <5>1, <5>2, LockUpdate
      <4>2. pc' \in [Workers -> Steps]
        BY <3>2 DEF AcquireLock
      <4>3. QED
        BY <3>2, <4>1, <4>2 DEF AcquireLock
    <3>3. CASE Refresh(w)
      BY <3>3 DEF Refresh
    <3>4. CASE RefuseMailbox(w)
      BY <3>4 DEF RefuseMailbox
    <3>4a. CASE MarkSending(w)
      BY <3>4a DEF MarkSending
    <3>5. CASE GraphAccepts(w)
      BY <3>5 DEF GraphAccepts
    <3>5a. CASE GraphRejects(w)
      BY <3>5a DEF GraphRejects
    <3>5b. CASE GraphAnswerLost(w)
      BY <3>5b DEF GraphAnswerLost
    <3>6. CASE RecordSent(w)
      BY <3>6 DEF RecordSent, CompleteReply, CompleteOpener, Messages
    <3>6a. CASE RecordSentFails(w)
      BY <3>6a DEF RecordSentFails
    <3>6b. CASE RecordFailure(w)
      BY <3>6b DEF RecordFailure
    <3>7. CASE Release(w)
      BY <3>7 DEF Release, ReleasedBy
    <3>8. CASE ReleaseAndRetry(w)
      <4>1. tries[w] < MaxRetries => tries[w] + 1 \in 0..MaxRetries
        OBVIOUS
      <4>2. queue' \in [Messages -> [0..MaxRetries -> Nat]]
        BY <3>8, <4>1, QueueUpdate DEF ReleaseAndRetry
      <4>3. QED
        BY <3>8, <4>2 DEF ReleaseAndRetry, ReleasedBy
    <3>9. QED
      BY <2>2, <3>1, <3>2, <3>3, <3>4, <3>4a, <3>5, <3>5a, <3>5b,
         <3>6, <3>6a, <3>6b, <3>7, <3>8 DEF WorkerStep
  <2>3. CASE Environment
    <3>1. CASE ChangeMailbox
      BY <3>1 DEF ChangeMailbox
    <3>2. ASSUME NEW m \in Messages, DeadLockExpires(m) \/ LiveLockExpires(m) PROVE TypeOK'
      <4>1. CASE DeadLockExpires(m)
        BY <4>1 DEF DeadLockExpires
      <4>2. CASE LiveLockExpires(m)
        <5>1. lock' \in [Messages -> Workers \cup {Nobody, Dead}]
          BY <4>2 DEF LiveLockExpires
        <5>2. expiries' \in [Messages -> Nat]
          BY <4>2 DEF LiveLockExpires
        <5>3. QED
          BY <4>2, <5>1, <5>2 DEF LiveLockExpires
      <4>3. QED
        BY <3>2, <4>1, <4>2
    <3>3. ASSUME NEW m \in Messages, NEW t \in 0..MaxRetries, DuplicateTask(m, t) PROVE TypeOK'
      <4>1. queue' \in [Messages -> [0..MaxRetries -> Nat]]
        BY <3>3, QueueUpdate DEF DuplicateTask
      <4>2. duplicates' \in Nat
        BY <3>3 DEF DuplicateTask
      <4>3. QED
        BY <3>3, <4>1, <4>2 DEF DuplicateTask
    <3>4. ASSUME NEW w \in Workers, Crash(w) PROVE TypeOK'
      <4>1. PICK sent \in {0, 1} :
              /\ copies' = [copies EXCEPT ![job[w]] = @ + sent]
              /\ excuses' = [excuses EXCEPT ![job[w]] =
                               @ + IF pc[w] = "accepted" THEN 1 ELSE sent]
        BY <3>4 DEF Crash
      <4>2. copies' \in [Messages -> Nat] /\ excuses' \in [Messages -> Nat]
        BY <4>1
      <4>3. lock' \in [Messages -> Workers \cup {Nobody, Dead}]
        BY <3>4 DEF Crash
      <4>4. crashes' \in Nat /\ abandoned' \in SUBSET Messages
        BY <3>4 DEF Crash
      <4>5. QED
        BY <3>4, <4>2, <4>3, <4>4 DEF Crash
    <3>5. QED
      BY <2>3, <3>1, <3>2, <3>3, <3>4 DEF Environment
  <2>4. CASE UNCHANGED vars
    BY <2>4 DEF vars
  <2>5. QED
    BY <2>1, <2>2, <2>3, <2>4 DEF Next
<1>3. QED
  BY <1>1, <1>2, PTL DEF Spec

-----------------------------------------------------------------------------
(* The part of TypeOK that the delivery invariants depend on.               *)
DeliveryTypes ==
  /\ status \in [Messages -> Statuses]
  /\ lock \in [Messages -> Workers \cup {Nobody, Dead}]
  /\ pc \in [Workers -> Steps]
  /\ job \in [Workers -> Messages]
  /\ copies \in [Messages -> Nat]
  /\ excuses \in [Messages -> Nat]
  /\ expiries \in [Messages -> Nat]

(* Each step of the program keeps the lock with the worker that relies on   *)
(* it, unless it expires under some holder, which the history records.      *)
LEMMA HolderOwnsLockStep ==
  ASSUME DeliveryTypes, HolderOwnsLock, [Next]_vars
  PROVE  HolderOwnsLock'
<1> USE IdentitiesAssumption
<1> USE DEF DeliveryTypes, HolderOwnsLock, Holding, Steps, Goto, history
<1>1. ASSUME NEW m \in Messages, RequestStep(m) PROVE HolderOwnsLock'
  BY <1>1 DEF RequestStep, Prepare, Publish, PublishFails
<1>2. ASSUME NEW w \in Workers, WorkerStep(w) PROVE HolderOwnsLock'
  <2>1. ASSUME NEW m \in Messages, NEW t \in 0..MaxRetries, StartTask(w, m, t)
        PROVE HolderOwnsLock'
    BY <2>1 DEF StartTask
  <2>2. CASE AcquireLock(w)
    BY <2>2 DEF AcquireLock
  <2>3. CASE Refresh(w)
    BY <2>3 DEF Refresh
  <2>4. CASE RefuseMailbox(w) \/ MarkSending(w)
    BY <2>4 DEF RefuseMailbox, MarkSending
  <2>5. CASE GraphAccepts(w) \/ GraphRejects(w) \/ GraphAnswerLost(w)
    BY <2>5 DEF GraphAccepts, GraphRejects, GraphAnswerLost
  <2>6. CASE RecordSent(w) \/ RecordSentFails(w) \/ RecordFailure(w)
    BY <2>6 DEF RecordSent, RecordSentFails, RecordFailure
  <2>7. CASE Release(w)
    BY <2>7 DEF Release, ReleasedBy
  <2>8. CASE ReleaseAndRetry(w)
    BY <2>8 DEF ReleaseAndRetry, ReleasedBy
  <2>9. QED
    BY <1>2, <2>1, <2>2, <2>3, <2>4, <2>5, <2>6, <2>7, <2>8 DEF WorkerStep
<1>3. CASE Environment
  <2>1. CASE ChangeMailbox
    BY <2>1 DEF ChangeMailbox
  <2>2. ASSUME NEW m \in Messages, DeadLockExpires(m) PROVE HolderOwnsLock'
    BY <2>2 DEF DeadLockExpires
  <2>3. ASSUME NEW m \in Messages, LiveLockExpires(m) PROVE HolderOwnsLock'
    BY <2>3 DEF LiveLockExpires
  <2>4. ASSUME NEW m \in Messages, NEW t \in 0..MaxRetries, DuplicateTask(m, t)
        PROVE HolderOwnsLock'
    BY <2>4 DEF DuplicateTask
  <2>5. ASSUME NEW w \in Workers, Crash(w) PROVE HolderOwnsLock'
    BY <2>5 DEF Crash
  <2>6. QED
    BY <1>3, <2>1, <2>2, <2>3, <2>4, <2>5 DEF Environment
<1>4. CASE UNCHANGED vars
  BY <1>4 DEF vars
<1>5. QED
  BY <1>1, <1>2, <1>3, <1>4 DEF Next

(* Two workers cannot both be the owner recorded in the lock.               *)
LEMMA OwnersDiffer ==
  ASSUME DeliveryTypes, HolderOwnsLock
  PROVE  OneWorkerPerMessage
BY DEF DeliveryTypes, HolderOwnsLock, OneWorkerPerMessage, AtWork

(* At most one worker is between acquire and release for a message.         *)
THEOREM MutualExclusion == Spec => []OneWorkerPerMessage
<1>1. TypeOK => DeliveryTypes
  BY DEF TypeOK, DeliveryTypes
<1>2. Init => HolderOwnsLock
  BY DEF Init, HolderOwnsLock, Holding, Steps
<1>3. TypeOK /\ HolderOwnsLock /\ [Next]_vars => HolderOwnsLock'
  BY <1>1, HolderOwnsLockStep
<1>4. TypeOK /\ HolderOwnsLock => OneWorkerPerMessage
  BY <1>1, OwnersDiffer
<1>5. QED
  BY <1>2, <1>3, <1>4, TypeCorrect, PTL DEF Spec

-----------------------------------------------------------------------------
(* Nobody else records a delivery while a worker that has refreshed the row *)
(* is still on its way to record one.                                       *)
LEMMA RefreshStillTrueStep ==
  ASSUME DeliveryTypes, HolderOwnsLock, RefreshStillTrue, [Next]_vars
  PROVE  RefreshStillTrue'
<1> USE IdentitiesAssumption
<1>0. OneWorkerPerMessage
  BY OwnersDiffer
<1> USE DEF DeliveryTypes, RefreshStillTrue, Statuses, Steps, Goto, history
<1>1. ASSUME NEW m \in Messages, RequestStep(m) PROVE RefreshStillTrue'
  BY <1>1 DEF RequestStep, Prepare, Publish, PublishFails
<1>2. ASSUME NEW w \in Workers, WorkerStep(w) PROVE RefreshStillTrue'
  <2>1. ASSUME NEW m \in Messages, NEW t \in 0..MaxRetries, StartTask(w, m, t)
        PROVE RefreshStillTrue'
    BY <2>1 DEF StartTask
  <2>2. CASE AcquireLock(w)
    BY <2>2 DEF AcquireLock
  <2>3. CASE Refresh(w)
    BY <2>3 DEF Refresh
  <2>4. CASE RefuseMailbox(w) \/ MarkSending(w)
    BY <2>4 DEF RefuseMailbox, MarkSending
  <2>5. CASE GraphAccepts(w) \/ GraphRejects(w) \/ GraphAnswerLost(w)
    BY <2>5 DEF GraphAccepts, GraphRejects, GraphAnswerLost
  <2>6. CASE RecordSent(w)
    BY <2>6, <1>0 DEF RecordSent, OneWorkerPerMessage, AtWork, Holding
  <2>7. CASE RecordSentFails(w) \/ RecordFailure(w)
    BY <2>7 DEF RecordSentFails, RecordFailure
  <2>8. CASE Release(w)
    BY <2>8 DEF Release
  <2>9. CASE ReleaseAndRetry(w)
    BY <2>9 DEF ReleaseAndRetry
  <2>10. QED
    BY <1>2, <2>1, <2>2, <2>3, <2>4, <2>5, <2>6, <2>7, <2>8, <2>9 DEF WorkerStep
<1>3. CASE Environment
  <2>1. CASE ChangeMailbox
    BY <2>1 DEF ChangeMailbox
  <2>2. ASSUME NEW m \in Messages, DeadLockExpires(m) PROVE RefreshStillTrue'
    BY <2>2 DEF DeadLockExpires
  <2>3. ASSUME NEW m \in Messages, LiveLockExpires(m) PROVE RefreshStillTrue'
    BY <2>3 DEF LiveLockExpires
  <2>4. ASSUME NEW m \in Messages, NEW t \in 0..MaxRetries, DuplicateTask(m, t)
        PROVE RefreshStillTrue'
    BY <2>4 DEF DuplicateTask
  <2>5. ASSUME NEW w \in Workers, Crash(w) PROVE RefreshStillTrue'
    BY <2>5 DEF Crash
  <2>6. QED
    BY <1>3, <2>1, <2>2, <2>3, <2>4, <2>5 DEF Environment
<1>4. CASE UNCHANGED vars
  BY <1>4 DEF vars
<1>5. QED
  BY <1>1, <1>2, <1>3, <1>4 DEF Next

(* What the delivery invariants rest on, as one invariant.                  *)
DeliveryInv == DeliveryTypes /\ HolderOwnsLock /\ RefreshStillTrue

LEMMA DeliveryInvariant == Spec => []DeliveryInv
<1>1. TypeOK => DeliveryTypes
  BY DEF TypeOK, DeliveryTypes
<1>2. Init => HolderOwnsLock /\ RefreshStillTrue
  BY DEF Init, HolderOwnsLock, RefreshStillTrue, Holding, Steps
<1>3. TypeOK /\ HolderOwnsLock /\ RefreshStillTrue /\ [Next]_vars
        => HolderOwnsLock' /\ RefreshStillTrue'
  BY <1>1, HolderOwnsLockStep, RefreshStillTrueStep
<1>4. TypeOK /\ HolderOwnsLock /\ RefreshStillTrue => DeliveryInv
  BY <1>1 DEF DeliveryInv
<1>5. QED
  BY <1>2, <1>3, <1>4, TypeCorrect, PTL DEF Spec

(* complete_ticket_reply's "sent" is not overwritten by the worker of a     *)
(* retry or of a duplicated task.                                           *)
THEOREM SentStays == Spec => SentIsFinal
<1> DEFINE Kept == \A m \in Messages :
                     status[m] = "sent" /\ expiries[m] = 0 => status'[m] = "sent"
<1>1. ASSUME DeliveryInv, [Next]_vars PROVE Kept
  <2> USE DEF DeliveryInv, DeliveryTypes, RefreshStillTrue, Statuses, history
  <2>1. ASSUME NEW m \in Messages, RequestStep(m) PROVE Kept
    BY <1>1, <2>1 DEF RequestStep, Prepare, Publish, PublishFails
  <2>2. ASSUME NEW w \in Workers, WorkerStep(w) PROVE Kept
    <3>1. CASE RefuseMailbox(w)
      BY <1>1, <3>1 DEF RefuseMailbox
    <3>2. CASE MarkSending(w)
      BY <1>1, <3>2 DEF MarkSending
    <3>3. CASE RecordSent(w)
      BY <1>1, <3>3 DEF RecordSent
    <3>4. CASE RecordFailure(w)
      BY <1>1, <3>4 DEF RecordFailure
    <3>5. CASE UNCHANGED status
      BY <3>5
    <3>6. QED
      BY <2>2, <3>1, <3>2, <3>3, <3>4, <3>5
      DEF WorkerStep, StartTask, AcquireLock, Refresh, GraphAccepts, GraphRejects,
          GraphAnswerLost, RecordSentFails, Release, ReleaseAndRetry
  <2>3. CASE Environment
    BY <2>3 DEF Environment, ChangeMailbox, DeadLockExpires, LiveLockExpires,
                DuplicateTask, Crash
  <2>4. CASE UNCHANGED vars
    BY <2>4 DEF vars
  <2>5. QED
    BY <1>1, <2>1, <2>2, <2>3, <2>4 DEF Next
<1>2. DeliveryInv /\ [Next]_vars => [Kept]_vars
  BY <1>1
<1>3. QED
  BY <1>2, DeliveryInvariant, PTL DEF Spec, SentIsFinal

-----------------------------------------------------------------------------
(* EveryCopyAccounted is inductive on top of DeliveryInv: a worker sends    *)
(* only while the message is not sent and nobody else holds an acceptance.  *)
Settled(m) == status[m] = "sent" \/ Accepted(m)

LEMMA EveryCopyAccountedStep ==
  ASSUME DeliveryInv, EveryCopyAccounted, [Next]_vars
  PROVE  EveryCopyAccounted'
<1> USE IdentitiesAssumption
<1>0. OneWorkerPerMessage
  BY OwnersDiffer DEF DeliveryInv
<1>a. \A w \in Workers : pc[w] \in {"ready", "calling", "error"} /\ expiries[job[w]] = 0
                           => ~Settled(job[w])
  BY <1>0 DEF DeliveryInv, DeliveryTypes, RefreshStillTrue, OneWorkerPerMessage, AtWork,
              Holding, Steps, Settled, Accepted
<1>b. \A m \in Messages : expiries[m] = 0 => copies[m] = excuses[m] + (IF Settled(m) THEN 1 ELSE 0)
  BY DEF EveryCopyAccounted, Settled
<1> SUFFICES ASSUME NEW k \in Messages, expiries'[k] = 0
             PROVE  copies'[k] = excuses'[k] + (IF Settled(k)' THEN 1 ELSE 0)
  BY DEF EveryCopyAccounted, Settled
<1> DEFINE Goal == copies'[k] = excuses'[k] + (IF Settled(k)' THEN 1 ELSE 0)
<1>c. ASSUME expiries[k] = 0, UNCHANGED <<copies, excuses>>, Settled(k)' <=> Settled(k)
      PROVE  Goal
  BY <1>b, <1>c
<1>d. ASSUME expiries[k] = 0, UNCHANGED <<copies, excuses, status, job>>,
             \A w \in Workers : job[w] = k => (pc'[w] = "accepted" <=> pc[w] = "accepted")
      PROVE  Goal
  BY <1>c, <1>d DEF Settled, Accepted
<1> HIDE DEF Goal
<1> USE DEF DeliveryInv, DeliveryTypes, Statuses, Steps, Goto, history
<1>1. ASSUME NEW m \in Messages, RequestStep(m) PROVE Goal
  <2>1. expiries[k] = 0 /\ UNCHANGED <<copies, excuses, job, pc>>
    BY <1>1 DEF RequestStep, Prepare, Publish, PublishFails
  <2>2. status'[k] = "sent" <=> status[k] = "sent"
    BY <1>1 DEF RequestStep, Prepare, Publish, PublishFails
  <2>3. QED
    BY <1>c, <2>1, <2>2 DEF Settled, Accepted
<1>2. ASSUME NEW w \in Workers, WorkerStep(w) PROVE Goal
  <2>0. expiries[k] = 0
    BY <1>2 DEF WorkerStep, StartTask, AcquireLock, Refresh, RefuseMailbox, MarkSending,
       GraphAccepts, GraphRejects, GraphAnswerLost, RecordSent, RecordSentFails,
       RecordFailure, Release, ReleaseAndRetry
  <2>1. ASSUME NEW m \in Messages, NEW t \in 0..MaxRetries, StartTask(w, m, t) PROVE Goal
    <3>1. Accepted(k)' <=> Accepted(k)
      BY <2>1 DEF StartTask, Accepted
    <3>2. QED
      BY <1>c, <2>0, <2>1, <3>1 DEF StartTask, Settled
  <2>2. CASE AcquireLock(w)
    BY <1>d, <2>0, <2>2 DEF AcquireLock
  <2>3. CASE Refresh(w)
    BY <1>d, <2>0, <2>3 DEF Refresh
  <2>4. CASE RefuseMailbox(w)
    <3>1. UNCHANGED <<copies, excuses>>
      BY <2>4 DEF RefuseMailbox
    <3>2. Settled(k)' <=> Settled(k)
      BY <1>a, <2>0, <2>4 DEF RefuseMailbox, Settled, Accepted
    <3>3. QED
      BY <1>c, <2>0, <3>1, <3>2
  <2>5. CASE MarkSending(w)
    <3>1. UNCHANGED <<copies, excuses>>
      BY <2>5 DEF MarkSending
    <3>2. Settled(k)' <=> Settled(k)
      BY <1>a, <2>0, <2>5 DEF MarkSending, Settled, Accepted
    <3>3. QED
      BY <1>c, <2>0, <3>1, <3>2
  <2>6. CASE GraphAccepts(w)
    <3>1. CASE k = job[w]
      <4>1. ~Settled(k) /\ Settled(k)'
        BY <1>a, <2>0, <2>6, <3>1 DEF GraphAccepts, Settled, Accepted
      <4>2. copies'[k] = copies[k] + 1 /\ excuses'[k] = excuses[k]
        BY <2>6, <3>1 DEF GraphAccepts
      <4>3. QED
        BY <1>b, <2>0, <4>1, <4>2 DEF Goal
    <3>2. CASE k # job[w]
      <4>1. Settled(k)' <=> Settled(k)
        BY <2>6, <3>2 DEF GraphAccepts, Settled, Accepted
      <4>2. copies'[k] = copies[k] /\ excuses'[k] = excuses[k]
        BY <2>6, <3>2 DEF GraphAccepts
      <4>3. QED
        BY <1>b, <2>0, <4>1, <4>2 DEF Goal
    <3>3. QED
      BY <3>1, <3>2
  <2>7. CASE GraphRejects(w)
    BY <1>d, <2>0, <2>7 DEF GraphRejects
  <2>8. CASE GraphAnswerLost(w)
    <3>1. Settled(k)' <=> Settled(k)
      BY <2>8 DEF GraphAnswerLost, Settled, Accepted
    <3>2. copies'[k] - excuses'[k] = copies[k] - excuses[k]
      BY <2>8 DEF GraphAnswerLost
    <3>3. copies'[k] \in Nat /\ excuses'[k] \in Nat
      BY <2>8 DEF GraphAnswerLost
    <3>4. QED
      BY <1>b, <2>0, <3>1, <3>2, <3>3 DEF Goal
  <2>9. CASE RecordSent(w)
    <3>1. UNCHANGED <<copies, excuses>>
      BY <2>9 DEF RecordSent
    <3>2. Settled(k)' <=> Settled(k)
      BY <2>9 DEF RecordSent, Settled, Accepted
    <3>3. QED
      BY <1>c, <2>0, <3>1, <3>2
  <2>10. CASE RecordSentFails(w)
    <3>1. CASE k = job[w]
      <4>1. Settled(k) /\ ~Settled(k)'
        BY <1>0, <2>0, <2>10, <3>1 DEF RecordSentFails, Settled, Accepted,
           RefreshStillTrue, OneWorkerPerMessage, AtWork, Holding
      <4>2. copies'[k] = copies[k] /\ excuses'[k] = excuses[k] + 1
        BY <2>10, <3>1 DEF RecordSentFails
      <4>3. QED
        BY <1>b, <2>0, <4>1, <4>2 DEF Goal
    <3>2. CASE k # job[w]
      <4>1. Settled(k)' <=> Settled(k)
        BY <2>10, <3>2 DEF RecordSentFails, Settled, Accepted
      <4>2. copies'[k] = copies[k] /\ excuses'[k] = excuses[k]
        BY <2>10, <3>2 DEF RecordSentFails
      <4>3. QED
        BY <1>b, <2>0, <4>1, <4>2 DEF Goal
    <3>3. QED
      BY <3>1, <3>2
  <2>11. CASE RecordFailure(w)
    <3>1. UNCHANGED <<copies, excuses>>
      BY <2>11 DEF RecordFailure
    <3>2. Settled(k)' <=> Settled(k)
      BY <1>a, <2>0, <2>11 DEF RecordFailure, Settled, Accepted
    <3>3. QED
      BY <1>c, <2>0, <3>1, <3>2
  <2>12. CASE Release(w)
    BY <1>d, <2>0, <2>12 DEF Release
  <2>13. CASE ReleaseAndRetry(w)
    BY <1>d, <2>0, <2>13 DEF ReleaseAndRetry
  <2>14. QED
    BY <1>2, <2>1, <2>2, <2>3, <2>4, <2>5, <2>6, <2>7, <2>8, <2>9, <2>10, <2>11,
       <2>12, <2>13 DEF WorkerStep
<1>3. CASE Environment
  <2>1. CASE ChangeMailbox
    <3>1. expiries[k] = 0 /\ UNCHANGED <<copies, excuses, status, job, pc>>
      BY <2>1 DEF ChangeMailbox
    <3>2. QED
      BY <1>d, <3>1 DEF Goal
  <2>2. ASSUME NEW m \in Messages, DeadLockExpires(m) PROVE Goal
    BY <1>d, <2>2 DEF DeadLockExpires
  <2>3. ASSUME NEW m \in Messages, LiveLockExpires(m) PROVE Goal
    <3>1. expiries[k] = 0
      BY <2>3 DEF LiveLockExpires
    <3>2. QED
      BY <1>d, <2>3, <3>1 DEF LiveLockExpires
  <2>4. ASSUME NEW m \in Messages, NEW t \in 0..MaxRetries, DuplicateTask(m, t) PROVE Goal
    BY <1>d, <2>4 DEF DuplicateTask
  <2>5. ASSUME NEW w \in Workers, Crash(w) PROVE Goal
    <3>0. expiries[k] = 0
      BY <2>5 DEF Crash
    <3>1. PICK sent \in IF pc[w] = "calling" THEN {0, 1} ELSE {0} :
            /\ copies' = [copies EXCEPT ![job[w]] = @ + sent]
            /\ excuses' = [excuses EXCEPT ![job[w]] =
                             @ + IF pc[w] = "accepted" THEN 1 ELSE sent]
      BY <2>5 DEF Crash
    <3>2. CASE k = job[w] /\ pc[w] = "accepted"
      <4>1. Settled(k) /\ ~Settled(k)'
        BY <1>0, <2>5, <3>0, <3>2 DEF Crash, Settled, Accepted,
           RefreshStillTrue, OneWorkerPerMessage, AtWork, Holding
      <4>2. copies'[k] = copies[k] /\ excuses'[k] = excuses[k] + 1
        BY <3>1, <3>2
      <4>3. QED
        BY <1>b, <3>0, <4>1, <4>2 DEF Goal
    <3>3. CASE ~(k = job[w] /\ pc[w] = "accepted")
      <4>1. Settled(k)' <=> Settled(k)
        BY <2>5, <3>3 DEF Crash, Settled, Accepted
      <4>2. PICK n \in {0, 1} : copies'[k] = copies[k] + n /\ excuses'[k] = excuses[k] + n
        BY <3>1, <3>3
      <4>3. QED
        BY <1>b, <3>0, <4>1, <4>2 DEF Goal
    <3>4. QED
      BY <3>2, <3>3
  <2>6. ASSUME NEW m \in Messages, DeadLockExpires(m) \/ LiveLockExpires(m) PROVE Goal
    BY <2>2, <2>3, <2>6
  <2>7. QED
    BY <1>3, <2>1, <2>4, <2>5, <2>6 DEF Environment, Goal
<1>4. CASE UNCHANGED vars
  <2>1. expiries[k] = 0 /\ UNCHANGED <<copies, excuses, status, job, pc>>
    BY <1>4 DEF vars
  <2>2. QED
    BY <1>d, <2>1 DEF Goal
<1>5. QED
  BY <1>1, <1>2, <1>3, <1>4 DEF Next, Goal

(* The customer gets one copy more than the copies that were accepted       *)
(* without a record, for any number of workers, retries and duplicates.     *)
THEOREM CopiesAccounted == Spec => []EveryCopyAccounted
<1>1. Init => EveryCopyAccounted
  BY DEF Init, EveryCopyAccounted, Accepted
<1>2. DeliveryInv /\ EveryCopyAccounted /\ [Next]_vars => EveryCopyAccounted'
  BY EveryCopyAccountedStep
<1>3. QED
  BY <1>1, <1>2, DeliveryInvariant, PTL DEF Spec

-----------------------------------------------------------------------------
(* What is recorded as sent, or as a first response, went out, whichever    *)
(* locks expire: a worker holds an acceptance only for a copy that exists.  *)
AcceptedWentOut == \A w \in Workers : pc[w] = "accepted" => copies[job[w]] > 0

WentOut == AcceptedWentOut /\ SentWasAccepted /\ FirstResponseIsReal

LEMMA CopiesGrow ==
  ASSUME DeliveryTypes, [Next]_vars
  PROVE  \A m \in Messages : copies'[m] \in Nat /\ copies'[m] >= copies[m]
<1> DEFINE Goal == \A m \in Messages : copies'[m] \in Nat /\ copies'[m] >= copies[m]
<1>0. ASSUME UNCHANGED copies PROVE Goal
  BY <1>0 DEF DeliveryTypes
<1>1. ASSUME NEW w \in Workers, GraphAccepts(w) \/ GraphAnswerLost(w) PROVE Goal
  BY <1>1 DEF GraphAccepts, GraphAnswerLost, DeliveryTypes
<1>2. ASSUME NEW w \in Workers, Crash(w) PROVE Goal
  <2>1. PICK sent \in {0, 1} : copies' = [copies EXCEPT ![job[w]] = @ + sent]
    BY <1>2 DEF Crash
  <2>2. QED
    BY <2>1 DEF DeliveryTypes
<1>3. ASSUME NEW m \in Messages, RequestStep(m) PROVE Goal
  BY <1>0, <1>3 DEF RequestStep, Prepare, Publish, PublishFails, history
<1>4. ASSUME NEW w \in Workers, WorkerStep(w) PROVE Goal
  <2>1. CASE GraphAccepts(w) \/ GraphAnswerLost(w)
    BY <1>1, <2>1
  <2>2. CASE ~(GraphAccepts(w) \/ GraphAnswerLost(w))
    <3>1. UNCHANGED copies
      BY <1>4, <2>2 DEF WorkerStep, StartTask, AcquireLock, Refresh, RefuseMailbox,
         MarkSending, GraphRejects, RecordSent, RecordSentFails, RecordFailure,
         Release, ReleaseAndRetry, history
    <3>2. QED
      BY <1>0, <3>1
  <2>3. QED
    BY <2>1, <2>2
<1>5. ASSUME Environment PROVE Goal
  <2>1. CASE \E w \in Workers : Crash(w)
    BY <1>2, <2>1
  <2>2. CASE ~\E w \in Workers : Crash(w)
    <3>1. UNCHANGED copies
      BY <1>5, <2>2 DEF Environment, ChangeMailbox, DeadLockExpires, LiveLockExpires,
         DuplicateTask, history
    <3>2. QED
      BY <1>0, <3>1
  <2>3. QED
    BY <2>1, <2>2
<1>6. ASSUME UNCHANGED vars PROVE Goal
  BY <1>0, <1>6 DEF vars, history
<1>7. QED
  BY <1>3, <1>4, <1>5, <1>6 DEF Next

LEMMA WentOutStep ==
  ASSUME DeliveryTypes, WentOut, [Next]_vars
  PROVE  WentOut'
<1>0. \A m \in Messages : copies'[m] \in Nat /\ copies'[m] >= copies[m]
  BY CopiesGrow
<1> USE DEF DeliveryTypes, Statuses, Steps, Goto, history
<1>a. ASSUME UNCHANGED <<status, response>>, AcceptedWentOut' PROVE WentOut'
  BY <1>0, <1>a DEF WentOut, SentWasAccepted, FirstResponseIsReal, Messages
<1>b. ASSUME UNCHANGED response, AcceptedWentOut',
             \A m \in Messages : status'[m] = "sent" => status[m] = "sent"
      PROVE  WentOut'
  BY <1>0, <1>b DEF WentOut, SentWasAccepted, FirstResponseIsReal, Messages
<1>c. ASSUME \A w \in Workers : pc'[w] = "accepted" => pc[w] = "accepted" /\ job'[w] = job[w]
      PROVE  AcceptedWentOut'
  BY <1>0, <1>c DEF WentOut, AcceptedWentOut
<1>1. ASSUME NEW m \in Messages, RequestStep(m) PROVE WentOut'
  BY <1>1, <1>b, <1>c DEF RequestStep, Prepare, Publish, PublishFails
<1>2. ASSUME NEW w \in Workers, WorkerStep(w) PROVE WentOut'
  <2>1. ASSUME NEW m \in Messages, NEW t \in 0..MaxRetries, StartTask(w, m, t) PROVE WentOut'
    <3>1. AcceptedWentOut'
      BY <1>c, <2>1 DEF StartTask
    <3>2. QED
      BY <1>a, <2>1, <3>1 DEF StartTask
  <2>2. CASE AcquireLock(w)
    BY <1>a, <1>c, <2>2 DEF AcquireLock
  <2>3. CASE Refresh(w)
    BY <1>a, <1>c, <2>3 DEF Refresh
  <2>4. CASE RefuseMailbox(w)
    BY <1>b, <1>c, <2>4 DEF RefuseMailbox
  <2>5. CASE MarkSending(w)
    BY <1>b, <1>c, <2>5 DEF MarkSending
  <2>6. CASE GraphAccepts(w)
    <3>1. AcceptedWentOut'
      BY <1>0, <2>6 DEF GraphAccepts, WentOut, AcceptedWentOut
    <3>2. QED
      BY <1>a, <2>6, <3>1 DEF GraphAccepts
  <2>7. CASE GraphRejects(w)
    BY <1>a, <1>c, <2>7 DEF GraphRejects
  <2>8. CASE GraphAnswerLost(w)
    BY <1>a, <1>c, <2>8 DEF GraphAnswerLost
  <2>9. CASE RecordSent(w)
    <3>1. copies[job[w]] > 0 /\ UNCHANGED copies
      BY <2>9 DEF RecordSent, WentOut, AcceptedWentOut
    <3>2. AcceptedWentOut'
      BY <1>c, <2>9 DEF RecordSent
    <3>3. SentWasAccepted'
      BY <2>9, <3>1 DEF RecordSent, WentOut, SentWasAccepted
    <3>4. FirstResponseIsReal'
      BY <2>9, <3>1 DEF RecordSent, CompleteReply, CompleteOpener, WentOut, FirstResponseIsReal
    <3>5. QED
      BY <3>2, <3>3, <3>4 DEF WentOut
  <2>10. CASE RecordSentFails(w)
    BY <1>a, <1>c, <2>10 DEF RecordSentFails
  <2>11. CASE RecordFailure(w)
    BY <1>b, <1>c, <2>11 DEF RecordFailure
  <2>12. CASE Release(w)
    BY <1>a, <1>c, <2>12 DEF Release
  <2>13. CASE ReleaseAndRetry(w)
    BY <1>a, <1>c, <2>13 DEF ReleaseAndRetry
  <2>14. QED
    BY <1>2, <2>1, <2>2, <2>3, <2>4, <2>5, <2>6, <2>7, <2>8, <2>9, <2>10, <2>11,
       <2>12, <2>13 DEF WorkerStep
<1>3. ASSUME Environment PROVE WentOut'
  <2>1. UNCHANGED <<status, response, job>>
    BY <1>3 DEF Environment, ChangeMailbox, DeadLockExpires, LiveLockExpires,
                DuplicateTask, Crash
  <2>2. \A w \in Workers : pc'[w] = "accepted" => pc[w] = "accepted"
    BY <1>3 DEF Environment, ChangeMailbox, DeadLockExpires, LiveLockExpires,
                DuplicateTask, Crash
  <2>3. QED
    BY <1>a, <1>c, <2>1, <2>2
<1>4. ASSUME UNCHANGED vars PROVE WentOut'
  BY <1>a, <1>c, <1>4 DEF vars
<1>5. QED
  BY <1>1, <1>2, <1>3, <1>4 DEF Next

LEMMA WentOutInvariant == Spec => []WentOut
<1>1. Init => WentOut
  BY DEF Init, WentOut, AcceptedWentOut, SentWasAccepted, FirstResponseIsReal
<1>2. TypeOK /\ WentOut /\ [Next]_vars => WentOut'
  BY WentOutStep DEF TypeOK, DeliveryTypes
<1>3. QED
  BY <1>1, <1>2, TypeCorrect, PTL DEF Spec

(* No message is recorded as sent that Graph did not accept.                *)
THEOREM SentIsHonest == Spec => []SentWasAccepted
BY WentOutInvariant, PTL DEF WentOut

(* The first response of a ticket is recorded for a reply that went out.    *)
THEOREM FirstResponseIsHonest == Spec => []FirstResponseIsReal
BY WentOutInvariant, PTL DEF WentOut

-----------------------------------------------------------------------------
(* A task exists only for a row that was written: the request publishes it  *)
(* after its commit.                                                        *)
TasksHaveRows ==
  /\ \A m \in unpublished : status[m] # "absent"
  /\ \A m \in Messages, t \in 0..MaxRetries : queue[m][t] > 0 => status[m] # "absent"
  /\ \A w \in Workers : pc[w] # "idle" => status[job[w]] # "absent"

LEMMA RowsStay ==
  ASSUME DeliveryTypes, [Next]_vars
  PROVE  \A m \in Messages : status[m] # "absent" => status'[m] # "absent"
<1> DEFINE Goal == \A m \in Messages : status[m] # "absent" => status'[m] # "absent"
<1>0. ASSUME UNCHANGED status PROVE Goal
  BY <1>0
<1> USE DEF DeliveryTypes
<1>1. ASSUME NEW m \in Messages, RequestStep(m) PROVE Goal
  BY <1>1 DEF RequestStep, Prepare, Publish, PublishFails
<1>2. ASSUME NEW w \in Workers, WorkerStep(w) PROVE Goal
  <2>1. CASE RefuseMailbox(w)
    BY <2>1 DEF RefuseMailbox
  <2>2. CASE MarkSending(w)
    BY <2>2 DEF MarkSending
  <2>3. CASE RecordSent(w)
    BY <2>3 DEF RecordSent
  <2>4. CASE RecordFailure(w)
    BY <2>4 DEF RecordFailure
  <2>5. CASE UNCHANGED status
    BY <1>0, <2>5
  <2>6. QED
    BY <1>2, <2>1, <2>2, <2>3, <2>4, <2>5
    DEF WorkerStep, StartTask, AcquireLock, Refresh, GraphAccepts, GraphRejects,
        GraphAnswerLost, RecordSentFails, Release, ReleaseAndRetry
<1>3. ASSUME Environment PROVE Goal
  BY <1>3 DEF Environment, ChangeMailbox, DeadLockExpires, LiveLockExpires,
              DuplicateTask, Crash
<1>4. ASSUME UNCHANGED vars PROVE Goal
  BY <1>0, <1>4 DEF vars
<1>5. QED
  BY <1>1, <1>2, <1>3, <1>4 DEF Next

(* Publishing a task for a written row keeps every task at a written row.   *)
LEMMA QueuedRows ==
  ASSUME TypeOK, NEW m \in Messages, NEW t \in 0..MaxRetries, status[m] # "absent",
         \A n \in Messages, u \in 0..MaxRetries : queue[n][u] > 0 => status[n] # "absent"
  PROVE  /\ \A n \in Messages, u \in 0..MaxRetries :
              Enqueued(m, t)[n][u] > 0 => status[n] # "absent"
         /\ \A n \in Messages, u \in 0..MaxRetries :
              Dequeued(m, t)[n][u] > 0 => status[n] # "absent"
<1>1. queue \in [Messages -> [0..MaxRetries -> Nat]]
  BY DEF TypeOK
<1>2. \A n \in Messages \ {m} : Enqueued(m, t)[n] = queue[n] /\ Dequeued(m, t)[n] = queue[n]
  BY <1>1 DEF Enqueued, Dequeued
<1>3. QED
  BY <1>2

LEMMA TasksHaveRowsStep ==
  ASSUME TypeOK, TasksHaveRows, [Next]_vars
  PROVE  TasksHaveRows'
<1>0. DeliveryTypes /\ unpublished \in SUBSET Messages
  BY DEF TypeOK, DeliveryTypes
<1>1. \A m \in Messages : status[m] # "absent" => status'[m] # "absent"
  BY <1>0, RowsStay
<1> DEFINE QueueOK ==
             \A m \in Messages, t \in 0..MaxRetries : queue[m][t] > 0 => status[m] # "absent"
<1>2. \A m \in unpublished' : status'[m] # "absent"
  <2>1. CASE \E m \in Messages : Prepare(m)
    BY <1>0, <1>1, <2>1 DEF Prepare, TasksHaveRows, DeliveryTypes
  <2>2. CASE ~\E m \in Messages : Prepare(m)
    <3>1. unpublished' \subseteq unpublished
      BY <2>2 DEF Next, vars, RequestStep, Publish, PublishFails, WorkerStep, StartTask,
         AcquireLock, Refresh, RefuseMailbox, MarkSending, GraphAccepts, GraphRejects,
         GraphAnswerLost, RecordSent, RecordSentFails, RecordFailure, Release,
         ReleaseAndRetry, Environment, ChangeMailbox, DeadLockExpires, LiveLockExpires,
         DuplicateTask, Crash
    <3>2. QED
      BY <1>0, <1>1, <3>1 DEF TasksHaveRows
  <2>3. QED
    BY <2>1, <2>2
<1>3. QueueOK'
  <2>0. \A m \in Messages, t \in 0..MaxRetries :
          status[m] # "absent" /\ (queue' = Enqueued(m, t) \/ queue' = Dequeued(m, t))
            => QueueOK'
    <3> SUFFICES ASSUME NEW m \in Messages, NEW t \in 0..MaxRetries, status[m] # "absent",
                        queue' = Enqueued(m, t) \/ queue' = Dequeued(m, t)
                 PROVE  QueueOK'
      OBVIOUS
    <3>1. \A n \in Messages, u \in 0..MaxRetries : queue'[n][u] > 0 => status[n] # "absent"
      BY QueuedRows DEF TasksHaveRows
    <3>2. QED
      BY <1>1, <3>1
  <2>1. ASSUME UNCHANGED queue PROVE QueueOK'
    BY <1>1, <2>1 DEF TasksHaveRows
  <2> HIDE DEF QueueOK
  <2>2. ASSUME NEW m \in Messages, RequestStep(m) PROVE QueueOK'
    <3>1. CASE Publish(m)
      <4>1. status[m] # "absent" /\ queue' = Enqueued(m, 0)
        BY <3>1 DEF Publish, TasksHaveRows
      <4>2. 0 \in 0..MaxRetries
        BY BoundsAssumption
      <4>3. QED
        BY <2>0, <4>1, <4>2
    <3>2. CASE Prepare(m) \/ PublishFails(m)
      BY <2>1, <3>2 DEF Prepare, PublishFails
    <3>3. QED
      BY <2>2, <3>1, <3>2 DEF RequestStep
  <2>3. ASSUME NEW w \in Workers, WorkerStep(w) PROVE QueueOK'
    <3>1. ASSUME NEW m \in Messages, NEW t \in 0..MaxRetries, StartTask(w, m, t)
          PROVE QueueOK'
      BY <2>0, <3>1 DEF StartTask, TasksHaveRows
    <3>2. CASE ReleaseAndRetry(w)
      <4>1. job[w] \in Messages /\ tries[w] \in 0..MaxRetries
        BY DEF TypeOK
      <4>2. status[job[w]] # "absent"
        BY <3>2 DEF ReleaseAndRetry, TasksHaveRows
      <4>3. CASE tries[w] < MaxRetries
        <5>1. tries[w] + 1 \in 0..MaxRetries
          BY <4>1, <4>3, BoundsAssumption
        <5>2. queue' = Enqueued(job[w], tries[w] + 1)
          BY <3>2, <4>3 DEF ReleaseAndRetry
        <5>3. QED
          BY <2>0, <4>1, <4>2, <5>1, <5>2
      <4>4. CASE ~(tries[w] < MaxRetries)
        BY <2>1, <3>2, <4>4 DEF ReleaseAndRetry
      <4>5. QED
        BY <4>3, <4>4
    <3>3. CASE UNCHANGED queue
      BY <2>1, <3>3
    <3>4. QED
      BY <2>3, <3>1, <3>2, <3>3
      DEF WorkerStep, AcquireLock, Refresh, RefuseMailbox, MarkSending, GraphAccepts,
          GraphRejects, GraphAnswerLost, RecordSent, RecordSentFails, RecordFailure, Release
  <2>4. ASSUME Environment PROVE QueueOK'
    <3>1. ASSUME NEW m \in Messages, NEW t \in 0..MaxRetries, DuplicateTask(m, t)
          PROVE QueueOK'
      BY <2>0, <3>1 DEF DuplicateTask, TasksHaveRows
    <3>2. CASE UNCHANGED queue
      BY <2>1, <3>2
    <3>3. QED
      BY <2>4, <3>1, <3>2
      DEF Environment, ChangeMailbox, DeadLockExpires, LiveLockExpires, Crash
  <2>5. ASSUME UNCHANGED vars PROVE QueueOK'
    BY <2>1, <2>5 DEF vars
  <2>6. QED
    BY <2>2, <2>3, <2>4, <2>5 DEF Next
<1>4. \A w \in Workers : pc'[w] # "idle" => status'[job'[w]] # "absent"
  <2> DEFINE Goal == \A w \in Workers : pc'[w] # "idle" => status'[job'[w]] # "absent"
  <2>1. ASSUME NEW w \in Workers, NEW m \in Messages, NEW t \in 0..MaxRetries,
               StartTask(w, m, t)
        PROVE  Goal
    BY <1>0, <1>1, <2>1 DEF StartTask, TasksHaveRows, DeliveryTypes, Goto
  <2>2. ASSUME UNCHANGED job, \A v \in Workers : pc'[v] # "idle" => pc[v] # "idle"
        PROVE  Goal
    BY <1>0, <1>1, <2>2 DEF TasksHaveRows, DeliveryTypes
  <2> HIDE DEF Goal
  <2>3. ASSUME NEW w \in Workers, WorkerStep(w) PROVE Goal
    <3>1. ASSUME UNCHANGED job, NEW s \in Steps, pc[w] # "idle", pc' = [pc EXCEPT ![w] = s]
          PROVE  Goal
      BY <1>0, <2>2, <3>1 DEF DeliveryTypes
    <3> USE DEF Goto, Steps
    <3>2. CASE AcquireLock(w)
      BY <3>1, <3>2 DEF AcquireLock
    <3>3. CASE Refresh(w)
      BY <3>1, <3>3 DEF Refresh
    <3>4. CASE RefuseMailbox(w) \/ MarkSending(w)
      BY <3>1, <3>4 DEF RefuseMailbox, MarkSending
    <3>5. CASE GraphAccepts(w) \/ GraphRejects(w) \/ GraphAnswerLost(w)
      BY <3>1, <3>5 DEF GraphAccepts, GraphRejects, GraphAnswerLost
    <3>6. CASE RecordSent(w) \/ RecordSentFails(w) \/ RecordFailure(w)
      BY <3>1, <3>6 DEF RecordSent, RecordSentFails, RecordFailure
    <3>7. CASE Release(w) \/ ReleaseAndRetry(w)
      BY <3>1, <3>7 DEF Release, ReleaseAndRetry
    <3>8. QED
      BY <2>1, <2>3, <3>2, <3>3, <3>4, <3>5, <3>6, <3>7 DEF WorkerStep
  <2>4. ASSUME NEW m \in Messages, RequestStep(m) PROVE Goal
    BY <2>2, <2>4 DEF RequestStep, Prepare, Publish, PublishFails
  <2>5. ASSUME Environment PROVE Goal
    <3>1. UNCHANGED job
      BY <2>5 DEF Environment, ChangeMailbox, DeadLockExpires, LiveLockExpires,
                  DuplicateTask, Crash
    <3>2. \A v \in Workers : pc'[v] # "idle" => pc[v] # "idle"
      BY <1>0, <2>5 DEF Environment, ChangeMailbox, DeadLockExpires, LiveLockExpires,
                  DuplicateTask, Crash, Goto, DeliveryTypes
    <3>3. QED
      BY <2>2, <3>1, <3>2
  <2>6. ASSUME UNCHANGED vars PROVE Goal
    BY <2>2, <2>6 DEF vars
  <2>7. QED
    BY <2>3, <2>4, <2>5, <2>6 DEF Next, Goal
<1>5. QED
  BY <1>2, <1>3, <1>4 DEF TasksHaveRows

-----------------------------------------------------------------------------
(* TicketDelivery implements OutboundMail as long as no lock expires under *)
(* a worker that is still at work.                                         *)

NoLiveExpiry == \A m \in Messages : expiries[m] = 0

(* What the simulation rests on in one state.                               *)
MailInv ==
  /\ DeliveryInv
  /\ OneWorkerPerMessage
  /\ EveryCopyAccounted
  /\ TasksHaveRows
  /\ NoLiveExpiry

LEMMA MailInvariant == ASSUME MaxExpiries = 0 PROVE Spec => []MailInv
<1>1. Init => TasksHaveRows /\ NoLiveExpiry
  BY BoundsAssumption DEF Init, TasksHaveRows, NoLiveExpiry
<1>2. TypeOK /\ TasksHaveRows /\ [Next]_vars => TasksHaveRows'
  BY TasksHaveRowsStep
<1>3. NoLiveExpiry /\ [Next]_vars => NoLiveExpiry'
  <2>1. ASSUME NoLiveExpiry, NEW m \in Messages PROVE ~LiveLockExpires(m)
    BY <2>1, MaxExpiries = 0 DEF NoLiveExpiry, LiveLockExpires
  <2>2. NoLiveExpiry /\ [Next]_vars => UNCHANGED expiries
    BY <2>1 DEF Next, vars, history, RequestStep, Prepare, Publish, PublishFails,
       WorkerStep, StartTask, AcquireLock, Refresh, RefuseMailbox, MarkSending,
       GraphAccepts, GraphRejects, GraphAnswerLost, RecordSent, RecordSentFails,
       RecordFailure, Release, ReleaseAndRetry, Environment, ChangeMailbox,
       DeadLockExpires, DuplicateTask, Crash
  <2>3. QED
    BY <2>2 DEF NoLiveExpiry
<1>4. DeliveryInv => OneWorkerPerMessage
  BY OwnersDiffer DEF DeliveryInv
<1>5. DeliveryInv /\ EveryCopyAccounted /\ TasksHaveRows /\ NoLiveExpiry => MailInv
  BY <1>4 DEF MailInv
<1>6. QED
  BY <1>1, <1>2, <1>3, <1>5, TypeCorrect, DeliveryInvariant, CopiesAccounted, PTL DEF Spec

-----------------------------------------------------------------------------
(* A worker past the refresh works on an open message of which no copy is   *)
(* outstanding; a worker with an acceptance, on one with one copy to record.*)
LEMMA WorkingOnOpenMail ==
  ASSUME MailInv, NEW w \in Workers, pc[w] \in {"ready", "calling", "error", "accepted"}
  PROVE  /\ job[w] \in Messages
         /\ status[job[w]] \notin {"absent", "sent"}
         /\ copies[job[w]] = excuses[job[w]] + (IF pc[w] = "accepted" THEN 1 ELSE 0)
<1> USE DEF MailInv, DeliveryInv, DeliveryTypes, NoLiveExpiry
<1>1. job[w] \in Messages /\ expiries[job[w]] = 0
  OBVIOUS
<1>2. status[job[w]] # "sent"
  BY <1>1 DEF RefreshStillTrue
<1>3. status[job[w]] # "absent"
  BY DEF TasksHaveRows
<1>4. Accepted(job[w]) <=> pc[w] = "accepted"
  BY <1>1 DEF OneWorkerPerMessage, AtWork, Holding, Steps, Accepted
<1>5. QED
  BY <1>1, <1>2, <1>3, <1>4 DEF EveryCopyAccounted

(* A step that leaves the mail alone, and only moves a message among the    *)
(* open statuses, is invisible.                                             *)
LEMMA Invisible ==
  ASSUME UNCHANGED <<copies, excuses>>,
         \A m \in Messages : /\ status'[m] = "absent" <=> status[m] = "absent"
                             /\ status'[m] = "sent" <=> status[m] = "sent"
  PROVE  UNCHANGED Mail!vars
BY DEF Stage, Mail!vars

LEMMA RequestSimulates ==
  ASSUME MailInv, NEW m \in Messages, RequestStep(m)
  PROVE  [Mail!Next]_(Mail!vars)
<1> USE DEF MailInv, DeliveryInv, DeliveryTypes
<1>1. CASE Prepare(m)
  <2>1. Stage[m] = "none"
    BY <1>1 DEF Prepare, Stage
  <2>2. Stage' = [Stage EXCEPT ![m] = "open"]
    BY <1>1 DEF Prepare, Stage
  <2>3. Mail!Write(m)
    BY <1>1, <2>1, <2>2 DEF Prepare, history, Mail!Write
  <2>4. QED
    BY <2>3 DEF Mail!Next
<1>2. CASE Publish(m)
  BY <1>2, Invisible DEF Publish, history
<1>3. CASE PublishFails(m)
  BY <1>3, Invisible DEF PublishFails
<1>4. QED
  BY <1>1, <1>2, <1>3 DEF RequestStep

LEMMA WorkerSimulates ==
  ASSUME MailInv, NEW w \in Workers, WorkerStep(w)
  PROVE  [Mail!Next]_(Mail!vars)
<1> USE DEF MailInv, DeliveryInv, DeliveryTypes
<1>o. ASSUME NEW m \in Messages, status[m] \notin {"absent", "sent"} PROVE Stage[m] = "open"
  BY <1>o DEF Stage
<1>1. ASSUME UNCHANGED <<status, copies, excuses>> PROVE [Mail!Next]_(Mail!vars)
  BY <1>1, Invisible
<1>2. ASSUME NEW s \in {"sending", "failed"}, pc[w] \in {"ready", "error"},
             status' = [status EXCEPT ![job[w]] = s], UNCHANGED <<copies, excuses>>
      PROVE  [Mail!Next]_(Mail!vars)
  BY <1>2, WorkingOnOpenMail, Invisible
<1>3. CASE \E m \in Messages, t \in 0..MaxRetries : StartTask(w, m, t)
  BY <1>1, <1>3 DEF StartTask, history
<1>4. CASE AcquireLock(w) \/ Refresh(w) \/ GraphRejects(w) \/ Release(w) \/ ReleaseAndRetry(w)
  BY <1>1, <1>4 DEF AcquireLock, Refresh, GraphRejects, Release, ReleaseAndRetry, history
<1>5. CASE RefuseMailbox(w)
  BY <1>2, <1>5 DEF RefuseMailbox, history
<1>6. CASE MarkSending(w)
  BY <1>2, <1>6 DEF MarkSending, history
<1>7. CASE RecordFailure(w)
  BY <1>2, <1>7 DEF RecordFailure, history
<1>8. CASE GraphAccepts(w)
  <2>1. Stage[job[w]] = "open" /\ copies[job[w]] = excuses[job[w]]
    BY <1>8, <1>o, WorkingOnOpenMail DEF GraphAccepts
  <2>2. Mail!Transmit(job[w])
    BY <1>8, <2>1 DEF GraphAccepts, Stage, Mail!Transmit
  <2>3. QED
    BY <2>2 DEF Mail!Next
<1>9. CASE GraphAnswerLost(w)
  <2>1. Stage[job[w]] = "open" /\ copies[job[w]] = excuses[job[w]]
    BY <1>9, <1>o, WorkingOnOpenMail DEF GraphAnswerLost
  <2>2. Mail!TransmitUnseen(job[w])
    BY <1>9, <2>1 DEF GraphAnswerLost, Stage, Mail!TransmitUnseen
  <2>3. QED
    BY <2>2 DEF Mail!Next
<1>10. CASE RecordSent(w)
  <2>1. Stage[job[w]] = "open" /\ copies[job[w]] = excuses[job[w]] + 1
    BY <1>10, <1>o, WorkingOnOpenMail DEF RecordSent
  <2>2. Stage' = [Stage EXCEPT ![job[w]] = "delivered"]
    BY <1>10 DEF RecordSent, Stage
  <2>3. Mail!Deliver(job[w])
    BY <1>10, <2>1, <2>2 DEF RecordSent, history, Mail!Deliver
  <2>4. QED
    BY <2>3 DEF Mail!Next
<1>11. CASE RecordSentFails(w)
  <2>1. Stage[job[w]] = "open" /\ copies[job[w]] = excuses[job[w]] + 1
    BY <1>11, <1>o, WorkingOnOpenMail DEF RecordSentFails
  <2>2. Mail!WriteOff(job[w])
    BY <1>11, <2>1 DEF RecordSentFails, Stage, Mail!WriteOff
  <2>3. QED
    BY <2>2 DEF Mail!Next
<1>12. QED
  BY <1>3, <1>4, <1>5, <1>6, <1>7, <1>8, <1>9, <1>10, <1>11 DEF WorkerStep

LEMMA EnvironmentSimulates ==
  ASSUME MailInv, Environment
  PROVE  [Mail!Next]_(Mail!vars)
<1> USE DEF MailInv, DeliveryInv, DeliveryTypes
<1>1. ASSUME UNCHANGED <<status, copies, excuses>> PROVE [Mail!Next]_(Mail!vars)
  BY <1>1, Invisible
<1>2. ASSUME NEW w \in Workers, Crash(w) PROVE [Mail!Next]_(Mail!vars)
  <2>0. job[w] \in Messages /\ UNCHANGED Stage
    BY <1>2 DEF Crash, Stage
  <2>1. CASE pc[w] = "accepted"
    <3>1. Stage[job[w]] = "open" /\ copies[job[w]] = excuses[job[w]] + 1
      BY <2>1, WorkingOnOpenMail DEF Stage
    <3>2. copies' = copies /\ excuses' = [excuses EXCEPT ![job[w]] = @ + 1]
      BY <1>2, <2>1 DEF Crash
    <3>3. Mail!WriteOff(job[w])
      BY <2>0, <3>1, <3>2 DEF Mail!WriteOff
    <3>4. QED
      BY <2>0, <3>3 DEF Mail!Next
  <2>2. CASE pc[w] = "calling" /\ UNCHANGED <<copies, excuses>>
    BY <2>0, <2>2 DEF Mail!vars
  <2>3. CASE pc[w] = "calling" /\ ~UNCHANGED <<copies, excuses>>
    <3>1. Stage[job[w]] = "open" /\ copies[job[w]] = excuses[job[w]]
      BY <2>3, WorkingOnOpenMail DEF Stage
    <3>2. /\ copies' = [copies EXCEPT ![job[w]] = @ + 1]
          /\ excuses' = [excuses EXCEPT ![job[w]] = @ + 1]
      <4>1. PICK sent \in {0, 1} :
              /\ copies' = [copies EXCEPT ![job[w]] = @ + sent]
              /\ excuses' = [excuses EXCEPT ![job[w]] = @ + sent]
        BY <1>2, <2>3 DEF Crash
      <4>2. sent # 0
        BY <2>0, <2>3, <4>1
      <4>3. QED
        BY <4>1, <4>2
    <3>3. Mail!TransmitUnseen(job[w])
      BY <2>0, <3>1, <3>2 DEF Mail!TransmitUnseen
    <3>4. QED
      BY <2>0, <3>3 DEF Mail!Next
  <2>4. CASE pc[w] \notin {"accepted", "calling"}
    <3>1. UNCHANGED <<copies, excuses>>
      BY <1>2, <2>4 DEF Crash
    <3>2. QED
      BY <2>0, <3>1 DEF Mail!vars
  <2>5. QED
    BY <2>1, <2>2, <2>3, <2>4
<1>3. QED
  BY <1>1, <1>2 DEF Environment, ChangeMailbox, DeadLockExpires, LiveLockExpires,
                    DuplicateTask, history

(* The delivery machinery implements the promise of OutboundMail: with      *)
(* locks that outlive their holders, queue, retries, duplicated tasks and   *)
(* crashes of _deliver_graph_ticket_reply are invisible in what the         *)
(* customer receives and the ticket records.                                *)
THEOREM DeliveryImplementsMail ==
  ASSUME MaxExpiries = 0
  PROVE  Spec => ImplementsOutboundMail
<1>1. Init => Mail!Init
  BY DEF Init, Mail!Init, Stage
<1>2. MailInv /\ [Next]_vars => [Mail!Next]_(Mail!vars)
  <2> SUFFICES ASSUME MailInv, [Next]_vars PROVE [Mail!Next]_(Mail!vars)
    OBVIOUS
  <2>1. CASE UNCHANGED vars
    BY <2>1, Invisible DEF vars, history
  <2>2. QED
    BY <2>1, RequestSimulates, WorkerSimulates, EnvironmentSimulates DEF Next
<1>3. QED
  BY <1>1, <1>2, MailInvariant, PTL DEF Spec, ImplementsOutboundMail, Mail!Spec

(* What staff and the service levels read off a ticket did happen.          *)
THEOREM RecordStaysTrue == Spec => []RecordIsTrue
BY SentIsHonest, FirstResponseIsHonest, PTL DEF RecordIsTrue
=============================================================================
