------------------------- MODULE GithubDelivery_proofs -------------------------
(***************************************************************************)
(* Proofs about GithubDelivery for any deliveries, workers and bounds.     *)
(* That no snapshot at all goes back is proved for a projection that has a *)
(* row (InitialItem > 0): without one save_item has nothing to lock.       *)
(***************************************************************************)
EXTENDS GithubDelivery, TLAPS

-----------------------------------------------------------------------------
(* A task more, or a task less.                                             *)
LEMMA TasksUpdate ==
  ASSUME TypeOK, NEW d \in Deliveries
  PROVE  /\ tasks[d] < MaxTasks =>
              [tasks EXCEPT ![d] = @ + 1] \in [Deliveries -> 0..MaxTasks]
         /\ tasks[d] > 0 => [tasks EXCEPT ![d] = @ - 1] \in [Deliveries -> 0..MaxTasks]
<1>1. MaxTasks \in Nat /\ tasks[d] \in 0..MaxTasks
  BY BoundsAssumption DEF TypeOK
<1>2. tasks[d] < MaxTasks => tasks[d] + 1 \in 0..MaxTasks
  BY <1>1
<1>3. tasks[d] > 0 => tasks[d] - 1 \in 0..MaxTasks
  BY <1>1
<1>4. QED
  BY <1>2, <1>3 DEF TypeOK

LEMMA EnqueueKeepsTypes ==
  ASSUME TypeOK, NEW d \in Deliveries, Enqueue(d)
  PROVE  /\ tasks' \in [Deliveries -> 0..MaxTasks]
         /\ outages' \in Nat /\ crashes' \in Nat /\ expiries' \in Nat
         /\ overwritten' \in {"no", "yes"}
<1>1. CASE tasks[d] < MaxTasks /\ Published(d) /\ UNCHANGED faults
  <2>1. tasks' \in [Deliveries -> 0..MaxTasks]
    BY <1>1, TasksUpdate DEF Published
  <2>2. QED
    BY <1>1, <2>1 DEF TypeOK, faults
<1>2. CASE UNCHANGED tasks /\ outages' = outages + 1 /\ UNCHANGED <<crashes, expiries, overwritten>>
  BY <1>2 DEF TypeOK
<1>3. QED
  BY <1>1, <1>2 DEF Enqueue

LEMMA RecoverKeepsTypes ==
  ASSUME TypeOK, Recover
  PROVE  tasks' \in [Deliveries -> 0..MaxTasks]
<1>1. \A d \in Deliveries :
        (IF d \in FirstUnprocessed /\ tasks[d] < MaxTasks THEN tasks[d] + 1 ELSE tasks[d])
          \in 0..MaxTasks
  BY BoundsAssumption DEF TypeOK
<1>2. QED
  BY <1>1 DEF Recover

(* The variables keep their types.                                          *)
THEOREM TypeCorrect == Spec => []TypeOK
<1> USE IdentitiesAssumption, BoundsAssumption
<1>1. Init => TypeOK
  BY DEF Init, TypeOK, Steps
<1>2. TypeOK /\ [Next]_vars => TypeOK'
  <2> SUFFICES ASSUME TypeOK, [Next]_vars PROVE TypeOK'
    OBVIOUS
  <2>1. ASSUME NEW d \in Deliveries, Happens(d) PROVE TypeOK'
    BY <2>1 DEF Happens, TypeOK, store, worker, faults
  <2>2. ASSUME NEW d \in Deliveries, Webhook(d) PROVE TypeOK'
    BY <2>2, EnqueueKeepsTypes DEF Webhook, TypeOK, worker
  <2>3. CASE Recover
    BY <2>3, RecoverKeepsTypes DEF Recover, TypeOK, store, worker, faults
  <2>4. ASSUME NEW w \in Workers, WorkerStep(w) PROVE TypeOK'
    <3> USE DEF Goto, Steps, store, faults
    <3>1. ASSUME NEW d \in Deliveries, StartTask(w, d) PROVE TypeOK'
      <4>1. tasks' \in [Deliveries -> 0..MaxTasks]
        BY <3>1, TasksUpdate DEF StartTask
      <4>2. key' \in [Deliveries -> Workers \cup {Nobody, Dead}] /\ pc' \in [Workers -> Steps]
        BY <3>1 DEF StartTask, TypeOK
      <4>3. QED
        BY <3>1, <4>1, <4>2 DEF StartTask, TypeOK
    <3>2. CASE Look(w)
      BY <3>2 DEF Look, TypeOK
    <3>3. CASE Fetch(w)
      BY <3>3 DEF Fetch, TypeOK
    <3>4. CASE FetchFails(w)
      <4>1. job[w] \in Deliveries
        BY DEF TypeOK
      <4>2. tasks' \in [Deliveries -> 0..MaxTasks]
        <5>1. CASE UNCHANGED tasks
          BY <5>1 DEF TypeOK
        <5>2. CASE tasks[job[w]] < MaxTasks /\ Published(job[w])
          BY <5>2, <4>1, TasksUpdate DEF Published
        <5>3. QED
          BY <3>4, <5>1, <5>2 DEF FetchFails
      <4>3. outages' \in Nat
        BY <3>4 DEF FetchFails, TypeOK
      <4>4. QED
        BY <3>4, <4>1, <4>2, <4>3 DEF FetchFails, TypeOK
    <3>5. CASE SaveItem(w)
      <4>1. item' \in Nat
        BY <3>5 DEF SaveItem, TypeOK
      <4>2. pc' \in [Workers -> Steps]
        BY <3>5 DEF SaveItem, TypeOK
      <4>3. QED
        BY <3>5, <4>1, <4>2 DEF SaveItem, TypeOK
    <3>6. CASE CreateItem(w)
      BY <3>6 DEF CreateItem, TypeOK
    <3>7. CASE Mark(w)
      BY <3>7 DEF Mark, TypeOK
    <3>8. CASE Release(w)
      BY <3>8 DEF Release, TypeOK
    <3>9. QED
      BY <2>4, <3>1, <3>2, <3>3, <3>4, <3>5, <3>6, <3>7, <3>8 DEF WorkerStep, GoesOn
  <2>5. ASSUME NEW w \in Workers, Crash(w) PROVE TypeOK'
    <3>1. key' \in [Deliveries -> Workers \cup {Nobody, Dead}]
      BY <2>5 DEF Crash, TypeOK
    <3>2. QED
      BY <2>5, <3>1 DEF Crash, TypeOK, Goto, Steps, store
  <2>6. ASSUME NEW d \in Deliveries, DeadKeyExpires(d) PROVE TypeOK'
    BY <2>6 DEF DeadKeyExpires, TypeOK, store, faults
  <2>7. ASSUME NEW d \in Deliveries, LiveKeyExpires(d) PROVE TypeOK'
    BY <2>7 DEF LiveKeyExpires, TypeOK, store
  <2>8. CASE UNCHANGED vars
    BY <2>8 DEF vars, TypeOK, store, worker, faults
  <2>9. QED
    BY <2>1, <2>2, <2>3, <2>4, <2>5, <2>6, <2>7, <2>8 DEF Next
<1>3. QED
  BY <1>1, <1>2, PTL DEF Spec

-----------------------------------------------------------------------------
(* What has been stored.                                                    *)
LEMMA StoredGrows ==
  ASSUME TypeOK, NEW d \in Deliveries, received' = Append(received, d)
  PROVE  Stored' = Stored \cup {d}
<1>1. received \in Seq(Deliveries) /\ Len(received) \in Nat
  BY DEF TypeOK
<1>2. Len(received') = Len(received) + 1 /\ received'[Len(received) + 1] = d
      /\ \A n \in 1..Len(received) : received'[n] = received[n]
  BY <1>1
<1>3. ASSUME NEW n \in 1..Len(received') PROVE received'[n] \in Stored \cup {d}
  <2>1. n \in 1..Len(received) \/ n = Len(received) + 1
    BY <1>1, <1>2
  <2>2. QED
    BY <1>2, <2>1 DEF Stored
<1>4. ASSUME NEW n \in 1..Len(received) PROVE received[n] \in Stored'
  <2>1. n \in 1..Len(received') /\ received[n] = received'[n]
    BY <1>1, <1>2
  <2>2. QED
    BY <2>1 DEF Stored
<1>5. d \in Stored'
  <2>1. Len(received) + 1 \in 1..Len(received')
    BY <1>1, <1>2
  <2>2. QED
    BY <1>2, <2>1 DEF Stored
<1>6. QED
  BY <1>3, <1>4, <1>5 DEF Stored

(* The webhook stores a delivery once, whoever sends it again.              *)
THEOREM DeliveriesStoredOnce == Spec => []StoredOnce
<1>1. Init => StoredOnce
  BY DEF Init, StoredOnce
<1>2. TypeOK /\ StoredOnce /\ [Next]_vars => StoredOnce'
  <2> SUFFICES ASSUME TypeOK, StoredOnce, [Next]_vars PROVE StoredOnce'
    OBVIOUS
  <2>0. received \in Seq(Deliveries) /\ Len(received) \in Nat
    BY DEF TypeOK
  <2>1. ASSUME NEW d \in Deliveries, Webhook(d) PROVE StoredOnce'
    <3>1. d \notin Stored /\ received' = Append(received, d)
      BY <2>1 DEF Webhook
    <3>2. \A n \in 1..Len(received) : received[n] # d
      BY <3>1 DEF Stored
    <3>3. QED
      BY <2>0, <3>1, <3>2 DEF StoredOnce
  <2>2. ASSUME NEW w \in Workers, WorkerStep(w) \/ Crash(w) PROVE received' = received
    BY <2>2 DEF WorkerStep, GoesOn, StartTask, Look, Fetch, FetchFails, SaveItem, CreateItem, Mark,
       Release, Crash, store
  <2>3. ASSUME received' = received PROVE StoredOnce'
    BY <2>3 DEF StoredOnce
  <2>4. QED
    BY <2>1, <2>2, <2>3 DEF Next, Happens, DeadKeyExpires, LiveKeyExpires, Recover, vars,
       store
<1>3. QED
  BY <1>1, <1>2, TypeCorrect, PTL DEF Spec

-----------------------------------------------------------------------------
(* GitHub's item is at least as new as every delivery about it; whatever    *)
(* waits, runs or has run is a delivery that was sent.                      *)
Sent ==
  /\ \A d \in Deliveries : version[d] <= remote
  /\ \A d \in Deliveries : d \in Stored \/ d \in processed \/ tasks[d] > 0 => version[d] # 0
  /\ \A w \in Workers : pc[w] # "idle" => version[job[w]] # 0

LEMMA SentStep ==
  ASSUME TypeOK, Sent, [Next]_vars
  PROVE  Sent'
<1> USE DEF Sent
<1>1. ASSUME NEW d \in Deliveries, Happens(d) PROVE Sent'
  <2>1. /\ version' = [version EXCEPT ![d] = remote + 1] /\ remote' = remote + 1
        /\ Stored' = Stored
        /\ UNCHANGED <<processed, tasks, pc, job>>
    BY <1>1 DEF Happens, Stored, store, worker
  <2>2. QED
    BY <2>1 DEF TypeOK
<1>2. ASSUME NEW d \in Deliveries, Webhook(d) PROVE Sent'
  <2>1. /\ Stored' = Stored \cup {d} /\ version[d] # 0
        /\ UNCHANGED <<remote, version, processed, pc, job>>
    BY <1>2, StoredGrows DEF Webhook, worker
  <2>2. \A e \in Deliveries : tasks'[e] > 0 => tasks[e] > 0 \/ e = d
    BY <1>2 DEF Webhook, Enqueue, Published, TypeOK
  <2>3. QED
    BY <2>1, <2>2
<1>3. CASE Recover
  <2>1. \A e \in Deliveries : tasks'[e] > 0 => tasks[e] > 0 \/ e \in Stored
    BY <1>3 DEF Recover, FirstUnprocessed
  <2>2. Stored' = Stored /\ UNCHANGED <<remote, version, processed, pc, job>>
    BY <1>3 DEF Recover, Stored, store, worker
  <2>3. QED
    BY <2>1, <2>2
<1>4. ASSUME NEW w \in Workers, WorkerStep(w) PROVE Sent'
  <2> USE DEF TypeOK, Goto, store
  <2>1. ASSUME NEW d \in Deliveries, StartTask(w, d) PROVE Sent'
    <3>1. Stored' = Stored /\ UNCHANGED <<remote, version, processed>>
      BY <2>1 DEF StartTask, Stored
    <3>2. \A e \in Deliveries : tasks'[e] > 0 => tasks[e] > 0
      BY <2>1, BoundsAssumption DEF StartTask
    <3>3. \A v \in Workers : pc'[v] # "idle" => version[job'[v]] # 0
      BY <2>1 DEF StartTask
    <3>4. QED
      BY <3>1, <3>2, <3>3
  <2>2. CASE Look(w) \/ Fetch(w) \/ SaveItem(w) \/ CreateItem(w) \/ Release(w)
    <3>1. Stored' = Stored /\ UNCHANGED <<remote, version, processed, tasks, job>>
      BY <2>2 DEF Look, Fetch, SaveItem, CreateItem, Release, Stored
    <3>2. \A v \in Workers : pc'[v] # "idle" => pc[v] # "idle"
      BY <2>2 DEF Look, Fetch, SaveItem, CreateItem, Release
    <3>3. QED
      BY <3>1, <3>2
  <2>3. CASE FetchFails(w)
    <3>1. Stored' = Stored /\ UNCHANGED <<remote, version, processed, job>>
      BY <2>3 DEF FetchFails, Stored
    <3>2. \A e \in Deliveries : tasks'[e] > 0 => tasks[e] > 0 \/ e = job[w]
      BY <2>3 DEF FetchFails, Published
    <3>3. pc[w] # "idle" /\ \A v \in Workers : pc'[v] # "idle" => pc[v] # "idle"
      BY <2>3 DEF FetchFails
    <3>4. QED
      BY <3>1, <3>2, <3>3
  <2>4. CASE Mark(w)
    <3>1. Stored' = Stored /\ UNCHANGED <<remote, version, tasks, job>>
      BY <2>4 DEF Mark, Stored
    <3>2. processed' = processed \cup {job[w]} /\ pc[w] # "idle"
      BY <2>4 DEF Mark
    <3>3. \A v \in Workers : pc'[v] # "idle" => pc[v] # "idle"
      BY <2>4 DEF Mark
    <3>4. QED
      BY <3>1, <3>2, <3>3
  <2>5. QED
    BY <1>4, <2>1, <2>2, <2>3, <2>4 DEF WorkerStep, GoesOn
<1>5. ASSUME NEW w \in Workers, Crash(w) PROVE Sent'
  <2>1. Stored' = Stored /\ UNCHANGED <<remote, version, processed, tasks, job>>
    BY <1>5 DEF Crash, Stored, store
  <2>2. \A v \in Workers : pc'[v] # "idle" => pc[v] # "idle"
    BY <1>5 DEF Crash, Goto, TypeOK
  <2>3. QED
    BY <2>1, <2>2
<1>6. ASSUME NEW d \in Deliveries, DeadKeyExpires(d) \/ LiveKeyExpires(d) PROVE Sent'
  BY <1>6 DEF DeadKeyExpires, LiveKeyExpires, Stored, store
<1>7. CASE UNCHANGED vars
  BY <1>7 DEF vars, Stored, store, worker
<1>8. QED
  BY <1>1, <1>2, <1>3, <1>4, <1>5, <1>6, <1>7 DEF Next

-----------------------------------------------------------------------------
(* What a worker knows about the projection, until a row is overwritten by  *)
(* a late creation.                                                         *)
FetchedIsFresh ==
  \A w \in Workers :
    /\ pc[w] \in {"save", "create"} => version[job[w]] <= fetched[w]
    /\ pc[w] = "mark" => version[job[w]] <= item

Mirrored == \A d \in processed : item >= version[d]

MirrorInv ==
  /\ TypeOK
  /\ Sent
  /\ overwritten = "no" => FetchedIsFresh /\ Mirrored

(* save_item takes the newer of the row and the snapshot, and a row that is *)
(* created over a newer one does not go unnoticed.                          *)
LEMMA ItemGrows ==
  ASSUME TypeOK, TypeOK', [Next]_vars, overwritten' = "no"
  PROVE  item' >= item /\ overwritten = "no"
<1>0. item \in Nat /\ fetched \in [Workers -> Nat]
  BY DEF TypeOK
<1>1. ASSUME NEW w \in Workers, SaveItem(w) PROVE item' >= item /\ overwritten = "no"
  BY <1>0, <1>1 DEF SaveItem, faults
<1>2. ASSUME NEW w \in Workers, CreateItem(w) PROVE item' >= item /\ overwritten = "no"
  <2>1. /\ item' = fetched[w]
        /\ overwritten' = IF item > fetched[w] THEN "yes" ELSE overwritten
    BY <1>2 DEF CreateItem
  <2>2. ~(item > fetched[w]) /\ overwritten = "no"
    BY <2>1
  <2>3. QED
    BY <1>0, <2>1, <2>2
<1>3. ASSUME NEW w \in Workers, WorkerStep(w), ~SaveItem(w), ~CreateItem(w)
      PROVE  item' = item /\ overwritten' = overwritten
  BY <1>3 DEF WorkerStep, GoesOn, StartTask, Look, Fetch, FetchFails, Mark, Release, store, faults
<1>4. ASSUME NEW w \in Workers, Crash(w) PROVE item' = item /\ overwritten' = overwritten
  BY <1>4 DEF Crash, store
<1>5. ASSUME NEW d \in Deliveries, Happens(d) \/ Webhook(d) \/ DeadKeyExpires(d)
                                   \/ LiveKeyExpires(d)
      PROVE  item' = item /\ overwritten' = overwritten
  BY <1>5 DEF Happens, Webhook, Enqueue, DeadKeyExpires, LiveKeyExpires, store, faults
<1>6. CASE Recover \/ UNCHANGED vars
  BY <1>0, <1>6 DEF Recover, vars, store, faults
<1>7. QED
  BY <1>0, <1>1, <1>2, <1>3, <1>4, <1>5, <1>6 DEF Next

LEMMA MirrorStep ==
  ASSUME MirrorInv, TypeOK', [Next]_vars, overwritten' = "no"
  PROVE  FetchedIsFresh' /\ Mirrored'
<1> DEFINE Goal == FetchedIsFresh' /\ Mirrored'
<1>f. FetchedIsFresh /\ Mirrored /\ item' >= item
  BY ItemGrows DEF MirrorInv
<1>t. /\ item \in Nat /\ item' \in Nat
      /\ version \in [Deliveries -> Nat] /\ processed \subseteq Deliveries
      /\ job \in [Workers -> Deliveries] /\ fetched \in [Workers -> Nat]
      /\ pc \in [Workers -> Steps] /\ remote \in Nat
  BY DEF MirrorInv, TypeOK
<1> USE <1>f, <1>t DEF FetchedIsFresh, Mirrored
<1>1. ASSUME NEW d \in Deliveries, Happens(d) PROVE Goal
  <2>1. /\ version[d] = 0 /\ version' = [version EXCEPT ![d] = remote + 1]
        /\ UNCHANGED <<item, processed, pc, job, fetched>>
    BY <1>1 DEF Happens, store, worker
  <2>2. d \notin processed /\ \A w \in Workers : pc[w] # "idle" => job[w] # d
    BY <2>1 DEF MirrorInv, Sent
  <2>3. QED
    BY <2>1, <2>2
<1>2. ASSUME UNCHANGED <<version, processed, job, fetched>>,
             \A w \in Workers : pc'[w] \in {"save", "mark", "create"} => pc'[w] = pc[w]
      PROVE  Goal
  BY <1>2
<1>3. ASSUME NEW d \in Deliveries, Webhook(d) \/ DeadKeyExpires(d) \/ LiveKeyExpires(d)
      PROVE  Goal
  BY <1>3, <1>2 DEF Webhook, DeadKeyExpires, LiveKeyExpires, store, worker
<1>4. CASE Recover \/ UNCHANGED vars
  BY <1>4, <1>2 DEF Recover, vars, store, worker
<1>5. ASSUME NEW w \in Workers, WorkerStep(w) PROVE Goal
  <2>1. ASSUME NEW d \in Deliveries, StartTask(w, d) PROVE Goal
    BY <2>1 DEF StartTask, Goto, store
  <2>2. CASE Look(w)
    BY <2>2, <1>2 DEF Look, Goto, store
  <2>3. CASE Fetch(w)
    <3>1. /\ fetched' = [fetched EXCEPT ![w] = remote] /\ pc' = [pc EXCEPT ![w] = "save"]
          /\ UNCHANGED <<item, version, processed, job>>
      BY <2>3 DEF Fetch, Goto, store
    <3>2. version[job[w]] <= remote
      BY DEF MirrorInv, Sent
    <3>3. QED
      BY <3>1, <3>2
  <2>4. CASE FetchFails(w)
    BY <2>4, <1>2 DEF FetchFails, Goto, store
  <2>5. CASE SaveItem(w)
    <3>1. /\ pc[w] = "save" /\ UNCHANGED <<version, processed, job, fetched>>
          /\ \/ pc' = [pc EXCEPT ![w] = "create"]
             \/ pc' = [pc EXCEPT ![w] = "mark"] /\ item' >= fetched[w]
      BY <2>5 DEF SaveItem, Goto
    <3>2. QED
      BY <3>1
  <2>6. CASE CreateItem(w)
    <3>1. /\ pc[w] = "create" /\ pc' = [pc EXCEPT ![w] = "mark"] /\ item' = fetched[w]
          /\ UNCHANGED <<version, processed, job, fetched>>
      BY <2>6 DEF CreateItem, Goto
    <3>2. QED
      BY <3>1
  <2>7. CASE Mark(w)
    <3>1. /\ pc[w] = "mark" /\ pc' = [pc EXCEPT ![w] = "release"]
          /\ processed' = processed \cup {job[w]}
          /\ UNCHANGED <<item, version, job, fetched>>
      BY <2>7 DEF Mark, Goto
    <3>2. QED
      BY <3>1
  <2>8. CASE Release(w)
    BY <2>8, <1>2 DEF Release, Goto, store
  <2>9. QED
    BY <1>5, <2>1, <2>2, <2>3, <2>4, <2>5, <2>6, <2>7, <2>8 DEF WorkerStep, GoesOn
<1>6. ASSUME NEW w \in Workers, Crash(w) PROVE Goal
  BY <1>6, <1>2 DEF Crash, Goto, store
<1>7. QED
  BY <1>1, <1>3, <1>4, <1>5, <1>6 DEF Next

LEMMA MirrorInvariant == Spec => []MirrorInv
<1>1. TypeOK /\ Init => MirrorInv
  BY BoundsAssumption DEF Init, MirrorInv, Sent, Stored, FetchedIsFresh, Mirrored
<1>2. TypeOK' /\ MirrorInv /\ [Next]_vars => MirrorInv'
  <2> SUFFICES ASSUME TypeOK', MirrorInv, [Next]_vars PROVE MirrorInv'
    OBVIOUS
  <2>1. Sent'
    BY SentStep DEF MirrorInv
  <2>2. overwritten' = "no" => FetchedIsFresh' /\ Mirrored'
    BY MirrorStep
  <2>3. QED
    BY <2>1, <2>2 DEF MirrorInv
<1>3. QED
  BY <1>1, <1>2, TypeCorrect, PTL DEF Spec

(* A processed delivery is mirrored: the projection never shows a state     *)
(* older than one that process_delivery has finished with, in whatever      *)
(* order deliveries, duplicates and expired keys let workers run, unless    *)
(* two workers have created the row at once.                                *)
THEOREM ProcessedStaysMirrored == Spec => []ProcessedIsMirrored
<1>1. MirrorInv => ProcessedIsMirrored
  BY DEF MirrorInv, Mirrored, ProcessedIsMirrored
<1>2. QED
  BY <1>1, MirrorInvariant, PTL

-----------------------------------------------------------------------------
(* A projection that has its row.                                           *)
RowExists ==
  /\ item > 0 /\ overwritten = "no"
  /\ \A w \in Workers : pc[w] # "create"

LEMMA RowStays ==
  ASSUME TypeOK, TypeOK', RowExists, [Next]_vars
  PROVE  RowExists'
<1> USE DEF TypeOK, RowExists
<1>1. overwritten' = "no"
  <2>1. ASSUME NEW w \in Workers, WorkerStep(w) PROVE overwritten' = "no"
    <3>1. ~CreateItem(w)
      BY DEF CreateItem
    <3>2. QED
      BY <2>1, <3>1 DEF WorkerStep, GoesOn, StartTask, Look, Fetch, FetchFails, SaveItem, Mark,
         Release, faults
  <2>2. ASSUME NEW w \in Workers, Crash(w) PROVE overwritten' = "no"
    BY <2>2 DEF Crash
  <2>3. ASSUME NEW d \in Deliveries, Happens(d) \/ Webhook(d) \/ DeadKeyExpires(d)
                                     \/ LiveKeyExpires(d)
        PROVE  overwritten' = "no"
    BY <2>3 DEF Happens, Webhook, Enqueue, DeadKeyExpires, LiveKeyExpires, faults
  <2>4. CASE Recover \/ UNCHANGED vars
    BY <2>4 DEF Recover, vars, faults
  <2>5. QED
    BY <2>1, <2>2, <2>3, <2>4 DEF Next
<1>2. item' >= item
  BY <1>1, ItemGrows
<1>3. \A w \in Workers : pc'[w] # "create"
  <2>1. ASSUME NEW w \in Workers, WorkerStep(w) \/ Crash(w)
        PROVE  \E step \in Steps \ {"create"} :
                 pc' = pc \/ pc' = [pc EXCEPT ![w] = step]
    <3>1. CASE SaveItem(w)
      BY <3>1 DEF SaveItem, Goto, Steps
    <3>2. ~CreateItem(w)
      BY DEF CreateItem
    <3>3. CASE Look(w) \/ Fetch(w) \/ FetchFails(w) \/ Mark(w) \/ Release(w) \/ Crash(w)
      BY <3>3 DEF Look, Fetch, FetchFails, Mark, Release, Crash, Goto, Steps
    <3>4. ASSUME NEW d \in Deliveries, StartTask(w, d)
          PROVE  pc' = pc \/ pc' = [pc EXCEPT ![w] = "started"]
      BY <3>4 DEF StartTask, Goto
    <3>5. QED
      BY <2>1, <3>1, <3>2, <3>3, <3>4 DEF WorkerStep, GoesOn, Steps
  <2>2. ASSUME NEW w \in Workers, WorkerStep(w) \/ Crash(w), NEW v \in Workers
        PROVE  pc'[v] # "create"
    BY <2>1, <2>2
  <2>3. ASSUME pc' = pc PROVE \A w \in Workers : pc'[w] # "create"
    BY <2>3
  <2>4. QED
    BY <2>2, <2>3 DEF Next, Happens, Webhook, DeadKeyExpires, LiveKeyExpires, Recover, vars,
       worker
<1>4. QED
  BY <1>1, <1>2, <1>3

(* save_item never replaces a row by an older snapshot.                     *)
THEOREM StaleNeverWins == ASSUME InitialItem > 0 PROVE Spec => StaleNeverOverwrites
<1>1. Init => RowExists
  BY InitialItem > 0 DEF Init, RowExists
<1>2. TypeOK /\ TypeOK' /\ RowExists /\ [Next]_vars => RowExists'
  BY RowStays
<1>3. TypeOK /\ TypeOK' /\ RowExists' /\ [Next]_vars => [item' >= item]_vars
  BY ItemGrows DEF RowExists
<1>4. QED
  BY <1>1, <1>2, <1>3, TypeCorrect, PTL DEF Spec, StaleNeverOverwrites
=============================================================================
