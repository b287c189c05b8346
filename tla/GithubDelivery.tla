---------------------------- MODULE GithubDelivery ----------------------------
(***************************************************************************)
(* Webhook deliveries about one issue, pull request or run of a visible    *)
(* repository, and the projection of that item                             *)
(* (apps.github_integration.webhooks, tasks and services.save_item).       *)
(*                                                                         *)
(* The webhook stores each delivery once and publishes its processing;     *)
(* every 60 seconds Beat publishes the first RecoveryBatch unprocessed     *)
(* deliveries again.  A worker takes a cache key as a lock, fetches the    *)
(* item's present state from GitHub rather than trusting the payload,      *)
(* saves it unless the projection is newer, and marks the delivery.  The   *)
(* key is deleted at the end whoever holds it.                             *)
(*                                                                         *)
(* updated_at is the item's version number; whether Celery retries after a *)
(* GitHubError is left open, for max_retries ends it at some point.        *)
(***************************************************************************)
EXTENDS Integers, Sequences, FiniteSets

CONSTANTS
  Deliveries,      \* webhook deliveries
  Workers,         \* Celery worker processes
  Nobody,          \* the key is free
  Dead,            \* the key was left by a worker that has died
  InitialItem,     \* the version of the projection at the start; 0 is no row
  RecoveryBatch,   \* deliveries that one recovery publishes (100)
  MaxTasks,        \* bound: waiting tasks of one delivery
  MaxOutages,      \* bound: failures of GitHub, and of the broker
  MaxCrashes,      \* bound: worker crashes
  MaxExpiries      \* bound: expiries of the key of a living worker

ASSUME IdentitiesAssumption == Nobody \notin Workers /\ Dead \notin Workers /\ Nobody # Dead

ASSUME BoundsAssumption ==
  /\ InitialItem \in Nat /\ RecoveryBatch \in Nat \ {0} /\ MaxTasks \in Nat \ {0}
  /\ MaxOutages \in Nat /\ MaxCrashes \in Nat /\ MaxExpiries \in Nat

VARIABLES
  remote,       \* the item's version at GitHub
  version,      \* the version each delivery is about; 0 when it has not been sent
  received,     \* stored deliveries, in the order of received_at
  processed,    \* deliveries with processed_at
  item,         \* the version of the projection; 0 is no row
  tasks,        \* waiting process_delivery tasks of each delivery
  key,          \* who has set the cache key of each delivery
  pc,           \* where each worker is
  job,          \* the delivery each worker runs
  fetched,      \* the version each worker has fetched
  outages, crashes, expiries,
  overwritten   \* "yes" once a row has been created over a newer one

store == <<received, processed, item>>
worker == <<key, pc, job, fetched>>
faults == <<outages, crashes, expiries, overwritten>>
vars == <<remote, version, store, tasks, worker, faults>>

Steps == {"idle", "started", "fetch", "save", "create", "mark", "release"}
Stored == {received[n] : n \in 1..Len(received)}

TypeOK ==
  /\ remote \in Nat
  /\ version \in [Deliveries -> Nat]
  /\ received \in Seq(Deliveries)
  /\ processed \subseteq Deliveries
  /\ item \in Nat
  /\ tasks \in [Deliveries -> 0..MaxTasks]
  /\ key \in [Deliveries -> Workers \cup {Nobody, Dead}]
  /\ pc \in [Workers -> Steps]
  /\ job \in [Workers -> Deliveries]
  /\ fetched \in [Workers -> Nat]
  /\ outages \in Nat /\ crashes \in Nat /\ expiries \in Nat
  /\ overwritten \in {"no", "yes"}

Init ==
  /\ remote = InitialItem
  /\ version = [d \in Deliveries |-> 0]
  /\ received = <<>> /\ processed = {}
  /\ item = InitialItem
  /\ tasks = [d \in Deliveries |-> 0]
  /\ key = [d \in Deliveries |-> Nobody]
  /\ pc = [w \in Workers |-> "idle"]
  /\ job \in [Workers -> Deliveries]
  /\ fetched = [w \in Workers |-> 0]
  /\ outages = 0 /\ crashes = 0 /\ expiries = 0 /\ overwritten = "no"

-----------------------------------------------------------------------------
(* GitHub and the webhook. *)

(* The item changes and GitHub sends a delivery about it.                  *)
Happens(d) ==
  /\ version[d] = 0
  /\ remote' = remote + 1
  /\ version' = [version EXCEPT ![d] = remote + 1]
  /\ UNCHANGED <<store, tasks, worker, faults>>

Published(d) == tasks' = [tasks EXCEPT ![d] = @ + 1]

(* enqueue: a broker that is down leaves the delivery pending.             *)
Enqueue(d) ==
  \/ tasks[d] < MaxTasks /\ Published(d) /\ UNCHANGED faults
  \/ /\ outages < MaxOutages
     /\ outages' = outages + 1
     /\ UNCHANGED <<tasks, crashes, expiries, overwritten>>

(* Mutant of Webhook: a redelivery is stored again.                         *)
StoredAgain(d) ==
  /\ version[d] # 0 /\ Len(received) < 2 * Cardinality(Deliveries)
  /\ received' = Append(received, d)
  /\ Enqueue(d)
  /\ UNCHANGED <<remote, version, processed, item, worker>>

(* get_or_create by the delivery id.  Deliveries arrive in any order; the  *)
(* copies that an operator sends again change nothing.                     *)
Webhook(d) ==
  /\ version[d] # 0 /\ d \notin Stored
  /\ received' = Append(received, d)
  /\ Enqueue(d)
  /\ UNCHANGED <<remote, version, processed, item, worker>>

(* The first unprocessed deliveries, by received_at.                       *)
FirstUnprocessed ==
  {d \in Stored \ processed :
     \E n \in 1..Len(received) :
       /\ received[n] = d
       /\ Cardinality({k \in 1..n : received[k] \notin processed}) <= RecoveryBatch}

(* Mutant of Recover: the oldest delivery is left out.                      *)
OldestNotRecovered ==
  /\ \E d \in FirstUnprocessed : tasks[d] < MaxTasks
  /\ tasks' = [d \in Deliveries |->
       IF d \in FirstUnprocessed /\ d # received[1] /\ tasks[d] < MaxTasks
         THEN tasks[d] + 1 ELSE tasks[d]]
  /\ UNCHANGED <<remote, version, store, worker, faults>>

(* recover_deliveries; at the bound another copy is no different.          *)
Recover ==
  /\ \E d \in FirstUnprocessed : tasks[d] < MaxTasks
  /\ tasks' = [d \in Deliveries |->
       IF d \in FirstUnprocessed /\ tasks[d] < MaxTasks THEN tasks[d] + 1 ELSE tasks[d]]
  /\ UNCHANGED <<remote, version, store, worker, faults>>

-----------------------------------------------------------------------------
(* process_delivery *)

Goto(w, step) == pc' = [pc EXCEPT ![w] = step]

(* cache.add: a task that finds the key does nothing and is gone.          *)
StartTask(w, d) ==
  /\ pc[w] = "idle" /\ tasks[d] > 0
  /\ tasks' = [tasks EXCEPT ![d] = @ - 1]
  /\ job' = [job EXCEPT ![w] = d]
  /\ IF key[d] = Nobody
       THEN key' = [key EXCEPT ![d] = w] /\ Goto(w, "started")
       ELSE UNCHANGED <<key, pc>>
  /\ UNCHANGED <<remote, version, store, fetched, faults>>

Look(w) ==
  /\ pc[w] = "started"
  /\ Goto(w, IF job[w] \in processed THEN "release" ELSE "fetch")
  /\ UNCHANGED <<remote, version, store, tasks, key, job, fetched, faults>>

Fetch(w) ==
  /\ pc[w] = "fetch"
  /\ fetched' = [fetched EXCEPT ![w] = remote]
  /\ Goto(w, "save")
  /\ UNCHANGED <<remote, version, store, tasks, key, job, faults>>

(* Mutant of FetchFails: the error is swallowed and nothing is fetched.      *)
ErrorSwallowed(w) ==
  /\ pc[w] = "fetch"
  /\ outages < MaxOutages /\ outages' = outages + 1
  /\ fetched' = [fetched EXCEPT ![w] = -1]
  /\ Goto(w, "save")
  /\ UNCHANGED <<remote, version, store, tasks, key, job, crashes, expiries, overwritten>>

(* GitHubError: the key goes, and Celery may retry the task.               *)
FetchFails(w) ==
  /\ pc[w] = "fetch"
  /\ outages < MaxOutages
  /\ outages' = outages + 1
  /\ \/ UNCHANGED tasks
     \/ tasks[job[w]] < MaxTasks /\ Published(job[w])
  /\ key' = [key EXCEPT ![job[w]] = Nobody]
  /\ Goto(w, "idle")
  /\ UNCHANGED <<remote, version, store, job, fetched, crashes, expiries, overwritten>>

(* Mutant of SaveItem: what was fetched always wins.                        *)
LastWriterWins(w) ==
  /\ pc[w] = "save"
  /\ item' = fetched[w] /\ Goto(w, "mark")
  /\ UNCHANGED <<remote, version, received, processed, tasks, key, job, fetched, faults>>

(* save_item locks the row and compares; if there is no row there is       *)
(* nothing to lock, and the row is created later.                          *)
SaveItem(w) ==
  /\ pc[w] = "save"
  /\ IF item = 0
       THEN Goto(w, "create") /\ UNCHANGED item
       ELSE Goto(w, "mark") /\ item' = IF item > fetched[w] THEN item ELSE fetched[w]
  /\ UNCHANGED <<remote, version, received, processed, tasks, key, job, fetched, faults>>

(* update_or_create updates a row that another worker has created since.   *)
CreateItem(w) ==
  /\ pc[w] = "create"
  /\ item' = fetched[w]
  /\ overwritten' = IF item > fetched[w] THEN "yes" ELSE overwritten
  /\ Goto(w, "mark")
  /\ UNCHANGED <<remote, version, received, processed, tasks, key, job, fetched, outages,
                 crashes, expiries>>

Mark(w) ==
  /\ pc[w] = "mark"
  /\ processed' = processed \cup {job[w]}
  /\ Goto(w, "release")
  /\ UNCHANGED <<remote, version, received, item, tasks, key, job, fetched, faults>>

(* cache.delete(lock), whoever has set the key.                            *)
Release(w) ==
  /\ pc[w] = "release"
  /\ key' = [key EXCEPT ![job[w]] = Nobody]
  /\ Goto(w, "idle")
  /\ UNCHANGED <<remote, version, store, tasks, job, fetched, faults>>

(* What a worker goes on with once it has begun. *)
GoesOn(w) ==
  \/ Look(w) \/ Fetch(w) \/ FetchFails(w) \/ SaveItem(w) \/ CreateItem(w)
  \/ Mark(w) \/ Release(w)

WorkerStep(w) == GoesOn(w) \/ \E d \in Deliveries : StartTask(w, d)

Crash(w) ==
  /\ pc[w] # "idle"
  /\ crashes < MaxCrashes
  /\ crashes' = crashes + 1
  /\ key' = [key EXCEPT ![job[w]] = IF @ = w THEN Dead ELSE @]
  /\ Goto(w, "idle")
  /\ UNCHANGED <<remote, version, store, tasks, job, fetched, outages, expiries,
                 overwritten>>

DeadKeyExpires(d) ==
  /\ key[d] = Dead
  /\ key' = [key EXCEPT ![d] = Nobody]
  /\ UNCHANGED <<remote, version, store, tasks, pc, job, fetched, faults>>

(* A worker is slower than the 600 seconds of the key.                     *)
LiveKeyExpires(d) ==
  /\ key[d] \in Workers
  /\ expiries < MaxExpiries
  /\ expiries' = expiries + 1
  /\ key' = [key EXCEPT ![d] = Nobody]
  /\ UNCHANGED <<remote, version, store, tasks, pc, job, fetched, outages, crashes,
                 overwritten>>

Next ==
  \/ \E d \in Deliveries : Happens(d) \/ Webhook(d) \/ DeadKeyExpires(d) \/ LiveKeyExpires(d)
  \/ Recover
  \/ \E w \in Workers : WorkerStep(w) \/ Crash(w)

Spec == Init /\ [][Next]_vars

(* Beat recovers again and again, a free worker takes every waiting task   *)
(* in turn, workers go on with what they began and keys expire.            *)
Fairness ==
  /\ WF_vars(Recover)
  /\ \A d \in Deliveries : WF_vars(DeadKeyExpires(d))
  /\ \A d \in Deliveries : SF_vars(\E w \in Workers : StartTask(w, d))
  /\ \A w \in Workers : WF_vars(GoesOn(w))

FairSpec == Spec /\ Fairness

-----------------------------------------------------------------------------
(* Properties. *)

(* A processed delivery is in the projection: it shows the state the       *)
(* delivery was about or a later one, in whatever order the deliveries     *)
(* arrived, however often each was processed and whatever keys expired.    *)
(* The one way out is a row that two workers create at once.               *)
ProcessedIsMirrored ==
  overwritten = "no" => \A d \in processed : item >= version[d]

(* A stale snapshot of GitHub does not overwrite newer state, as           *)
(* test_stale_remote_snapshot_does_not_overwrite_newer_state has it.       *)
StaleNeverOverwrites == [][item' >= item]_vars

(* Deliveries are stored once, whatever GitHub or an operator sends again. *)
StoredOnce == \A m, n \in 1..Len(received) : received[m] = received[n] => m = n

(* A stored delivery is processed in the end, across outages of GitHub and *)
(* of the broker, dead workers and keys left behind.                       *)
DeliveriesProcessed ==
  \A d \in Deliveries : d \in Stored ~> d \in processed
=============================================================================
