----------------------------- MODULE MonitorCheck -----------------------------
(***************************************************************************)
(* One scheduled technical-health check (apps.monitoring).                 *)
(*                                                                         *)
(* Beat looks for due checks every 30 seconds and publishes a task for     *)
(* each; several tasks for one check may wait.  A worker takes a Redis     *)
(* lock, reads the check and then its resource again, runs the probe and   *)
(* records the observation in a transaction on the locked row.  Staff      *)
(* pause, resume and edit the check meanwhile; an edit reads the whole row *)
(* and later writes the whole row back, and resume decides on the row it   *)
(* read.                                                                   *)
(*                                                                         *)
(* next_run_at is abstracted to "none", "due" and "later".  The counters   *)
(* are only compared with thresholds, so they stop at MaxThreshold.        *)
(* streak, overwrites, expiries and crashes are history.                   *)
(***************************************************************************)
EXTENDS Integers

CONSTANTS
  Workers,        \* Celery worker processes
  Editors,        \* staff requests in flight
  Nobody,         \* the lock is free
  Dead,           \* the lock is held by a worker that has died
  MaxThreshold,   \* bound: largest failure or recovery threshold
  MaxTasks,       \* bound: tasks of the check waiting in the broker
  MaxCrashes,     \* bound: worker crashes and failed transactions
  MaxExpiries     \* bound: expiries of the lock while its holder is alive

ASSUME IdentitiesAssumption == Nobody \notin Workers /\ Dead \notin Workers /\ Nobody # Dead

ASSUME BoundsAssumption ==
  /\ MaxThreshold \in Nat \ {0} /\ MaxTasks \in Nat \ {0}
  /\ MaxCrashes \in Nat /\ MaxExpiries \in Nat

VARIABLES
  check,       \* the MonitorCheck row
  incident,    \* its active MonitorIncident: "none", "open" or "acknowledged"
  resource,    \* whether the resource is "live" or "retired" (or archived)
  tasks,       \* run_monitor_check tasks waiting in the broker
  lock,        \* owner of the Redis lock
  pc,          \* where each worker is
  request,     \* what each staff request is about to write: "none", "edit" or "resume"
  draft,       \* the row an edit request has read (meaningless for the others)
  streak,      \* the latest run of equal results since the check was (re)started
  overwrites,  \* whether an edit has written back a row that had changed: "none", "some"
  expiries,    \* expiries of the lock under a live holder
  crashes      \* worker crashes and failed transactions

staff == <<request, draft>>
worker == <<lock, pc>>
faults == <<expiries, crashes>>
vars == <<check, incident, resource, tasks, worker, staff, streak, overwrites, faults>>

Rows == [enabled : {"yes", "no"},
         status : {"pending", "healthy", "degraded", "failing", "paused"},
         failures : 0..MaxThreshold,
         successes : 0..MaxThreshold,
         failure_threshold : 1..MaxThreshold,
         recovery_threshold : 1..MaxThreshold,
         next_run : {"none", "due", "later"}]

Verdicts == {"success", "failure"}
Steps == {"idle", "checked", "locked", "refreshed", "probing", "release"}
Holding == Steps \ {"idle", "checked"}

TypeOK ==
  /\ check \in Rows
  /\ incident \in {"none", "open", "acknowledged"}
  /\ resource \in {"live", "retired"}
  /\ tasks \in 0..MaxTasks
  /\ lock \in Workers \cup {Nobody, Dead}
  /\ pc \in [Workers -> Steps]
  /\ request \in [Editors -> {"none", "edit", "resume"}]
  /\ draft \in [Editors -> Rows]
  /\ streak \in [of : Verdicts, length : 0..MaxThreshold]
  /\ overwrites \in {"none", "some"}
  /\ expiries \in Nat
  /\ crashes \in Nat

(* create_monitor_check *)
NewRow(ft, rt) ==
  [enabled |-> "yes", status |-> "pending", failures |-> 0, successes |-> 0,
   failure_threshold |-> ft, recovery_threshold |-> rt, next_run |-> "none"]

Init ==
  /\ \E ft, rt \in 1..MaxThreshold : check = NewRow(ft, rt)
  /\ incident = "none"
  /\ resource = "live"
  /\ tasks = 0
  /\ lock = Nobody
  /\ pc = [w \in Workers |-> "idle"]
  /\ request = [e \in Editors |-> "none"]
  /\ draft = [e \in Editors |-> NewRow(1, 1)]
  /\ streak = [of |-> "success", length |-> 0]
  /\ overwrites = "none"
  /\ expiries = 0
  /\ crashes = 0

-----------------------------------------------------------------------------
(* Scheduling. *)

Due == check.enabled = "yes" /\ check.next_run # "later"

(* Mutant of Dispatch: a check that never ran is not due.                   *)
NeverRunIgnored ==
  /\ check.enabled = "yes" /\ check.next_run = "due" /\ resource = "live"
  /\ tasks < MaxTasks
  /\ tasks' = tasks + 1
  /\ UNCHANGED <<check, incident, resource, worker, staff, streak, overwrites, faults>>

(* enqueue_due_checks *)
Dispatch ==
  /\ Due /\ resource = "live"
  /\ tasks < MaxTasks
  /\ tasks' = tasks + 1
  /\ UNCHANGED <<check, incident, resource, worker, staff, streak, overwrites, faults>>

(* next_run_at comes, in the row and in the copies that requests hold.      *)
Aged(row) == [row EXCEPT !.next_run = IF @ = "later" THEN "due" ELSE @]

IntervalPasses ==
  /\ check.next_run = "later"
  /\ check' = Aged(check)
  /\ draft' = [e \in Editors |-> Aged(draft[e])]
  /\ UNCHANGED <<incident, resource, tasks, worker, request, streak, overwrites, faults>>

-----------------------------------------------------------------------------
(* run_monitor_check *)

Goto(w, step) == pc' = [pc EXCEPT ![w] = step]

StartTask(w) ==
  /\ pc[w] = "idle"
  /\ tasks > 0
  /\ tasks' = tasks - 1
  /\ Goto(w, IF check.enabled = "yes" THEN "checked" ELSE "idle")
  /\ UNCHANGED <<check, incident, resource, lock, staff, streak, overwrites, faults>>

AcquireLock(w) ==
  /\ pc[w] = "checked"
  /\ IF lock = Nobody
       THEN lock' = w /\ Goto(w, "locked")
       ELSE UNCHANGED lock /\ Goto(w, "idle")
  /\ UNCHANGED <<check, incident, resource, tasks, staff, streak, overwrites, faults>>

(* Mutant of RefreshCheck: a stale duplicate is not skipped.                *)
DuplicateNotSkipped(w) ==
  /\ pc[w] = "locked"
  /\ Goto(w, IF check.enabled = "yes" THEN "refreshed" ELSE "release")
  /\ UNCHANGED <<check, incident, resource, tasks, lock, staff, streak, overwrites, faults>>

(* check.refresh_from_db(): a check that is disabled or not due is left.    *)
RefreshCheck(w) ==
  /\ pc[w] = "locked"
  /\ Goto(w, IF Due THEN "refreshed" ELSE "release")
  /\ UNCHANGED <<check, incident, resource, tasks, lock, staff, streak, overwrites,
                 faults>>

(* check.resource.refresh_from_db() is a second read.                       *)
RefreshResource(w) ==
  /\ pc[w] = "refreshed"
  /\ Goto(w, IF resource = "live" THEN "probing" ELSE "release")
  /\ UNCHANGED <<check, incident, resource, tasks, lock, staff, streak, overwrites,
                 faults>>

Bump(n) == IF n < MaxThreshold THEN n + 1 ELSE n

(* A result of a check that was paused meanwhile leaves it paused.          *)
RecordWhilePaused ==
  /\ check.enabled = "no"
  /\ check' = [check EXCEPT !.status = "paused", !.next_run = "none"]
  /\ UNCHANGED <<incident, streak>>

(* Mutant of RecordSuccess: failures are counted, but not in a row.         *)
SuccessKeepsFailures ==
  /\ check.enabled = "yes"
  /\ LET successes == Bump(check.successes)
         recovered == incident = "none" \/ successes >= check.recovery_threshold
     IN  /\ incident' = IF recovered THEN "none" ELSE incident
         /\ check' = [check EXCEPT !.successes = successes,
                                   !.status = IF recovered THEN "healthy" ELSE "degraded",
                                   !.next_run = "later"]

RecordSuccess ==
  /\ check.enabled = "yes"
  /\ LET successes == Bump(check.successes)
         recovered == incident = "none" \/ successes >= check.recovery_threshold
     IN  /\ incident' = IF recovered THEN "none" ELSE incident
         /\ check' = [check EXCEPT !.failures = 0, !.successes = successes,
                                   !.status = IF recovered THEN "healthy" ELSE "degraded",
                                   !.next_run = "later"]

(* Mutant of RecordFailure: the incident opens at exactly the threshold.    *)
OpensAtThresholdOnly ==
  /\ check.enabled = "yes"
  /\ LET count == Bump(check.failures)
         failing == count >= check.failure_threshold
     IN  /\ incident' = IF count = check.failure_threshold /\ incident = "none"
                          THEN "open" ELSE incident
         /\ check' = [check EXCEPT !.successes = 0, !.failures = count,
                                   !.status = IF failing THEN "failing" ELSE "degraded",
                                   !.next_run = "later"]

RecordFailure ==
  /\ check.enabled = "yes"
  /\ LET count == Bump(check.failures)
         failing == count >= check.failure_threshold
     IN  /\ incident' = IF failing /\ incident = "none" THEN "open" ELSE incident
         /\ check' = [check EXCEPT !.successes = 0, !.failures = count,
                                   !.status = IF failing THEN "failing" ELSE "degraded",
                                   !.next_run = "later"]

(* The results recorded for a running check, as the longest equal suffix.   *)
Extended(v) == [of |-> v, length |-> IF streak.of = v THEN Bump(streak.length) ELSE 1]

(* execute_check, which turns every error of the probe into a failed        *)
(* observation, and record_observation, one transaction on the locked row.  *)
Record(w) ==
  /\ pc[w] = "probing"
  /\ \/ RecordWhilePaused
     \/ RecordSuccess /\ streak' = Extended("success")
     \/ RecordFailure /\ streak' = Extended("failure")
  /\ Goto(w, "release")
  /\ UNCHANGED <<resource, tasks, lock, staff, overwrites, faults>>

(* lock.release() checks the owner.                                         *)
Release(w) ==
  /\ pc[w] = "release"
  /\ lock' = IF lock = w THEN Nobody ELSE lock
  /\ Goto(w, "idle")
  /\ UNCHANGED <<check, incident, resource, tasks, staff, streak, overwrites, faults>>

-----------------------------------------------------------------------------
(* Staff. *)

(* update_monitor_check reads the row ...                                   *)
OpenEdit(e) ==
  /\ request[e] = "none"
  /\ request' = [request EXCEPT ![e] = "edit"]
  /\ draft' = [draft EXCEPT ![e] = check]
  /\ UNCHANGED <<check, incident, resource, tasks, worker, streak, overwrites, faults>>

(* ... and saves every column of it, the state columns too.  (An edit that *)
(* full_clean refuses ends without a trace: it is one never sent.)         *)
SaveEdit(e) ==
  /\ request[e] = "edit"
  /\ \E ft, rt \in 1..MaxThreshold :
       check' = [draft[e] EXCEPT !.failure_threshold = ft, !.recovery_threshold = rt]
  /\ overwrites' = IF draft[e] = check THEN overwrites ELSE "some"
  /\ request' = [request EXCEPT ![e] = "none"]
  /\ draft' = [draft EXCEPT ![e] = NewRow(1, 1)]
  /\ UNCHANGED <<incident, resource, tasks, worker, streak, faults>>

(* Mutant of Pause: a status that is not among the choices.                 *)
PauseAsDisabled ==
  /\ check.enabled = "yes" \/ check.status # "paused"
  /\ check' = [check EXCEPT !.enabled = "no", !.status = "disabled", !.next_run = "none"]
  /\ UNCHANGED <<incident, resource, tasks, worker, staff, streak, overwrites, faults>>

(* pause_monitor_check writes the same values whatever it read.             *)
Pause ==
  /\ check.enabled = "yes" \/ check.status # "paused"
  /\ check' = [check EXCEPT !.enabled = "no", !.status = "paused", !.next_run = "none"]
  /\ UNCHANGED <<incident, resource, tasks, worker, staff, streak, overwrites, faults>>

(* resume_monitor_check decides on the row it reads ...                     *)
AskResume(e) ==
  /\ request[e] = "none"
  /\ check.enabled = "no" \/ check.status = "paused"
  /\ request' = [request EXCEPT ![e] = "resume"]
  /\ UNCHANGED <<check, incident, resource, tasks, worker, draft, streak, overwrites, faults>>

(* Mutant of Resume: the check is presumed healthy.                         *)
ResumeAsHealthy(e) ==
  /\ request[e] = "resume"
  /\ check' = [check EXCEPT !.enabled = "yes", !.status = "healthy", !.next_run = "due",
                            !.failures = 0, !.successes = 0]
  /\ streak' = [streak EXCEPT !.length = 0]
  /\ request' = [request EXCEPT ![e] = "none"]
  /\ UNCHANGED <<incident, resource, tasks, worker, draft, overwrites, faults>>

(* ... and starts the check afresh.                                         *)
Resume(e) ==
  /\ request[e] = "resume"
  /\ check' = [check EXCEPT !.enabled = "yes", !.status = "pending", !.next_run = "due",
                            !.failures = 0, !.successes = 0]
  /\ streak' = [streak EXCEPT !.length = 0]
  /\ request' = [request EXCEPT ![e] = "none"]
  /\ UNCHANGED <<incident, resource, tasks, worker, draft, overwrites, faults>>

(* acknowledge_incident re-reads the incident under a row lock.             *)
Acknowledge ==
  /\ incident = "open"
  /\ incident' = "acknowledged"
  /\ UNCHANGED <<check, resource, tasks, worker, staff, streak, overwrites, faults>>

(* The resource's lifecycle is edited.                                      *)
ChangeLifecycle ==
  /\ resource' = IF resource = "live" THEN "retired" ELSE "live"
  /\ UNCHANGED <<check, incident, tasks, worker, staff, streak, overwrites, faults>>

-----------------------------------------------------------------------------
(* Failures of workers and locks. *)

(* The task was acknowledged when it started: it is lost with its worker.   *)
Crash(w) ==
  /\ pc[w] # "idle"
  /\ crashes < MaxCrashes
  /\ crashes' = crashes + 1
  /\ Goto(w, "idle")
  /\ lock' = IF lock = w THEN Dead ELSE lock
  /\ UNCHANGED <<check, incident, resource, tasks, staff, streak, overwrites, expiries>>

(* The transaction fails: nothing is recorded and the lock is released.     *)
RecordRaises(w) ==
  /\ pc[w] = "probing"
  /\ crashes < MaxCrashes
  /\ crashes' = crashes + 1
  /\ Goto(w, "release")
  /\ UNCHANGED <<check, incident, resource, tasks, lock, staff, streak, overwrites, expiries>>

DeadLockExpires ==
  /\ lock = Dead
  /\ lock' = Nobody
  /\ UNCHANGED <<check, incident, resource, tasks, pc, staff, streak, overwrites,
                 faults>>

(* The lock's time to live was computed from the row read before the lock.  *)
LiveLockExpires ==
  /\ lock \in Workers
  /\ expiries < MaxExpiries
  /\ lock' = Nobody
  /\ expiries' = expiries + 1
  /\ UNCHANGED <<check, incident, resource, tasks, pc, staff, streak, overwrites,
                 crashes>>

-----------------------------------------------------------------------------
WorkerStep(w) ==
  \/ StartTask(w) \/ AcquireLock(w) \/ RefreshCheck(w) \/ RefreshResource(w)
  \/ Record(w) \/ Release(w)

StaffStep ==
  \/ \E e \in Editors : OpenEdit(e) \/ SaveEdit(e) \/ AskResume(e) \/ Resume(e)
  \/ Pause \/ Acknowledge \/ ChangeLifecycle

Next ==
  \/ Dispatch \/ IntervalPasses
  \/ \E w \in Workers : WorkerStep(w) \/ Crash(w) \/ RecordRaises(w)
  \/ StaffStep
  \/ DeadLockExpires \/ LiveLockExpires

Spec == Init /\ [][Next]_vars

(* Beat keeps its schedule, every worker process runs, Redis expires keys.  *)
FairSpec ==
  /\ Spec
  /\ WF_vars(Dispatch)
  /\ \A w \in Workers : WF_vars(WorkerStep(w))
  /\ WF_vars(DeadLockExpires)

-----------------------------------------------------------------------------
(* Properties. *)

(* A check is "paused" exactly while it is disabled, and then nothing is    *)
(* scheduled, whatever results, edits and resumes arrive late.              *)
Consistent(row) ==
  IF row.enabled = "no" THEN row.status = "paused" /\ row.next_run = "none"
                        ELSE row.status # "paused"
PausedIffDisabled == Consistent(check)

(* An incident opens only on failure_threshold failing results in a row     *)
(* since the check was last started, and is resolved only on                *)
(* recovery_threshold good ones, unless an edit overwrote the counters.     *)
Earned(v, threshold) == streak'.of = v /\ streak'.length >= threshold
IncidentsEarned ==
  [][overwrites = "none" =>
       /\ incident = "none" /\ incident' = "open"
            => Earned("failure", check.failure_threshold)
       /\ incident # "none" /\ incident' = "none"
            => Earned("success", check.recovery_threshold)]_vars

(* The status and the incident tell the same story, unless an edit          *)
(* overwrote the status.                                                    *)
Agree == /\ check.status = "failing" => incident # "none"
         /\ check.status = "healthy" => incident = "none"
StatusMatchesIncident == overwrites = "none" => Agree

(* The status a check shows is true to its switch and to its incidents.     *)
StatusIsTrue == PausedIffDisabled /\ StatusMatchesIncident

(* Any later result repairs what an edit overwrote.                         *)
Recorded(w) == pc[w] = "probing" /\ pc'[w] = "release" /\ UNCHANGED crashes
ResultsRepairStatus ==
  [][\A w \in Workers : Recorded(w) /\ check.enabled = "yes" => Agree']_vars

(* Every period is observed at most once: a duplicated task never records   *)
(* a result for a check that has been rescheduled.                          *)
ObservedOncePerPeriod ==
  [][\A w \in Workers :
       Recorded(w) /\ expiries = 0 /\ overwrites = "none" => check.next_run # "later"]_vars

(* A due check is observed, unless it is paused or its resource retired,    *)
(* even when the worker that holds its lock dies.                           *)
DueChecksRun == (Due /\ resource = "live") ~> ~(Due /\ resource = "live")

(* "active check -> paused -> resumed/pending"                              *)
(* (docs/MONITORING_ARCHITECTURE.md): only resume ends a pause.             *)
PauseEndsInPending ==
  [][check.status = "paused" => check'.status \in {"paused", "pending"}]_vars
=============================================================================
