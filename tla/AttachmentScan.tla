---------------------------- MODULE AttachmentScan ----------------------------
(***************************************************************************)
(* One file attached to an inbound ticket message, from quarantine to a    *)
(* verdict (apps.ticketing).                                               *)
(*                                                                         *)
(* The mailbox sync stores the file and its row and publishes a scan;      *)
(* every 60 seconds Beat publishes another one for each row that is        *)
(* pending or failed.  A worker reads the row, takes a Redis lock, reads   *)
(* the row again, marks it as scanning and records ClamAV's verdict.  An   *)
(* AttachmentScanError is retried by Celery with a growing attempt number. *)
(* The lock outlives a dead worker until it expires, and may expire under  *)
(* a slow one.                                                             *)
(*                                                                         *)
(* ClamAV, when it answers, tells clean content from malware.  found,      *)
(* outages, crashes, expiries and switches are history.                    *)
(***************************************************************************)
EXTENDS Integers

CONSTANTS
  Content,        \* what the file really is: "clean" or "malware"
  Workers,        \* Celery worker processes
  Nobody,         \* the lock is free
  Dead,           \* the lock is held by a worker that has died
  MaxRetries,     \* max_retries of scan_ticket_attachment
  MaxTasks,       \* bound: waiting tasks of each attempt number; no retry is held back
  MaxOutages,     \* bound: scans that fail
  MaxCrashes,     \* bound: worker crashes and failed saves
  MaxExpiries,    \* bound: expiries of the lock while its holder is alive
  MaxSwitches     \* bound: deployments that switch scanning on or off

ASSUME ContentAssumption == Content \in {"clean", "malware"}

ASSUME IdentitiesAssumption == Nobody \notin Workers /\ Dead \notin Workers /\ Nobody # Dead

ASSUME BoundsAssumption ==
  /\ MaxRetries \in Nat /\ MaxTasks \in Nat \ {0}
  /\ MaxOutages \in 0..MaxTasks /\ MaxCrashes \in Nat
  /\ MaxExpiries \in Nat /\ MaxSwitches \in Nat

VARIABLES
  status,      \* scan_status of the row; "none" before there is a row
  policy,      \* TICKETING_MALWARE_SCANNING_ENABLED: "on" or "off"
  tasks,       \* tasks[a]: scans waiting in the broker that are attempt a
  lock,        \* owner of the Redis lock
  pc,          \* where each worker is
  attempt,     \* the attempt number of the task each worker runs
  found,       \* "yes" once an infected verdict has been recorded
  outages, crashes, expiries, switches

worker == <<lock, pc, attempt>>
faults == <<outages, crashes, expiries>>
vars == <<status, policy, tasks, worker, found, faults, switches>>

Attempts == 0..MaxRetries
Terminal == {"safe", "infected", "blocked"}
Statuses == Terminal \cup {"none", "pending", "scanning", "scan_failed"}
Holding == {"locked", "refreshed", "scanning", "release", "raise"}

TypeOK ==
  /\ status \in Statuses
  /\ policy \in {"on", "off"}
  /\ tasks \in [Attempts -> 0..MaxTasks]
  /\ lock \in Workers \cup {Nobody, Dead}
  /\ pc \in [Workers -> Holding \cup {"idle", "read"}]
  /\ attempt \in [Workers -> Attempts]
  /\ found \in {"yes", "no"}
  /\ outages \in Nat /\ crashes \in Nat /\ expiries \in Nat /\ switches \in Nat

Init ==
  /\ status = "none"
  /\ policy \in {"on", "off"}
  /\ tasks = [a \in Attempts |-> 0]
  /\ lock = Nobody
  /\ pc = [w \in Workers |-> "idle"]
  /\ attempt = [w \in Workers |-> 0]
  /\ found = "no"
  /\ outages = 0 /\ crashes = 0 /\ expiries = 0 /\ switches = 0

-----------------------------------------------------------------------------
(* attachment_is_downloadable; a blocked file has no storage key.          *)

Downloadable ==
  \/ status = "safe"
  \/ policy = "off" /\ status \in {"pending", "scan_failed"}

-----------------------------------------------------------------------------
(* Into quarantine, and into the queue. *)

(* quarantine_attachment stores the file, or records only that a file      *)
(* beyond the size limit was blocked.                                      *)
Quarantine ==
  /\ status = "none"
  /\ status' \in {"pending", "blocked"}
  /\ UNCHANGED <<policy, tasks, worker, found, faults, switches>>

Enqueued(a) == tasks' = [tasks EXCEPT ![a] = @ + 1]

(* enqueue_attachment_scans, and _consume_canonical_message for each file  *)
(* of a message that is synchronised (again).  The backfill takes 200 rows  *)
(* at a time; the one file followed is among them.                         *)
Publish ==
  /\ policy = "on" /\ status \in {"pending", "scan_failed"}
  /\ tasks[0] < MaxTasks
  /\ Enqueued(0)
  /\ UNCHANGED <<status, policy, worker, found, faults, switches>>

-----------------------------------------------------------------------------
(* scan_ticket_attachment *)

Goto(w, step) == pc' = [pc EXCEPT ![w] = step]

StartTask(w) ==
  /\ pc[w] = "idle"
  /\ \E a \in Attempts :
       /\ tasks[a] > 0
       /\ tasks' = [tasks EXCEPT ![a] = @ - 1]
       /\ attempt' = [attempt EXCEPT ![w] = a]
  /\ Goto(w, IF policy = "on" /\ status \notin Terminal THEN "read" ELSE "idle")
  /\ UNCHANGED <<status, policy, lock, found, faults, switches>>

AcquireLock(w) ==
  /\ pc[w] = "read"
  /\ IF lock = Nobody
       THEN lock' = w /\ Goto(w, "locked")
       ELSE UNCHANGED lock /\ Goto(w, "idle")
  /\ UNCHANGED <<status, policy, tasks, attempt, found, faults, switches>>

(* Mutant of Refresh: the row read before the lock decides.                 *)
TrustFirstRead(w) ==
  /\ pc[w] = "locked"
  /\ Goto(w, "refreshed")
  /\ UNCHANGED <<status, policy, tasks, lock, attempt, found, faults, switches>>

Refresh(w) ==
  /\ pc[w] = "locked"
  /\ Goto(w, IF status \in Terminal THEN "release" ELSE "refreshed")
  /\ UNCHANGED <<status, policy, tasks, lock, attempt, found, faults, switches>>

MarkScanning(w) ==
  /\ pc[w] = "refreshed"
  /\ status' = "scanning"
  /\ Goto(w, "scanning")
  /\ UNCHANGED <<policy, tasks, lock, attempt, found, faults, switches>>

(* Mutant of RecordVerdict: whatever the scanner can read is clean.         *)
VerdictIgnored(w) ==
  /\ pc[w] = "scanning"
  /\ status' = "safe"
  /\ UNCHANGED found
  /\ Goto(w, "release")
  /\ UNCHANGED <<policy, tasks, lock, attempt, faults, switches>>

RecordVerdict(w) ==
  /\ pc[w] = "scanning"
  /\ status' = IF Content = "clean" THEN "safe" ELSE "infected"
  /\ found' = IF Content = "clean" THEN found ELSE "yes"
  /\ Goto(w, "release")
  /\ UNCHANGED <<policy, tasks, lock, attempt, faults, switches>>

(* ClamAV or the storage does not answer: _record_attachment_scan_failure. *)
ScanFails(w) ==
  /\ pc[w] = "scanning"
  /\ outages < MaxOutages
  /\ outages' = outages + 1
  /\ status' = "scan_failed"
  /\ Goto(w, "raise")
  /\ UNCHANGED <<policy, tasks, lock, attempt, found, crashes, expiries, switches>>

(* The scanner is misconfigured: clamav_scanner_from_environment raises.   *)
NoScanner(w) ==
  /\ pc[w] = "refreshed"
  /\ outages < MaxOutages
  /\ outages' = outages + 1
  /\ Goto(w, "raise")
  /\ UNCHANGED <<status, policy, tasks, lock, attempt, found, crashes, expiries, switches>>

(* The database fails: an error that Celery does not retry.                *)
SaveRaises(w) ==
  /\ pc[w] \in {"refreshed", "scanning"}
  /\ crashes < MaxCrashes
  /\ crashes' = crashes + 1
  /\ Goto(w, "release")
  /\ UNCHANGED <<status, policy, tasks, lock, attempt, found, outages, expiries, switches>>

(* lock.release() only deletes the worker's own lock.                      *)
ReleasedBy(w) == lock' = IF lock = w THEN Nobody ELSE lock

Release(w) ==
  /\ pc[w] = "release"
  /\ ReleasedBy(w)
  /\ Goto(w, "idle")
  /\ UNCHANGED <<status, policy, tasks, attempt, found, faults, switches>>

(* autoretry_for: the next attempt is published after the lock is free.    *)
ReleaseAndRetry(w) ==
  /\ pc[w] = "raise"
  /\ ReleasedBy(w)
  /\ Goto(w, "idle")
  /\ IF attempt[w] < MaxRetries
       THEN tasks[attempt[w] + 1] < MaxTasks /\ Enqueued(attempt[w] + 1)
       ELSE UNCHANGED tasks
  /\ UNCHANGED <<status, policy, attempt, found, faults, switches>>

WorkerStep(w) ==
  \/ StartTask(w) \/ AcquireLock(w) \/ Refresh(w) \/ MarkScanning(w)
  \/ RecordVerdict(w) \/ ScanFails(w) \/ NoScanner(w) \/ SaveRaises(w)
  \/ Release(w) \/ ReleaseAndRetry(w)

-----------------------------------------------------------------------------
(* The environment. *)

Crash(w) ==
  /\ pc[w] # "idle"
  /\ crashes < MaxCrashes
  /\ crashes' = crashes + 1
  /\ lock' = IF lock = w THEN Dead ELSE lock
  /\ Goto(w, "idle")
  /\ UNCHANGED <<status, policy, tasks, attempt, found, outages, expiries, switches>>

DeadLockExpires ==
  /\ lock = Dead
  /\ lock' = Nobody
  /\ UNCHANGED <<status, policy, tasks, pc, attempt, found, faults, switches>>

(* The scan takes longer than ATTACHMENT_SCAN_LOCK_SECONDS.                *)
LiveLockExpires ==
  /\ lock \in Workers
  /\ expiries < MaxExpiries
  /\ expiries' = expiries + 1
  /\ lock' = Nobody
  /\ UNCHANGED <<status, policy, tasks, pc, attempt, found, outages, crashes, switches>>

SwitchScanning ==
  /\ switches < MaxSwitches
  /\ switches' = switches + 1
  /\ policy' = IF policy = "on" THEN "off" ELSE "on"
  /\ UNCHANGED <<status, tasks, worker, found, faults>>

Next ==
  \/ Quarantine \/ Publish
  \/ \E w \in Workers : WorkerStep(w) \/ Crash(w)
  \/ DeadLockExpires \/ LiveLockExpires \/ SwitchScanning

Spec == Init /\ [][Next]_vars

(* What a worker does when nothing goes wrong; at any time it can do at    *)
(* most one of these.                                                      *)
Progress(w) ==
  \/ StartTask(w) \/ AcquireLock(w) \/ Refresh(w) \/ MarkScanning(w)
  \/ RecordVerdict(w) \/ Release(w) \/ ReleaseAndRetry(w)

(* Beat publishes again and again, workers go on with what they began and  *)
(* locks expire.  A scan that is answered is not required to fail.         *)
Fairness ==
  /\ WF_vars(Publish)
  /\ WF_vars(DeadLockExpires)
  /\ \A w \in Workers : WF_vars(Progress(w))

FairSpec == Spec /\ Fairness

-----------------------------------------------------------------------------
(* Properties. *)

(* While the deployment scans, malware is not served, whatever happened to *)
(* its row before: attachment_is_downloadable and the verdicts together.   *)
MalwareHeld == Content = "malware" /\ policy = "on" => ~Downloadable

(* Malware that a scan has found is never served again, not even by a      *)
(* deployment that later stops scanning: no retry, duplicate or late       *)
(* worker may take an infected verdict back to a state that is served.     *)
(* A worker whose lock has expired may: it records its failure over the    *)
(* verdict of its successor.                                               *)
InfectedNeverServed == expiries = 0 /\ found = "yes" => ~Downloadable

(* What quarantine is for: neither malware that is being looked for nor    *)
(* malware that was found is ever served.                                  *)
QuarantineHolds == MalwareHeld /\ InfectedNeverServed

(* The verdict that a row stands for.                                       *)
Verdict ==
  CASE status = "safe" -> "clean"
    [] status = "infected" -> "infected"
    [] status = "blocked" -> "blocked"
    [] OTHER -> "none"

Gate == INSTANCE QuarantineGate WITH verdict <- Verdict

(* A verdict is final: all that workers, retries, duplicates and backfills *)
(* do to the row is at most one true verdict, as the gate promises, until  *)
(* a lock expires under its holder.                                        *)
KeepsTheGate == Gate!Init /\ [][expiries' = 0 => Gate!Next]_(Gate!vars)

(* A file in quarantine gets a verdict in the end if the deployment scans, *)
(* unless a worker died (or its save failed) and left the row scanning:    *)
(* the backfill looks only for pending and failed files.                   *)
QuarantineEnds ==
  status = "pending" ~> \/ status \in Terminal
                        \/ status = "scanning" /\ crashes > 0
                        \/ policy = "off"
=============================================================================
