----------------------------- MODULE MailboxSync -----------------------------
(***************************************************************************)
(* The synchronisation of one Microsoft 365 mailbox into tickets           *)
(* (apps.ticketing tasks and services.graph).                              *)
(*                                                                         *)
(* Graph keeps a log of the Inbox's changes; a delta link is a position in *)
(* it.  Every 60 seconds Beat publishes a sync.  A worker reads the        *)
(* mailbox row, takes a Redis lock, and follows the pages from the link it *)
(* has read: each message is ingested (once, by its unique provider id)    *)
(* and its files are put into quarantine.  The link that ends the round is *)
(* saved only when all its pages have been consumed; an error leaves the   *)
(* link and the next round starts there again.                             *)
(*                                                                         *)
(* A page is a stretch of the log, and the round ends with the page that   *)
(* reaches the log's end.  Rows of removed messages carry nothing and are  *)
(* left out.                                                               *)
(***************************************************************************)
EXTENDS Integers, Sequences

CONSTANTS
  Messages,      \* messages that may arrive
  WithFiles,     \* those that have file attachments
  Workers,       \* Celery worker processes
  Nobody,        \* the lock is free
  Dead,          \* the lock is held by a worker that has died
  MaxChanges,    \* bound: changes in the Inbox
  MaxTasks,      \* bound: syncs waiting in the broker
  MaxErrors,     \* bound: rounds that fail
  MaxCrashes,    \* bound: worker crashes
  MaxExpiries,   \* bound: expiries of the lock while its holder is alive
  MaxSwitches    \* bound: changes of the mailbox's eligibility

ASSUME FilesAssumption == WithFiles \subseteq Messages

ASSUME IdentitiesAssumption == Nobody \notin Workers /\ Dead \notin Workers /\ Nobody # Dead

ASSUME BoundsAssumption ==
  /\ MaxChanges \in Nat /\ MaxTasks \in Nat \ {0} /\ MaxErrors \in Nat
  /\ MaxCrashes \in Nat /\ MaxExpiries \in Nat /\ MaxSwitches \in Nat

VARIABLES
  inbox,         \* Graph's log: the message of each change
  delta_link,    \* the saved position; 0 is no link, a full round
  last_error,    \* "none" or "some"
  eligible,      \* whether mailbox and connection allow background sync: "yes", "no"
  ingested,      \* messages that have a TicketMessage row
  quarantined,   \* messages whose files have rows in quarantine
  tasks,         \* syncs waiting in the broker
  lock,          \* owner of the Redis lock
  pc,            \* where each worker is
  link,          \* the delta_link each worker read before it had the lock
  done,          \* the position up to which each worker has consumed the round
  page,          \* the position at which each worker's page ends
  more,          \* whether a page follows: "yes" (nextLink) or "no" (deltaLink)
  errors, crashes, expiries, switches

mailbox == <<delta_link, last_error>>
tickets == <<ingested, quarantined>>
worker == <<lock, pc, link, done, page, more>>
faults == <<errors, crashes, expiries, switches>>
vars == <<inbox, mailbox, eligible, tickets, tasks, worker, faults>>

Positions == 0..MaxChanges
Running == {"fetch", "consume", "files"}

TypeOK ==
  /\ inbox \in Seq(Messages) /\ Len(inbox) \in Positions
  /\ delta_link \in Positions
  /\ last_error \in {"none", "some"}
  /\ eligible \in {"yes", "no"}
  /\ ingested \subseteq Messages
  /\ quarantined \subseteq WithFiles
  /\ tasks \in 0..MaxTasks
  /\ lock \in Workers \cup {Nobody, Dead}
  /\ pc \in [Workers -> Running \cup {"idle", "read", "release"}]
  /\ link \in [Workers -> Positions]
  /\ done \in [Workers -> Positions]
  /\ page \in [Workers -> Positions]
  /\ more \in [Workers -> {"yes", "no"}]
  /\ errors \in Nat /\ crashes \in Nat /\ expiries \in Nat /\ switches \in Nat

Init ==
  /\ inbox = <<>>
  /\ delta_link = 0 /\ last_error = "none"
  /\ eligible = "yes"
  /\ ingested = {} /\ quarantined = {}
  /\ tasks = 0
  /\ lock = Nobody
  /\ pc = [w \in Workers |-> "idle"]
  /\ link = [w \in Workers |-> 0]
  /\ done = [w \in Workers |-> 0]
  /\ page = [w \in Workers |-> 0]
  /\ more = [w \in Workers |-> "yes"]
  /\ errors = 0 /\ crashes = 0 /\ expiries = 0 /\ switches = 0

-----------------------------------------------------------------------------
(* Graph, staff and Beat. *)

(* A message arrives, or a known one changes.                              *)
Change ==
  /\ Len(inbox) < MaxChanges
  /\ \E m \in Messages : inbox' = Append(inbox, m)
  /\ UNCHANGED <<mailbox, eligible, tickets, tasks, worker, faults>>

SwitchMailbox ==
  /\ switches < MaxSwitches
  /\ switches' = switches + 1
  /\ eligible' = IF eligible = "yes" THEN "no" ELSE "yes"
  /\ UNCHANGED <<inbox, mailbox, tickets, tasks, worker, errors, crashes, expiries>>

(* Mutant of Dispatch: a mailbox with an error waits for staff.             *)
FailedNotDispatched ==
  /\ eligible = "yes" /\ last_error = "none"
  /\ tasks < MaxTasks
  /\ tasks' = tasks + 1
  /\ UNCHANGED <<inbox, mailbox, eligible, tickets, worker, faults>>

(* enqueue_graph_mailbox_syncs                                             *)
Dispatch ==
  /\ eligible = "yes"
  /\ tasks < MaxTasks
  /\ tasks' = tasks + 1
  /\ UNCHANGED <<inbox, mailbox, eligible, tickets, worker, faults>>

-----------------------------------------------------------------------------
(* sync_graph_mailbox_task *)

Goto(w, step) == pc' = [pc EXCEPT ![w] = step]

StartTask(w) ==
  /\ pc[w] = "idle" /\ tasks > 0
  /\ tasks' = tasks - 1
  /\ link' = [link EXCEPT ![w] = delta_link]
  /\ Goto(w, IF eligible = "yes" THEN "read" ELSE "idle")
  /\ UNCHANGED <<inbox, mailbox, eligible, tickets, lock, done, page, more, faults>>

(* Mutant of AcquireLock: the round runs whether or not the lock is had.    *)
LockIgnored(w) ==
  /\ pc[w] = "read"
  /\ lock' = IF lock = Nobody THEN w ELSE lock
  /\ Goto(w, "fetch")
  /\ done' = [done EXCEPT ![w] = link[w]]
  /\ UNCHANGED <<inbox, mailbox, eligible, tickets, tasks, link, page, more, faults>>

(* The round starts at the link that was read before the lock.             *)
AcquireLock(w) ==
  /\ pc[w] = "read"
  /\ IF lock = Nobody
       THEN lock' = w /\ Goto(w, "fetch") /\ done' = [done EXCEPT ![w] = link[w]]
       ELSE Goto(w, "idle") /\ UNCHANGED <<lock, done>>
  /\ UNCHANGED <<inbox, mailbox, eligible, tickets, tasks, link, page, more, faults>>

(* fetch_delta_page: a page that reaches the end carries a delta link.     *)
FetchPage(w) ==
  /\ pc[w] = "fetch"
  /\ \E end \in done[w]..Len(inbox) :
       /\ end > done[w] \/ end = Len(inbox)
       /\ page' = [page EXCEPT ![w] = end]
       /\ more' = [more EXCEPT ![w] = IF end = Len(inbox) THEN "no" ELSE "yes"]
  /\ Goto(w, "consume")
  /\ UNCHANGED <<inbox, mailbox, eligible, tickets, tasks, lock, link, done, faults>>

Advance(w) == done' = [done EXCEPT ![w] = @ + 1]

(* Mutant of Ingest: a message that is known needs nothing more.            *)
KnownIsSkipped(w) ==
  /\ pc[w] = "consume" /\ done[w] < page[w]
  /\ LET m == inbox[done[w] + 1]
     IN  /\ ingested' = ingested \cup {m}
         /\ IF m \in WithFiles /\ m \notin ingested
              THEN Goto(w, "files") /\ UNCHANGED done
              ELSE Advance(w) /\ UNCHANGED pc
  /\ UNCHANGED <<inbox, mailbox, eligible, quarantined, tasks, lock, link, page, more,
                 faults>>

(* Mutant of Ingest: has_attachments is not looked at.                      *)
FilesOfEveryMessage(w) ==
  /\ pc[w] = "consume" /\ done[w] < page[w]
  /\ ingested' = ingested \cup {inbox[done[w] + 1]}
  /\ Goto(w, "files")
  /\ UNCHANGED <<inbox, mailbox, eligible, quarantined, tasks, lock, link, done, page,
                 more, faults>>

(* ingest_canonical_message: the unique provider_message_id makes a second *)
(* row impossible, for a repeated message as for two workers at once.  The *)
(* files are fetched for known messages too.                               *)
Ingest(w) ==
  /\ pc[w] = "consume" /\ done[w] < page[w]
  /\ LET m == inbox[done[w] + 1]
     IN  /\ ingested' = ingested \cup {m}
         /\ IF m \in WithFiles
              THEN Goto(w, "files") /\ UNCHANGED done
              ELSE Advance(w) /\ UNCHANGED pc
  /\ UNCHANGED <<inbox, mailbox, eligible, quarantined, tasks, lock, link, page, more,
                 faults>>

(* fetch_file_attachments and quarantine_attachment, which is idempotent.  *)
QuarantineFiles(w) ==
  /\ pc[w] = "files"
  /\ quarantined' = quarantined \cup {inbox[done[w] + 1]}
  /\ Advance(w)
  /\ Goto(w, "consume")
  /\ UNCHANGED <<inbox, mailbox, eligible, ingested, tasks, lock, link, page, more, faults>>

NextPage(w) ==
  /\ pc[w] = "consume" /\ done[w] = page[w] /\ more[w] = "yes"
  /\ Goto(w, "fetch")
  /\ UNCHANGED <<inbox, mailbox, eligible, tickets, tasks, lock, link, done, page, more,
                 faults>>

Checkpoint(w) ==
  /\ pc[w] = "consume" /\ done[w] = page[w] /\ more[w] = "no"
  /\ delta_link' = page[w] /\ last_error' = "none"
  /\ Goto(w, "release")
  /\ UNCHANGED <<inbox, eligible, tickets, tasks, lock, link, done, page, more, faults>>

(* Graph, a payload, the storage or the database raises: last_error is     *)
(* saved and the link is not.                                              *)
RoundFails(w) ==
  /\ pc[w] \in Running
  /\ errors < MaxErrors
  /\ errors' = errors + 1
  /\ last_error' = "some"
  /\ Goto(w, "release")
  /\ UNCHANGED <<inbox, delta_link, eligible, tickets, tasks, lock, link, done, page,
                 more, crashes, expiries, switches>>

(* lock.release() only deletes the worker's own lock.                      *)
Release(w) ==
  /\ pc[w] = "release"
  /\ lock' = IF lock = w THEN Nobody ELSE lock
  /\ Goto(w, "idle")
  /\ UNCHANGED <<inbox, mailbox, eligible, tickets, tasks, link, done, page, more, faults>>

WorkerStep(w) ==
  \/ StartTask(w) \/ AcquireLock(w) \/ FetchPage(w) \/ Ingest(w) \/ QuarantineFiles(w)
  \/ NextPage(w) \/ Checkpoint(w) \/ RoundFails(w) \/ Release(w)

-----------------------------------------------------------------------------
Crash(w) ==
  /\ pc[w] # "idle"
  /\ crashes < MaxCrashes
  /\ crashes' = crashes + 1
  /\ lock' = IF lock = w THEN Dead ELSE lock
  /\ Goto(w, "idle")
  /\ UNCHANGED <<inbox, mailbox, eligible, tickets, tasks, link, done, page, more, errors,
                 expiries, switches>>

DeadLockExpires ==
  /\ lock = Dead
  /\ lock' = Nobody
  /\ UNCHANGED <<inbox, mailbox, eligible, tickets, tasks, pc, link, done, page, more,
                 faults>>

(* The round takes longer than graph_sync_lock_seconds.                    *)
LiveLockExpires ==
  /\ lock \in Workers
  /\ expiries < MaxExpiries
  /\ expiries' = expiries + 1
  /\ lock' = Nobody
  /\ UNCHANGED <<inbox, mailbox, eligible, tickets, tasks, pc, link, done, page, more,
                 errors, crashes, switches>>

Next ==
  \/ Change \/ SwitchMailbox \/ Dispatch
  \/ \E w \in Workers : WorkerStep(w) \/ Crash(w)
  \/ DeadLockExpires \/ LiveLockExpires

Spec == Init /\ [][Next]_vars

(* Beat publishes again and again, workers go on with what they began and  *)
(* locks expire.  Rounds may fail, but not for ever.                       *)
Fairness ==
  /\ WF_vars(Dispatch) /\ WF_vars(DeadLockExpires)
  /\ \A w \in Workers : WF_vars(WorkerStep(w))

FairSpec == Spec /\ Fairness

-----------------------------------------------------------------------------
(* Properties. *)

Covered(n) ==
  inbox[n] \in ingested /\ (inbox[n] \in WithFiles => inbox[n] \in quarantined)

(* Nothing before the saved delta link is missing: its messages have their *)
(* rows and their files are in quarantine, whatever failed, died, ran      *)
(* twice or started from a link that another worker had already replaced.  *)
CheckpointCovers == \A n \in 1..delta_link : Covered(n)

(* The saved link never moves back until a lock expires under its holder:  *)
(* with the lock, a worker that starts from an outdated link still ends    *)
(* beyond the link that replaced it.                                       *)
LinkNeverGoesBack == [][expiries' = 0 => delta_link' >= delta_link]_vars

(* Every message of an eligible mailbox is ingested in the end, with its   *)
(* files, across failed rounds and dead workers.                           *)
MailGetsIn ==
  \A n \in 1..MaxChanges :
    n <= Len(inbox) ~> n <= delta_link \/ eligible = "no"
=============================================================================
