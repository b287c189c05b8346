---------------------------- MODULE TicketDelivery ----------------------------
(***************************************************************************)
(* Delivery of one ticket's outbound mail through Microsoft Graph.         *)
(*                                                                         *)
(* A web request stores a message as "queued" and publishes a Celery task  *)
(* for it (reply_to_ticket for replies, email_lead for the first message   *)
(* of a lead conversation).  A worker that takes the task reads the row,   *)
(* takes a Redis lock with a time to live, reads the row again, marks it   *)
(* "sending", calls Graph and records the outcome.  A Graph error marks    *)
(* the message "failed" and publishes the task again, MaxRetries times.    *)
(*                                                                         *)
(* Tasks are acknowledged before they run, so a worker that dies loses its *)
(* task and leaves its lock behind until the lock's time to live is over.  *)
(* A lock may also expire under a worker that is merely slow, and Graph    *)
(* may accept a mail whose response never arrives.                         *)
(*                                                                         *)
(* copies, excuses, expiries, crashes, duplicates and abandoned are        *)
(* history: only bounds and the customer's own answer depend on them.      *)
(***************************************************************************)
EXTENDS Integers

CONSTANTS
  Replies,        \* messages delivered by ticketing.deliver_ticket_reply
  Openers,        \* the message that opens the ticket, if staff opened it: it is
                  \* delivered by crm.deliver_lead_email
  Workers,        \* Celery worker processes
  Nobody,         \* the lock is free
  Dead,           \* the lock is held by a worker that has died
  MaxRetries,     \* max_retries of the two tasks
  MaxCrashes,     \* bound: worker crashes
  MaxExpiries,    \* bound: expiries of a lock whose holder is alive
  MaxDuplicates   \* bound: extra deliveries of a task by the broker

Messages == Replies \cup Openers

ASSUME IdentitiesAssumption ==
  /\ Replies \cap Openers = {}
  /\ \A a, b \in Openers : a = b
  /\ Nobody \notin Workers /\ Dead \notin Workers /\ Nobody # Dead

ASSUME BoundsAssumption ==
  /\ MaxRetries \in Nat /\ MaxCrashes \in Nat
  /\ MaxExpiries \in Nat /\ MaxDuplicates \in Nat

VARIABLES
  status,       \* TicketMessage.delivery_status, "absent" before the row exists
  unpublished,  \* messages stored by a request that has not called .delay yet
  queue,        \* queue[m][t]: tasks for m waiting in the broker, at retry t
  mailbox,      \* the ticket's mailbox: "eligible" for background delivery, only
                \* "enabled" (no usable credential or method), or "disabled"
  lock,         \* the Redis lock of each message
  pc,           \* where each worker is in its task
  job,          \* the message of the worker's task
  tries,        \* the retry number of the worker's task
  response,     \* whether Ticket.first_response_at is "set"
  copies,       \* copies of the mail that Graph accepted
  excuses,      \* accepted copies whose acceptance was never recorded
  expiries,     \* expiries of the message's lock under a live holder
  crashes,      \* worker crashes so far
  duplicates,   \* duplicated task deliveries so far
  abandoned     \* messages that lost their task to a crash or a failed call

history == <<copies, excuses, expiries, crashes, duplicates, abandoned>>
vars == <<status, unpublished, queue, mailbox, lock, pc, job, tries, response, history>>

Statuses == {"absent", "queued", "sending", "sent", "failed"}
MailboxStates == {"eligible", "enabled", "disabled"}
Steps == {"idle", "checked", "locked", "ready", "calling", "accepted",
          "error", "retry", "release"}

(* The steps at which the worker believes it holds the message's lock. *)
Holding == Steps \ {"idle", "checked"}

TypeOK ==
  /\ status \in [Messages -> Statuses]
  /\ unpublished \in SUBSET Messages
  /\ queue \in [Messages -> [0..MaxRetries -> Nat]]
  /\ mailbox \in MailboxStates
  /\ lock \in [Messages -> Workers \cup {Nobody, Dead}]
  /\ pc \in [Workers -> Steps]
  /\ job \in [Workers -> Messages]
  /\ tries \in [Workers -> 0..MaxRetries]
  /\ response \in {"unset", "set"}
  /\ copies \in [Messages -> Nat]
  /\ excuses \in [Messages -> Nat]
  /\ expiries \in [Messages -> Nat]
  /\ crashes \in Nat
  /\ duplicates \in Nat
  /\ abandoned \in SUBSET Messages

Init ==
  /\ status = [m \in Messages |-> "absent"]
  /\ unpublished = {}
  /\ queue = [m \in Messages |-> [t \in 0..MaxRetries |-> 0]]
  /\ mailbox = "eligible"
  /\ lock = [m \in Messages |-> Nobody]
  /\ pc = [w \in Workers |-> "idle"]
  /\ job \in [Workers -> Messages]
  /\ tries = [w \in Workers |-> 0]
  /\ response = "unset"
  /\ copies = [m \in Messages |-> 0]
  /\ excuses = [m \in Messages |-> 0]
  /\ expiries = [m \in Messages |-> 0]
  /\ crashes = 0
  /\ duplicates = 0
  /\ abandoned = {}

-----------------------------------------------------------------------------
(* The broker. *)

Enqueued(m, t) == [queue EXCEPT ![m][t] = @ + 1]
Dequeued(m, t) == [queue EXCEPT ![m][t] = @ - 1]

-----------------------------------------------------------------------------
(* The web request. *)

(* prepare_ticket_reply needs a mailbox that is merely enabled.  A reply    *)
(* answers an inbound message, so a ticket that staff opened gets replies   *)
(* only once its opener has reached the customer.                           *)
ReplyPrepared(m) ==
  /\ m \in Replies
  /\ mailbox # "disabled"
  /\ \A o \in Openers : copies[o] > 0

(* prepare_outbound_ticket_email *)
OpenerPrepared(m) ==
  /\ m \in Openers
  /\ mailbox = "eligible"

(* The request commits the row before it calls .delay.                      *)
Prepare(m) ==
  /\ status[m] = "absent"
  /\ ReplyPrepared(m) \/ OpenerPrepared(m)
  /\ status' = [status EXCEPT ![m] = "queued"]
  /\ unpublished' = unpublished \cup {m}
  /\ UNCHANGED <<queue, mailbox, lock, pc, job, tries, response, history>>

Publish(m) ==
  /\ m \in unpublished
  /\ unpublished' = unpublished \ {m}
  /\ queue' = Enqueued(m, 0)
  /\ UNCHANGED <<status, mailbox, lock, pc, job, tries, response, history>>

(* The broker cannot be reached: .delay raises and the request answers 500. *)
PublishFails(m) ==
  /\ m \in unpublished
  /\ unpublished' = unpublished \ {m}
  /\ abandoned' = abandoned \cup {m}
  /\ UNCHANGED <<status, queue, mailbox, lock, pc, job, tries, response,
                 copies, excuses, expiries, crashes, duplicates>>

(* An administrator changes the mailbox or its connection. *)
ChangeMailbox ==
  /\ \E s \in MailboxStates \ {mailbox} : mailbox' = s
  /\ UNCHANGED <<status, unpublished, queue, lock, pc, job, tries, response, history>>

(* The broker delivers a waiting task a second time. *)
DuplicateTask(m, t) ==
  /\ queue[m][t] > 0
  /\ duplicates < MaxDuplicates
  /\ queue' = Enqueued(m, t)
  /\ duplicates' = duplicates + 1
  /\ UNCHANGED <<status, unpublished, mailbox, lock, pc, job, tries, response,
                 copies, excuses, expiries, crashes, abandoned>>

-----------------------------------------------------------------------------
(* The worker. *)

Goto(w, step) == pc' = [pc EXCEPT ![w] = step]

(* The task starts: it reads the row and gives up on a message that is sent. *)
StartTask(w, m, t) ==
  /\ pc[w] = "idle"
  /\ queue[m][t] > 0
  /\ queue' = Dequeued(m, t)
  /\ job' = [job EXCEPT ![w] = m]
  /\ tries' = [tries EXCEPT ![w] = t]
  /\ IF status[m] = "sent" THEN UNCHANGED pc ELSE Goto(w, "checked")
  /\ UNCHANGED <<status, unpublished, mailbox, lock, response, history>>

(* Mutant of AcquireLock: a busy lock is not respected.                     *)
LockIgnored(w) ==
  /\ pc[w] = "checked"
  /\ lock' = [lock EXCEPT ![job[w]] = w]
  /\ Goto(w, "locked")
  /\ UNCHANGED <<status, unpublished, queue, mailbox, job, tries, response, history>>

(* lock.acquire(blocking=False): a busy lock ends the task. *)
AcquireLock(w) ==
  /\ pc[w] = "checked"
  /\ IF lock[job[w]] = Nobody
       THEN /\ lock' = [lock EXCEPT ![job[w]] = w]
            /\ Goto(w, "locked")
       ELSE /\ Goto(w, "idle")
            /\ UNCHANGED lock
  /\ UNCHANGED <<status, unpublished, queue, mailbox, job, tries, response, history>>

(* Mutant of Refresh: the row read before the lock is trusted.              *)
TrustFirstRead(w) ==
  /\ pc[w] = "locked"
  /\ Goto(w, "ready")
  /\ UNCHANGED <<status, unpublished, queue, mailbox, lock, job, tries, response, history>>

(* message.refresh_from_db() under the lock. *)
Refresh(w) ==
  /\ pc[w] = "locked"
  /\ Goto(w, IF status[job[w]] = "sent" THEN "release" ELSE "ready")
  /\ UNCHANGED <<status, unpublished, queue, mailbox, lock, job, tries, response, history>>

(* fail_ticket_reply without a retry when the mailbox is not eligible. *)
RefuseMailbox(w) ==
  /\ pc[w] = "ready"
  /\ mailbox # "eligible"
  /\ status' = [status EXCEPT ![job[w]] = "failed"]
  /\ Goto(w, "release")
  /\ UNCHANGED <<unpublished, queue, mailbox, lock, job, tries, response, history>>

(* mark_ticket_reply_sending *)
MarkSending(w) ==
  /\ pc[w] = "ready"
  /\ mailbox = "eligible"
  /\ status' = [status EXCEPT ![job[w]] = "sending"]
  /\ Goto(w, "calling")
  /\ UNCHANGED <<unpublished, queue, mailbox, lock, job, tries, response, history>>

(* Graph answers 202 to the send request. *)
GraphAccepts(w) ==
  /\ pc[w] = "calling"
  /\ copies' = [copies EXCEPT ![job[w]] = @ + 1]
  /\ Goto(w, "accepted")
  /\ UNCHANGED <<status, unpublished, queue, mailbox, lock, job, tries, response,
                 excuses, expiries, crashes, duplicates, abandoned>>

(* Mutant of GraphRejects: an error status is taken for an acceptance.      *)
RejectionTakenAsSent(w) ==
  /\ pc[w] = "calling"
  /\ Goto(w, "accepted")
  /\ UNCHANGED <<status, unpublished, queue, mailbox, lock, job, tries, response, history>>

(* No token, no draft or an error status: nothing was sent. *)
GraphRejects(w) ==
  /\ pc[w] = "calling"
  /\ Goto(w, "error")
  /\ UNCHANGED <<status, unpublished, queue, mailbox, lock, job, tries, response, history>>

(* Graph accepts the mail and the response is lost: requests raises, which  *)
(* the adapter turns into the same MicrosoftGraphError as a rejection.      *)
GraphAnswerLost(w) ==
  /\ pc[w] = "calling"
  /\ copies' = [copies EXCEPT ![job[w]] = @ + 1]
  /\ excuses' = [excuses EXCEPT ![job[w]] = @ + 1]
  /\ Goto(w, "error")
  /\ UNCHANGED <<status, unpublished, queue, mailbox, lock, job, tries, response,
                 expiries, crashes, duplicates, abandoned>>

(* complete_ticket_reply sets the ticket's first response,                  *)
(* complete_new_ticket_message does not.                                    *)
CompleteReply(m) == m \in Replies /\ response' = "set"
CompleteOpener(m) == m \in Openers /\ UNCHANGED response

(* Either is one transaction with the message's locked row.                 *)
RecordSent(w) ==
  /\ pc[w] = "accepted"
  /\ status' = [status EXCEPT ![job[w]] = "sent"]
  /\ CompleteReply(job[w]) \/ CompleteOpener(job[w])
  /\ Goto(w, "release")
  /\ UNCHANGED <<unpublished, queue, mailbox, lock, job, tries, history>>

(* The transaction fails: the exception is not one the task is retried for. *)
RecordSentFails(w) ==
  /\ pc[w] = "accepted"
  /\ excuses' = [excuses EXCEPT ![job[w]] = @ + 1]
  /\ abandoned' = abandoned \cup {job[w]}
  /\ Goto(w, "release")
  /\ UNCHANGED <<status, unpublished, queue, mailbox, lock, job, tries, response,
                 copies, expiries, crashes, duplicates>>

(* Mutant of RecordFailure: the exception leaves before the row is saved.   *)
FailureNotRecorded(w) ==
  /\ pc[w] = "error"
  /\ Goto(w, "retry")
  /\ UNCHANGED <<status, unpublished, queue, mailbox, lock, job, tries, response, history>>

(* fail_ticket_reply, then the exception is raised again. *)
RecordFailure(w) ==
  /\ pc[w] = "error"
  /\ status' = [status EXCEPT ![job[w]] = "failed"]
  /\ Goto(w, "retry")
  /\ UNCHANGED <<unpublished, queue, mailbox, lock, job, tries, response, history>>

(* lock.release() checks the owner: an expired lock is left alone. *)
ReleasedBy(w) ==
  IF lock[job[w]] = w THEN [lock EXCEPT ![job[w]] = Nobody] ELSE lock

Release(w) ==
  /\ pc[w] = "release"
  /\ lock' = ReleasedBy(w)
  /\ Goto(w, "idle")
  /\ UNCHANGED <<status, unpublished, queue, mailbox, job, tries, response, history>>

(* Mutant of ReleaseAndRetry: retries are not limited.                      *)
RetryForever(w) ==
  /\ pc[w] = "retry"
  /\ lock' = ReleasedBy(w)
  /\ queue' = [queue EXCEPT ![job[w]] =
                 [t \in DOMAIN @ \cup {tries[w] + 1} |-> IF t = tries[w] + 1 THEN 1 ELSE @[t]]]
  /\ Goto(w, "idle")
  /\ UNCHANGED <<status, unpublished, mailbox, job, tries, response, history>>

(* The lock is released while the exception propagates; autoretry_for then  *)
(* publishes the task again unless its retries are used up.                 *)
ReleaseAndRetry(w) ==
  /\ pc[w] = "retry"
  /\ lock' = ReleasedBy(w)
  /\ queue' = IF tries[w] < MaxRetries THEN Enqueued(job[w], tries[w] + 1) ELSE queue
  /\ Goto(w, "idle")
  /\ UNCHANGED <<status, unpublished, mailbox, job, tries, response, history>>

-----------------------------------------------------------------------------
(* Failures. *)

(* A worker dies.  Its task is acknowledged already, so it is gone, and its *)
(* lock stays.  Dying inside the call, Graph may have accepted the mail.    *)
Crash(w) ==
  /\ pc[w] # "idle"
  /\ crashes < MaxCrashes
  /\ crashes' = crashes + 1
  /\ Goto(w, "idle")
  /\ abandoned' = abandoned \cup {job[w]}
  /\ lock' = [lock EXCEPT ![job[w]] = IF @ = w THEN Dead ELSE @]
  /\ \E sent \in IF pc[w] = "calling" THEN {0, 1} ELSE {0} :
       /\ copies' = [copies EXCEPT ![job[w]] = @ + sent]
       /\ excuses' = [excuses EXCEPT ![job[w]] =
                        @ + IF pc[w] = "accepted" THEN 1 ELSE sent]
  /\ UNCHANGED <<status, unpublished, queue, mailbox, job, tries, response,
                 expiries, duplicates>>

(* The time to live of a dead worker's lock ends. *)
DeadLockExpires(m) ==
  /\ lock[m] = Dead
  /\ lock' = [lock EXCEPT ![m] = Nobody]
  /\ UNCHANGED <<status, unpublished, queue, mailbox, pc, job, tries, response, history>>

(* The time to live ends while the holder is still at work. *)
LiveLockExpires(m) ==
  /\ lock[m] \in Workers
  /\ expiries[m] < MaxExpiries
  /\ lock' = [lock EXCEPT ![m] = Nobody]
  /\ expiries' = [expiries EXCEPT ![m] = @ + 1]
  /\ UNCHANGED <<status, unpublished, queue, mailbox, pc, job, tries, response,
                 copies, excuses, crashes, duplicates, abandoned>>

-----------------------------------------------------------------------------
WorkerStep(w) ==
  \/ \E m \in Messages, t \in 0..MaxRetries : StartTask(w, m, t)
  \/ AcquireLock(w)
  \/ Refresh(w)
  \/ RefuseMailbox(w)
  \/ MarkSending(w)
  \/ GraphAccepts(w)
  \/ GraphRejects(w)
  \/ GraphAnswerLost(w)
  \/ RecordSent(w)
  \/ RecordSentFails(w)
  \/ RecordFailure(w)
  \/ Release(w)
  \/ ReleaseAndRetry(w)

RequestStep(m) == Prepare(m) \/ Publish(m) \/ PublishFails(m)

Environment ==
  \/ ChangeMailbox
  \/ \E m \in Messages : DeadLockExpires(m) \/ LiveLockExpires(m)
  \/ \E m \in Messages, t \in 0..MaxRetries : DuplicateTask(m, t)
  \/ \E w \in Workers : Crash(w)

Next ==
  \/ \E m \in Messages : RequestStep(m)
  \/ \E w \in Workers : WorkerStep(w)
  \/ Environment

Spec == Init /\ [][Next]_vars

(* The request goes on after its commit, and the worker processes run.      *)
(* Nobody is obliged to crash, to toggle a mailbox or to write a reply.     *)
FairSpec ==
  /\ Spec
  /\ WF_vars(\E m \in Messages : Publish(m) \/ PublishFails(m))
  /\ WF_vars(\E w \in Workers : WorkerStep(w))

-----------------------------------------------------------------------------
(* Properties. *)

(* A worker at work on a message; one whose mail Graph has just accepted.   *)
AtWork(w, m) == job[w] = m /\ pc[w] \in Holding
Accepted(m) == \E w \in Workers : job[w] = m /\ pc[w] = "accepted"

(* While no lock expires under a live holder, at most one worker is between *)
(* _ticket_reply_delivery_lock's acquire and release for a message, however *)
(* often the broker delivers the task and whichever workers die.            *)
OneWorkerPerMessage ==
  \A m \in Messages : expiries[m] = 0 =>
    \A v, w \in Workers : AtWork(v, m) /\ AtWork(w, m) => v = w

(* The customer gets one copy, plus one for every copy whose acceptance was *)
(* lost (a lost answer, a failed commit, a crash): retries and duplicated   *)
(* tasks never add one by themselves.                                       *)
EveryCopyAccounted ==
  \A m \in Messages : expiries[m] = 0 =>
    copies[m] = excuses[m] + (IF status[m] = "sent" \/ Accepted(m) THEN 1 ELSE 0)

(* A recorded delivery is final: complete_ticket_reply's "sent" is never    *)
(* overwritten by a later mark_ticket_reply_sending or fail_ticket_reply.   *)
SentIsFinal ==
  [][\A m \in Messages :
       status[m] = "sent" /\ expiries[m] = 0 => status'[m] = "sent"]_vars

(* Ticket.first_response_at is set only when a reply really went out, never *)
(* by the first mail of a lead conversation.                                *)
FirstResponseIsReal ==
  response = "set" => \E m \in Replies : copies[m] > 0

(* No message is reported as delivered that Graph did not accept, whatever  *)
(* locks expire.                                                            *)
SentWasAccepted ==
  \A m \in Messages : status[m] = "sent" => copies[m] > 0

(* What staff and the service levels read off a ticket did happen.          *)
RecordIsTrue == FirstResponseIsReal /\ SentWasAccepted

(* A queued message ends as sent or failed, unless a crash, a failed commit *)
(* or a failed .delay took its task away: nothing publishes it again then.  *)
Settles ==
  \A m \in Messages :
    status[m] \in {"queued", "sending"} ~>
      (status[m] \in {"sent", "failed"} \/ m \in abandoned)

(* TicketDelivery implements OutboundMail as long as no lock expires under  *)
(* its holder: queue, lock, retries and duplicated tasks stay invisible.    *)
Stage ==
  [m \in Messages |->
     CASE status[m] = "absent" -> "none"
       [] status[m] = "sent" -> "delivered"
       [] OTHER -> "open"]

Mail == INSTANCE OutboundMail WITH Messages <- Messages, stage <- Stage,
                                   copies <- copies, excuses <- excuses

ImplementsOutboundMail == Mail!Spec
=============================================================================
