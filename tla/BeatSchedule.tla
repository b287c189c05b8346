------------------------------ MODULE BeatSchedule ------------------------------
(***************************************************************************)
(* What Celery Beat starts again and again so that nothing is left behind: *)
(* recover_deliveries, for the GitHub deliveries that lost their task      *)
(* (GithubDelivery), and enqueue_due_checks, for the monitoring checks     *)
(* that are due (MonitorCheck, as Checks).  They share no state: a         *)
(* behaviour follows one of the two, the subject, and the other waits in   *)
(* one of its initial states.                                              *)
(***************************************************************************)
EXTENDS GithubDelivery

CONSTANTS Editors, MaxThreshold   \* of MonitorCheck

VARIABLES
  check, incident, resource, check_tasks, lock, check_pc, request, draft, streak,
  overwrites, check_expiries, check_crashes,   \* of MonitorCheck
  subject                                      \* "deliveries" or "check"

Checks ==
  INSTANCE MonitorCheck WITH tasks <- check_tasks, pc <- check_pc,
                             expiries <- check_expiries, crashes <- check_crashes

checkVars == <<check, incident, resource, check_tasks, lock, check_pc, request, draft,
               streak, overwrites, check_expiries, check_crashes>>
allVars == <<subject, vars, checkVars>>

BeatInit ==
  /\ subject \in {"deliveries", "check"}
  /\ Init
  /\ subject # "deliveries" => job = [w \in Workers |-> CHOOSE d \in Deliveries : TRUE]
  /\ Checks!Init
  /\ subject # "check" => check = Checks!NewRow(1, 1)

(* Only the subject s takes steps. *)
Alone(s) ==
  /\ subject = s /\ subject' = s
  /\ IF s = "deliveries" THEN UNCHANGED checkVars ELSE UNCHANGED vars

BeatNext ==
  \/ Alone("deliveries") /\ Next
  \/ Alone("check") /\ Checks!Next

(* The fairness of both.  The subject never changes, so weak fairness of   *)
(* the two tasks of Beat is weak fairness of each, and likewise of what    *)
(* expires and of what a worker goes on with.                              *)
Publishing ==
  \/ Alone("deliveries") /\ Recover
  \/ Alone("check") /\ Checks!Dispatch

Working(w) ==
  \/ Alone("deliveries") /\ GoesOn(w)
  \/ Alone("check") /\ Checks!WorkerStep(w)

BeatSpec ==
  /\ BeatInit /\ [][BeatNext]_allVars
  /\ WF_allVars(Publishing)
  /\ WF_allVars(Alone("check") /\ Checks!DeadLockExpires)
  /\ \A d \in Deliveries :
       /\ WF_allVars(Alone("deliveries") /\ DeadKeyExpires(d))
       /\ SF_allVars(Alone("deliveries") /\ \E w \in Workers : StartTask(w, d))
  /\ \A w \in Workers : WF_allVars(Working(w))

-----------------------------------------------------------------------------
(* A due check is observed, unless it is paused or its resource retired,   *)
(* even when the worker that holds its lock dies.                          *)
DueChecksRun == subject = "check" => Checks!DueChecksRun
=============================================================================
