----------------------------- MODULE OutboundMail -----------------------------
(***************************************************************************)
(* What the delivery of a ticket message promises, without queues, locks   *)
(* or workers: a message is written once, copies of it go out one at a     *)
(* time, a copy may have to be written off because nobody learned of it,   *)
(* only then may another go out, and a delivery that is recorded is over.  *)
(***************************************************************************)
EXTENDS Integers

CONSTANT Messages

VARIABLES
  stage,    \* "none", "open" or "delivered"
  copies,   \* copies the provider accepted
  excuses   \* copies that were written off

vars == <<stage, copies, excuses>>

Init ==
  /\ stage = [m \in Messages |-> "none"]
  /\ copies = [m \in Messages |-> 0]
  /\ excuses = [m \in Messages |-> 0]

Write(m) ==
  /\ stage[m] = "none"
  /\ stage' = [stage EXCEPT ![m] = "open"]
  /\ UNCHANGED <<copies, excuses>>

(* A copy goes out when every earlier one has been written off. *)
Transmit(m) ==
  /\ stage[m] = "open"
  /\ copies[m] = excuses[m]
  /\ copies' = [copies EXCEPT ![m] = @ + 1]
  /\ UNCHANGED <<stage, excuses>>

(* A copy goes out and nobody learns of it. *)
TransmitUnseen(m) ==
  /\ stage[m] = "open"
  /\ copies[m] = excuses[m]
  /\ copies' = [copies EXCEPT ![m] = @ + 1]
  /\ excuses' = [excuses EXCEPT ![m] = @ + 1]
  /\ UNCHANGED stage

WriteOff(m) ==
  /\ stage[m] = "open"
  /\ copies[m] = excuses[m] + 1
  /\ excuses' = [excuses EXCEPT ![m] = @ + 1]
  /\ UNCHANGED <<stage, copies>>

Deliver(m) ==
  /\ stage[m] = "open"
  /\ copies[m] = excuses[m] + 1
  /\ stage' = [stage EXCEPT ![m] = "delivered"]
  /\ UNCHANGED <<copies, excuses>>

Next ==
  \E m \in Messages :
    Write(m) \/ Transmit(m) \/ TransmitUnseen(m) \/ WriteOff(m) \/ Deliver(m)

Spec == Init /\ [][Next]_vars
=============================================================================
