-------------------------- MODULE MailboxSync_proofs --------------------------
(***************************************************************************)
(* Proofs about MailboxSync for any messages, workers and bounds.          *)
(***************************************************************************)
EXTENDS MailboxSync, TLAPS

(* A position of the log before which nothing is missing.                   *)
Complete(k) == k \in 0..Len(inbox) /\ \A n \in 1..k : Covered(n)

(* Every position that is saved, read or reached is complete.               *)
PositionsComplete ==
  /\ Complete(delta_link)
  /\ \A w \in Workers : Complete(link[w]) /\ Complete(done[w])

(* A worker with a page stands inside it; one at a message's files has its  *)
(* row.                                                                     *)
InsidePage ==
  \A w \in Workers :
    /\ page[w] <= Len(inbox)
    /\ pc[w] \in {"consume", "files"} => done[w] <= page[w]
    /\ pc[w] = "files" => /\ done[w] < page[w]
                          /\ inbox[done[w] + 1] \in ingested
                          /\ inbox[done[w] + 1] \in WithFiles

SyncInv == TypeOK /\ PositionsComplete /\ InsidePage

-----------------------------------------------------------------------------
(* The log only grows, and so do rows and quarantine.                       *)
LEMMA NothingIsUndone ==
  ASSUME SyncInv, [Next]_vars
  PROVE  /\ ingested \subseteq ingested' /\ quarantined \subseteq quarantined'
         /\ inbox' \in Seq(Messages)
         /\ Len(inbox) <= Len(inbox') /\ Len(inbox') \in Positions
         /\ \A n \in 1..Len(inbox) : inbox'[n] = inbox[n]
<1>0. inbox \in Seq(Messages) /\ Len(inbox) \in Positions
  BY DEF SyncInv, TypeOK
<1>1. ingested \subseteq ingested' /\ quarantined \subseteq quarantined'
  <2>1. ASSUME NEW w \in Workers, WorkerStep(w) \/ Crash(w)
        PROVE  ingested \subseteq ingested' /\ quarantined \subseteq quarantined'
    BY <2>1 DEF WorkerStep, StartTask, AcquireLock, FetchPage, Ingest, QuarantineFiles,
       NextPage, Checkpoint, RoundFails, Release, Crash, tickets
  <2>2. QED
    BY <2>1 DEF Next, vars, Change, SwitchMailbox, Dispatch, DeadLockExpires,
       LiveLockExpires, tickets
<1>2. inbox' = inbox \/ (Len(inbox) < MaxChanges /\ \E m \in Messages : inbox' = Append(inbox, m))
  <2>1. ASSUME NEW w \in Workers, WorkerStep(w) \/ Crash(w) PROVE inbox' = inbox
    BY <2>1 DEF WorkerStep, StartTask, AcquireLock, FetchPage, Ingest, QuarantineFiles,
       NextPage, Checkpoint, RoundFails, Release, Crash
  <2>2. QED
    BY <2>1 DEF Next, vars, Change, SwitchMailbox, Dispatch, DeadLockExpires,
       LiveLockExpires
<1>3. CASE inbox' = inbox
  BY <1>0, <1>1, <1>3
<1>4. ASSUME Len(inbox) < MaxChanges, NEW m \in Messages, inbox' = Append(inbox, m)
      PROVE  /\ inbox' \in Seq(Messages)
             /\ Len(inbox) <= Len(inbox') /\ Len(inbox') \in Positions
             /\ \A n \in 1..Len(inbox) : inbox'[n] = inbox[n]
  BY <1>0, <1>4, BoundsAssumption DEF Positions
<1>5. QED
  BY <1>1, <1>2, <1>3, <1>4

(* So a complete position stays complete.                                   *)
LEMMA CompleteStays ==
  ASSUME SyncInv, [Next]_vars, NEW k, Complete(k)
  PROVE  Complete(k)'
<1>1. Len(inbox) \in Nat /\ Len(inbox') \in Nat /\ Len(inbox) <= Len(inbox') /\ k \in 0..Len(inbox)
  BY NothingIsUndone, BoundsAssumption DEF Complete, SyncInv, TypeOK, Positions
<1>2. k \in 0..Len(inbox')
  BY <1>1
<1>3. ASSUME NEW n \in 1..k PROVE Covered(n)'
  <2>1. n \in 1..Len(inbox) /\ Covered(n)
    BY <1>1 DEF Complete
  <2>2. QED
    BY <2>1, NothingIsUndone DEF Covered
<1>4. QED
  BY <1>2, <1>3 DEF Complete

(* What Ingest and QuarantineFiles complete.                                *)
LEMMA OneFurther ==
  ASSUME SyncInv, [Next]_vars, NEW w \in Workers, NEW k, k = done[w] + 1,
         done[w] < page[w], Covered(k)'
  PROVE  Complete(k)' /\ k \in Positions
<1>1. /\ done[w] \in Nat /\ page[w] \in Nat /\ page[w] <= Len(inbox)
      /\ Len(inbox) \in Nat /\ Len(inbox') \in Nat /\ Len(inbox) <= Len(inbox')
      /\ Len(inbox) <= MaxChanges /\ MaxChanges \in Nat
  BY NothingIsUndone, BoundsAssumption DEF SyncInv, TypeOK, InsidePage, Positions
<1>2. PICK j : j = done[w] /\ Complete(j)
  BY DEF SyncInv, PositionsComplete
<1>3. Complete(j)'
  BY <1>2, CompleteStays
<1>4. k \in 0..Len(inbox') /\ k \in Positions
  BY <1>1 DEF Positions
<1>5. \A n \in 1..k : n \in 1..j \/ n = k
  BY <1>1, <1>2
<1>6. QED
  BY <1>3, <1>4, <1>5 DEF Complete

(* A worker that has moved on to a complete position.                       *)
LEMMA MovedOn ==
  ASSUME SyncInv, [Next]_vars, NEW w \in Workers, NEW k, Complete(k)',
         done' = [done EXCEPT ![w] = k], UNCHANGED <<delta_link, link>>
  PROVE  PositionsComplete'
<1>1. Complete(delta_link)' /\ \A v \in Workers : Complete(link[v])'
  BY CompleteStays DEF SyncInv, PositionsComplete
<1>2. ASSUME NEW v \in Workers PROVE Complete(done[v])'
  <2>1. CASE v = w
    BY <2>1 DEF SyncInv, TypeOK
  <2>2. CASE v # w
    BY <2>2, CompleteStays DEF SyncInv, TypeOK, PositionsComplete
  <2>3. QED
    BY <2>1, <2>2
<1>3. QED
  BY <1>1, <1>2 DEF PositionsComplete

-----------------------------------------------------------------------------
LEMMA InitialSync == Init => SyncInv
<1> SUFFICES ASSUME Init PROVE SyncInv
  OBVIOUS
<1> USE BoundsAssumption, IdentitiesAssumption DEF Init
<1>1. TypeOK
  BY DEF TypeOK, Positions, Running
<1>2. PositionsComplete
  BY DEF PositionsComplete, Complete
<1>3. InsidePage
  BY DEF InsidePage
<1>4. QED
  BY <1>1, <1>2, <1>3 DEF SyncInv

(* Steps that leave each worker's positions where they are.                 *)
LEMMA PositionsKept ==
  ASSUME SyncInv, [Next]_vars, UNCHANGED <<delta_link, link, done, page>>,
         \A w \in Workers : pc'[w] \in {"consume", "files"} => pc'[w] = pc[w]
  PROVE  PositionsComplete' /\ InsidePage'
<1>1. PositionsComplete'
  BY CompleteStays DEF SyncInv, PositionsComplete
<1>2. ASSUME NEW w \in Workers
      PROVE  /\ page[w] <= Len(inbox')
             /\ pc'[w] \in {"consume", "files"} => done[w] <= page[w]
             /\ pc'[w] = "files" => /\ done[w] < page[w]
                                    /\ inbox'[done[w] + 1] \in ingested'
                                    /\ inbox'[done[w] + 1] \in WithFiles
  <2>1. /\ page[w] \in Nat /\ done[w] \in Nat /\ page[w] <= Len(inbox)
        /\ Len(inbox) \in Nat /\ Len(inbox') \in Nat /\ Len(inbox) <= Len(inbox')
    BY NothingIsUndone, BoundsAssumption DEF SyncInv, TypeOK, InsidePage, Positions
  <2>2. page[w] <= Len(inbox')
    BY <2>1
  <2>3. CASE pc'[w] = "files"
    <3>1. /\ pc[w] = "files" /\ done[w] < page[w]
          /\ inbox[done[w] + 1] \in ingested /\ inbox[done[w] + 1] \in WithFiles
      BY <2>3 DEF SyncInv, InsidePage
    <3>2. done[w] + 1 \in 1..Len(inbox)
      BY <2>1, <3>1
    <3>3. inbox'[done[w] + 1] = inbox[done[w] + 1] /\ ingested \subseteq ingested'
      BY <3>2, NothingIsUndone
    <3>4. QED
      BY <2>1, <2>2, <3>1, <3>3
  <2>4. CASE pc'[w] # "files"
    BY <2>2, <2>4 DEF SyncInv, InsidePage
  <2>5. QED
    BY <2>3, <2>4
<1>3. InsidePage'
  BY <1>2 DEF InsidePage
<1>4. QED
  BY <1>1, <1>3

LEMMA SyncInvStep ==
  ASSUME SyncInv, [Next]_vars
  PROVE  SyncInv'
<1> DEFINE Goal == PositionsComplete' /\ InsidePage'
<1> HIDE DEF Goal
<1> USE BoundsAssumption, IdentitiesAssumption
<1>t. TypeOK
  BY DEF SyncInv
<1>i. inbox' \in Seq(Messages) /\ Len(inbox') \in Positions
  BY NothingIsUndone
<1>1. ASSUME NEW w \in Workers, StartTask(w) PROVE TypeOK' /\ Goal
  <2>1. TypeOK'
    BY <1>1, <1>t DEF StartTask, TypeOK, Goto, Positions, Running, mailbox, tickets, faults
  <2>2. PositionsComplete'
    BY <1>1, <1>t, CompleteStays DEF StartTask, SyncInv, PositionsComplete, TypeOK, mailbox
  <2>3. InsidePage'
    BY <1>1, <1>t DEF StartTask, SyncInv, InsidePage, TypeOK, Goto, tickets
  <2>4. QED
    BY <2>1, <2>2, <2>3 DEF Goal
<1>2. ASSUME NEW w \in Workers, AcquireLock(w) PROVE TypeOK' /\ Goal
  <2>1. TypeOK'
    BY <1>2, <1>t DEF AcquireLock, TypeOK, Goto, Positions, Running, mailbox, tickets, faults
  <2>2. PositionsComplete'
    BY <1>2, <1>t, CompleteStays DEF AcquireLock, SyncInv, PositionsComplete, TypeOK, mailbox
  <2>3. InsidePage'
    BY <1>2, <1>t DEF AcquireLock, SyncInv, InsidePage, TypeOK, Goto, tickets
  <2>4. QED
    BY <2>1, <2>2, <2>3 DEF Goal
<1>3. ASSUME NEW w \in Workers, FetchPage(w) PROVE TypeOK' /\ Goal
  <2>0. PICK end \in done[w]..Len(inbox) :
          /\ page' = [page EXCEPT ![w] = end]
          /\ more' = [more EXCEPT ![w] = IF end = Len(inbox) THEN "no" ELSE "yes"]
    BY <1>3 DEF FetchPage
  <2>e. end \in Positions /\ done[w] <= end /\ end <= Len(inbox)
    BY <1>t, <2>0 DEF TypeOK, Positions
  <2>1. TypeOK'
    BY <1>3, <1>t, <2>0, <2>e DEF FetchPage, TypeOK, Goto, Running, mailbox, tickets, faults
  <2>2. PositionsComplete'
    BY <1>3, CompleteStays DEF FetchPage, SyncInv, PositionsComplete, mailbox
  <2>3. InsidePage'
    BY <1>3, <1>t, <2>0, <2>e DEF FetchPage, SyncInv, InsidePage, TypeOK, Goto, tickets
  <2>4. QED
    BY <2>1, <2>2, <2>3 DEF Goal
<1>4. ASSUME NEW w \in Workers, Ingest(w) PROVE TypeOK' /\ Goal
  <2>0. /\ pc[w] = "consume" /\ done[w] < page[w] /\ page[w] <= Len(inbox)
        /\ done[w] \in Nat /\ page[w] \in Nat /\ Len(inbox) \in Nat
    BY <1>4, <1>t DEF Ingest, SyncInv, InsidePage, TypeOK, Positions
  <2>n. done[w] + 1 \in 1..Len(inbox)
    BY <2>0
  <2>m. inbox[done[w] + 1] \in Messages
    BY <1>t, <2>n DEF TypeOK
  <2>1. CASE inbox[done[w] + 1] \in WithFiles
    <3>0. /\ pc' = [pc EXCEPT ![w] = "files"]
          /\ ingested' = ingested \cup {inbox[done[w] + 1]}
          /\ UNCHANGED <<inbox, mailbox, eligible, quarantined, tasks, lock, link, done,
                         page, more, faults>>
      BY <1>4, <2>1 DEF Ingest, Goto
    <3>1. TypeOK'
      BY <1>t, <2>m, <3>0 DEF TypeOK, Positions, Running, mailbox, faults
    <3>2. PositionsComplete'
      BY <3>0, CompleteStays DEF SyncInv, PositionsComplete, mailbox
    <3>3. InsidePage'
      BY <1>t, <2>0, <2>1, <3>0 DEF SyncInv, InsidePage, TypeOK
    <3>4. QED
      BY <3>1, <3>2, <3>3 DEF Goal
  <2>2. CASE inbox[done[w] + 1] \notin WithFiles
    <3>k. PICK k : k = done[w] + 1
      OBVIOUS
    <3>0. /\ done' = [done EXCEPT ![w] = k]
          /\ ingested' = ingested \cup {inbox[k]}
          /\ UNCHANGED <<inbox, pc, mailbox, eligible, quarantined, tasks, lock, link,
                         page, more, faults>>
      BY <1>4, <2>2, <3>k DEF Ingest, Advance
    <3>c. Covered(k)'
      BY <2>2, <3>k, <3>0 DEF Covered
    <3>d. Complete(k)' /\ k \in Positions
      BY <2>0, <3>k, <3>c, OneFurther
    <3>1. TypeOK'
      BY <1>t, <2>m, <3>k, <3>0, <3>d DEF TypeOK, Running, mailbox, faults
    <3>2. PositionsComplete'
      BY <3>0, <3>d, MovedOn DEF mailbox
    <3>3. InsidePage'
      BY <1>t, <2>0, <3>k, <3>0 DEF SyncInv, InsidePage, TypeOK
    <3>4. QED
      BY <3>1, <3>2, <3>3 DEF Goal
  <2>3. QED
    BY <2>1, <2>2
<1>5. ASSUME NEW w \in Workers, QuarantineFiles(w) PROVE TypeOK' /\ Goal
  <2>0. /\ pc[w] = "files" /\ done[w] < page[w] /\ page[w] <= Len(inbox)
        /\ done[w] \in Nat /\ page[w] \in Nat /\ Len(inbox) \in Nat
        /\ inbox[done[w] + 1] \in ingested /\ inbox[done[w] + 1] \in WithFiles
    BY <1>5, <1>t DEF QuarantineFiles, SyncInv, InsidePage, TypeOK, Positions
  <2>k. PICK k : k = done[w] + 1
    OBVIOUS
  <2>1. /\ done' = [done EXCEPT ![w] = k]
        /\ pc' = [pc EXCEPT ![w] = "consume"]
        /\ quarantined' = quarantined \cup {inbox[k]}
        /\ UNCHANGED <<inbox, mailbox, eligible, ingested, tasks, lock, link, page, more,
                       faults>>
    BY <1>5, <2>k DEF QuarantineFiles, Advance, Goto
  <2>c. Covered(k)'
    BY <2>0, <2>k, <2>1 DEF Covered
  <2>d. Complete(k)' /\ k \in Positions
    BY <2>0, <2>k, <2>c, OneFurther
  <2>2. TypeOK'
    BY <1>t, <2>0, <2>k, <2>1, <2>d DEF TypeOK, Running, mailbox, faults
  <2>3. PositionsComplete'
    BY <2>1, <2>d, MovedOn DEF mailbox
  <2>4. InsidePage'
    BY <1>t, <2>0, <2>k, <2>1 DEF SyncInv, InsidePage, TypeOK
  <2>5. QED
    BY <2>2, <2>3, <2>4 DEF Goal
<1>6. ASSUME NEW w \in Workers, Checkpoint(w) PROVE TypeOK' /\ Goal
  <2>0. /\ pc[w] = "consume" /\ done[w] = page[w] /\ delta_link' = done[w]
        /\ pc' = [pc EXCEPT ![w] = "release"]
        /\ UNCHANGED <<inbox, tickets, link, done, page>>
    BY <1>6 DEF Checkpoint, Goto
  <2>1. TypeOK'
    BY <1>6, <1>t DEF Checkpoint, TypeOK, Goto, Running, tickets, faults
  <2>2. PositionsComplete'
    <3>1. Complete(done[w])' /\ \A v \in Workers : Complete(link[v])' /\ Complete(done[v])'
      BY <2>0, CompleteStays DEF SyncInv, PositionsComplete
    <3>2. (delta_link = done[w])'
      BY <2>0
    <3>3. QED
      BY <3>1, <3>2 DEF PositionsComplete
  <2>3. InsidePage'
    BY <1>t, <2>0 DEF SyncInv, InsidePage, TypeOK, tickets
  <2>4. QED
    BY <2>1, <2>2, <2>3 DEF Goal
<1>7. ASSUME NEW w \in Workers, NextPage(w) \/ RoundFails(w) \/ Release(w) \/ Crash(w)
      PROVE  TypeOK' /\ Goal
  <2>1. TypeOK'
    <3> USE <1>t DEF TypeOK, Goto, Running, mailbox, tickets
    <3>1. CASE NextPage(w)
      BY <3>1 DEF NextPage, faults
    <3>2. CASE RoundFails(w)
      BY <3>2 DEF RoundFails
    <3>3. CASE Release(w)
      BY <3>3 DEF Release, faults
    <3>4. CASE Crash(w)
      BY <3>4 DEF Crash
    <3>5. QED
      BY <1>7, <3>1, <3>2, <3>3, <3>4
  <2>2. UNCHANGED <<delta_link, link, done, page>>
    BY <1>7 DEF NextPage, RoundFails, Release, Crash, mailbox
  <2>3. \A v \in Workers : pc'[v] \in {"consume", "files"} => pc'[v] = pc[v]
    BY <1>7, <1>t DEF NextPage, RoundFails, Release, Crash, TypeOK, Goto
  <2>4. QED
    BY <2>1, <2>2, <2>3, PositionsKept DEF Goal
<1>8. CASE Change \/ SwitchMailbox \/ Dispatch \/ DeadLockExpires \/ LiveLockExpires
           \/ UNCHANGED vars
  <2>1. TypeOK'
    <3> USE <1>t, <1>i DEF TypeOK
    <3>1. CASE Change
      BY <3>1 DEF Change, mailbox, tickets, worker, faults
    <3>2. CASE SwitchMailbox
      BY <3>2 DEF SwitchMailbox, mailbox, tickets, worker
    <3>3. CASE Dispatch
      BY <3>3 DEF Dispatch, mailbox, tickets, worker, faults
    <3>4. CASE DeadLockExpires
      BY <3>4 DEF DeadLockExpires, mailbox, tickets, faults
    <3>5. CASE LiveLockExpires
      BY <3>5 DEF LiveLockExpires, mailbox, tickets
    <3>6. CASE UNCHANGED vars
      BY <3>6 DEF vars, mailbox, tickets, worker, faults
    <3>7. QED
      BY <1>8, <3>1, <3>2, <3>3, <3>4, <3>5, <3>6
  <2>2. UNCHANGED <<delta_link, link, done, page>> /\ pc' = pc
    BY <1>8 DEF Change, SwitchMailbox, Dispatch, DeadLockExpires, LiveLockExpires, vars,
       mailbox, worker
  <2>3. \A v \in Workers : pc'[v] \in {"consume", "files"} => pc'[v] = pc[v]
    BY <2>2
  <2>4. QED
    BY <2>1, <2>2, <2>3, PositionsKept DEF SyncInv
<1>9. QED
  BY <1>1, <1>2, <1>3, <1>4, <1>5, <1>6, <1>7, <1>8 DEF Next, WorkerStep, Goal, SyncInv

LEMMA SyncInvariant == Spec => []SyncInv
  BY InitialSync, SyncInvStep, PTL DEF Spec

(* Log, cursor, rows, lock and positions keep their types.                  *)
THEOREM TypeCorrect == Spec => []TypeOK
<1>1. SyncInv => TypeOK
  BY DEF SyncInv
<1>2. QED
  BY <1>1, SyncInvariant, PTL

(* sync_graph_mailbox never saves a link before which a message or a file   *)
(* is missing, even with two rounds at once under an expired lock.          *)
THEOREM NothingIsMissing == Spec => []CheckpointCovers
<1>1. SyncInv => CheckpointCovers
  BY DEF SyncInv, PositionsComplete, Complete, CheckpointCovers
<1>2. QED
  BY <1>1, SyncInvariant, PTL

-----------------------------------------------------------------------------
(* What the Redis lock secures while it outlives its holders: a worker at   *)
(* work owns it, and a last page reaches the saved link or beyond.          *)
HolderOwnsLock ==
  \A w \in Workers : pc[w] \in Running \cup {"release"} => lock = w

LastPageIsAhead ==
  \A w \in Workers :
    pc[w] \in {"consume", "files"} /\ more[w] = "no" => delta_link <= page[w]

LockInv == SyncInv /\ HolderOwnsLock /\ LastPageIsAhead

(* No step takes an expiry back.                                            *)
LEMMA ExpiriesGrow ==
  ASSUME TypeOK, [Next]_vars, expiries' = 0
  PROVE  expiries = 0 /\ ~LiveLockExpires
<1>1. expiries \in Nat
  BY DEF TypeOK
<1>2. ASSUME ~LiveLockExpires PROVE expiries' = expiries
  BY <1>2 DEF Next, WorkerStep, StartTask, AcquireLock, FetchPage, Ingest, QuarantineFiles,
     NextPage, Checkpoint, RoundFails, Release, Crash, Change, SwitchMailbox, Dispatch,
     DeadLockExpires, vars, faults
<1>3. ~LiveLockExpires
  BY <1>1 DEF LiveLockExpires
<1>4. QED
  BY <1>2, <1>3

LEMMA HolderOwnsLockStep ==
  ASSUME ~LiveLockExpires, LockInv, [Next]_vars
  PROVE  HolderOwnsLock'
<1> USE IdentitiesAssumption DEF LockInv, SyncInv, TypeOK, HolderOwnsLock, Running, Goto
<1>1. ASSUME NEW w \in Workers, StartTask(w) PROVE HolderOwnsLock'
  BY <1>1 DEF StartTask
<1>2. ASSUME NEW w \in Workers, AcquireLock(w) PROVE HolderOwnsLock'
  BY <1>2 DEF AcquireLock
<1>3. ASSUME NEW w \in Workers, FetchPage(w) PROVE HolderOwnsLock'
  BY <1>3 DEF FetchPage
<1>4. ASSUME NEW w \in Workers, Ingest(w) PROVE HolderOwnsLock'
  <2>1. lock' = lock /\ (pc' = pc \/ pc' = [pc EXCEPT ![w] = "files"]) /\ pc[w] = "consume"
    BY <1>4 DEF Ingest
  <2>2. QED
    BY <2>1
<1>5. ASSUME NEW w \in Workers, QuarantineFiles(w) \/ NextPage(w) PROVE HolderOwnsLock'
  BY <1>5 DEF QuarantineFiles, NextPage
<1>6. ASSUME NEW w \in Workers, Checkpoint(w) \/ RoundFails(w) PROVE HolderOwnsLock'
  BY <1>6 DEF Checkpoint, RoundFails
<1>7. ASSUME NEW w \in Workers, Release(w) PROVE HolderOwnsLock'
  BY <1>7 DEF Release
<1>8. ASSUME NEW w \in Workers, Crash(w) PROVE HolderOwnsLock'
  BY <1>8 DEF Crash
<1>9. CASE DeadLockExpires
  BY <1>9 DEF DeadLockExpires
<1>10. CASE Change \/ SwitchMailbox \/ Dispatch \/ UNCHANGED vars
  BY <1>10 DEF Change, SwitchMailbox, Dispatch, vars, worker
<1>11. QED
  BY <1>1, <1>2, <1>3, <1>4, <1>5, <1>6, <1>7, <1>8, <1>9, <1>10 DEF Next, WorkerStep

(* Only a checkpoint moves the link, and never back.                        *)
LEMMA CheckpointAdvances ==
  ASSUME LockInv, [Next]_vars
  PROVE  delta_link' >= delta_link
<1>0. delta_link \in Nat
  BY BoundsAssumption DEF LockInv, SyncInv, TypeOK, Positions
<1>1. ASSUME NEW w \in Workers, Checkpoint(w) PROVE delta_link' >= delta_link
  <2>1. page[w] \in Nat
    BY BoundsAssumption DEF LockInv, SyncInv, TypeOK, Positions
  <2>2. QED
    BY <1>0, <1>1, <2>1 DEF Checkpoint, LockInv, LastPageIsAhead
<1>2. ASSUME \A w \in Workers : ~Checkpoint(w) PROVE delta_link' = delta_link
  BY <1>2 DEF Next, WorkerStep, StartTask, AcquireLock, FetchPage, Ingest, QuarantineFiles,
     NextPage, RoundFails, Release, Crash, Change, SwitchMailbox, Dispatch, DeadLockExpires,
     LiveLockExpires, vars, mailbox
<1>3. QED
  BY <1>0, <1>1, <1>2

LEMMA LastPageIsAheadStep ==
  ASSUME LockInv, [Next]_vars
  PROVE  LastPageIsAhead'
<1> USE DEF LockInv, SyncInv, TypeOK, LastPageIsAhead, Goto
<1>0. delta_link \in Nat /\ delta_link <= Len(inbox) /\ Len(inbox) \in Nat
  BY BoundsAssumption DEF PositionsComplete, Complete, Positions
<1>1. ASSUME NEW w \in Workers, FetchPage(w) PROVE LastPageIsAhead'
  <2>1. PICK end \in done[w]..Len(inbox) :
          /\ page' = [page EXCEPT ![w] = end]
          /\ more' = [more EXCEPT ![w] = IF end = Len(inbox) THEN "no" ELSE "yes"]
    BY <1>1 DEF FetchPage
  <2>2. pc' = [pc EXCEPT ![w] = "consume"] /\ delta_link' = delta_link
    BY <1>1 DEF FetchPage, mailbox
  <2>3. QED
    BY <1>0, <2>1, <2>2
<1>2. ASSUME NEW w \in Workers, Checkpoint(w) PROVE LastPageIsAhead'
  <2>1. pc' = [pc EXCEPT ![w] = "release"] /\ pc[w] = "consume"
    BY <1>2 DEF Checkpoint
  <2>2. \A v \in Workers : pc'[v] \notin {"consume", "files"}
    BY <2>1 DEF HolderOwnsLock, Running
  <2>3. QED
    BY <2>2
<1>3. ASSUME NEW w \in Workers, Ingest(w) PROVE LastPageIsAhead'
  <2>1. /\ pc' = pc \/ pc' = [pc EXCEPT ![w] = "files"]
        /\ pc[w] = "consume" /\ UNCHANGED <<delta_link, page, more>>
    BY <1>3 DEF Ingest, mailbox
  <2>2. QED
    BY <2>1
<1>4. ASSUME NEW w \in Workers, QuarantineFiles(w) PROVE LastPageIsAhead'
  BY <1>4 DEF QuarantineFiles, mailbox
<1>5. ASSUME NEW w \in Workers, StartTask(w) \/ AcquireLock(w) \/ NextPage(w)
      PROVE  LastPageIsAhead'
  BY <1>5 DEF StartTask, AcquireLock, NextPage, mailbox
<1>6. ASSUME NEW w \in Workers, RoundFails(w) \/ Release(w) \/ Crash(w)
      PROVE  LastPageIsAhead'
  BY <1>6 DEF RoundFails, Release, Crash, mailbox
<1>7. CASE Change \/ SwitchMailbox \/ Dispatch \/ DeadLockExpires \/ LiveLockExpires
           \/ UNCHANGED vars
  BY <1>7 DEF Change, SwitchMailbox, Dispatch, DeadLockExpires, LiveLockExpires, vars,
     mailbox, worker
<1>8. QED
  BY <1>1, <1>2, <1>3, <1>4, <1>5, <1>6, <1>7 DEF Next, WorkerStep

LEMMA LockInvariant == Spec => [](expiries = 0 => LockInv)
<1>1. SyncInv /\ Init => (expiries = 0 => LockInv)
  BY DEF Init, LockInv, HolderOwnsLock, LastPageIsAhead, Running
<1>2. ASSUME SyncInv, SyncInv', expiries = 0 => LockInv, [Next]_vars, expiries' = 0
      PROVE  LockInv'
  <2>1. LockInv /\ ~LiveLockExpires
    BY <1>2, ExpiriesGrow DEF SyncInv
  <2>2. HolderOwnsLock' /\ LastPageIsAhead'
    BY <1>2, <2>1, HolderOwnsLockStep, LastPageIsAheadStep
  <2>3. QED
    BY <1>2, <2>2 DEF LockInv
<1>3. SyncInv /\ SyncInv' /\ (expiries = 0 => LockInv) /\ [Next]_vars =>
        (expiries = 0 => LockInv)'
  BY <1>2
<1>4. QED
  BY <1>1, <1>3, SyncInvariant, PTL DEF Spec

(* The saved delta link never moves back until a lock expires under its     *)
(* holder: not even for a worker that read the link before it had the lock. *)
THEOREM LinkAdvances == Spec => LinkNeverGoesBack
<1>1. SyncInv /\ (expiries = 0 => LockInv) /\ [Next]_vars =>
        [expiries' = 0 => delta_link' >= delta_link]_vars
  BY ExpiriesGrow, CheckpointAdvances DEF SyncInv
<1>2. QED
  BY <1>1, SyncInvariant, LockInvariant, PTL DEF Spec, LinkNeverGoesBack
=============================================================================
