-------------------------- MODULE StoredRecords_proofs --------------------------
(***************************************************************************)
(* Proofs about what StoredRecords composes, for any content, any workers, *)
(* editors and uploads and any bounds: first AttachmentScan, then          *)
(* KnowledgeAttachment and KnowledgeDocument, each as a specification of   *)
(* its own, then all of them with TimeTracking (whose proofs are in        *)
(* TimeTracking_proofs) as RecordsSpec composes them.  In AttachmentScan   *)
(* what depends on the lock is proved up to the first lock that expires    *)
(* under its holder.                                                       *)
(***************************************************************************)
EXTENDS StoredRecords, TimeTracking_proofs

-----------------------------------------------------------------------------
(* Ticket attachments.                                                     *)

(* Publishing and taking a task keeps the broker's counters in range.       *)
LEMMA QueueUpdate ==
  ASSUME TypeOK, NEW a \in Attempts
  PROVE  /\ tasks[a] < MaxTasks =>
              [tasks EXCEPT ![a] = @ + 1] \in [Attempts -> 0..MaxTasks]
         /\ tasks[a] > 0 => [tasks EXCEPT ![a] = @ - 1] \in [Attempts -> 0..MaxTasks]
<1>1. MaxTasks \in Nat /\ tasks[a] \in 0..MaxTasks
  BY BoundsAssumption DEF TypeOK
<1>2. tasks[a] < MaxTasks => tasks[a] + 1 \in 0..MaxTasks
  BY <1>1
<1>3. tasks[a] > 0 => tasks[a] - 1 \in 0..MaxTasks
  BY <1>1
<1>4. QED
  BY <1>2, <1>3 DEF TypeOK

(* The variables keep their types: every status, lock owner and attempt     *)
(* number is one that the tasks and models write.                           *)
THEOREM ScanTypeCorrect == Spec => []TypeOK
<1> USE IdentitiesAssumption, BoundsAssumption
<1>1. Init => TypeOK
  BY DEF Init, TypeOK, Statuses, Attempts, Holding
<1>2. TypeOK /\ [Next]_vars => TypeOK'
  <2> SUFFICES ASSUME TypeOK, [Next]_vars PROVE TypeOK'
    OBVIOUS
  <2>t. 0 \in Attempts
    BY DEF Attempts
  <2> USE DEF TypeOK, Statuses, Terminal, Holding, Goto, worker, faults
  <2>1. CASE Quarantine
    BY <2>1 DEF Quarantine
  <2>2. CASE Publish
    BY <2>2, <2>t, QueueUpdate DEF Publish, Enqueued
  <2>3. ASSUME NEW w \in Workers, WorkerStep(w) PROVE TypeOK'
    <3>1. CASE StartTask(w)
      <4>1. PICK a \in Attempts :
              /\ tasks[a] > 0
              /\ tasks' = [tasks EXCEPT ![a] = @ - 1]
              /\ attempt' = [attempt EXCEPT ![w] = a]
        BY <3>1 DEF StartTask
      <4>2. tasks' \in [Attempts -> 0..MaxTasks]
        BY <4>1, QueueUpdate
      <4>3. QED
        BY <3>1, <4>1, <4>2 DEF StartTask
    <3>2. CASE AcquireLock(w)
      BY <3>2 DEF AcquireLock
    <3>3. CASE Refresh(w)
      BY <3>3 DEF Refresh
    <3>4. CASE MarkScanning(w)
      BY <3>4 DEF MarkScanning
    <3>5. CASE RecordVerdict(w)
      BY <3>5 DEF RecordVerdict
    <3>6. CASE ScanFails(w)
      BY <3>6 DEF ScanFails
    <3>7. CASE NoScanner(w)
      BY <3>7 DEF NoScanner
    <3>8. CASE SaveRaises(w)
      BY <3>8 DEF SaveRaises
    <3>9. CASE Release(w)
      BY <3>9 DEF Release, ReleasedBy
    <3>10. CASE ReleaseAndRetry(w)
      <4>1. attempt[w] < MaxRetries => attempt[w] + 1 \in Attempts
        BY DEF Attempts
      <4>2. tasks' \in [Attempts -> 0..MaxTasks]
        BY <3>10, <4>1, QueueUpdate DEF ReleaseAndRetry, Enqueued
      <4>3. QED
        BY <3>10, <4>2 DEF ReleaseAndRetry, ReleasedBy
    <3>11. QED
      BY <2>3, <3>1, <3>2, <3>3, <3>4, <3>5, <3>6, <3>7, <3>8, <3>9, <3>10 DEF WorkerStep
  <2>4. ASSUME NEW w \in Workers, Crash(w) PROVE TypeOK'
    BY <2>4 DEF Crash
  <2>5. CASE DeadLockExpires
    BY <2>5 DEF DeadLockExpires
  <2>6. CASE LiveLockExpires
    BY <2>6 DEF LiveLockExpires
  <2>7. CASE SwitchScanning
    BY <2>7 DEF SwitchScanning
  <2>8. CASE UNCHANGED vars
    BY <2>8 DEF vars
  <2>9. QED
    BY <2>1, <2>2, <2>3, <2>4, <2>5, <2>6, <2>7, <2>8 DEF Next
<1>3. QED
  BY <1>1, <1>2, PTL DEF Spec

-----------------------------------------------------------------------------
(* While the deployment scans, attachment_is_downloadable refuses malware,  *)
(* however often locks expire: only a clean verdict writes SAFE.            *)
THEOREM MalwareStaysHeld == Spec => []MalwareHeld
<1> DEFINE NotSafe == Content = "malware" => status # "safe"
<1>1. Init => NotSafe
  BY DEF Init
<1>2. NotSafe /\ [Next]_vars => NotSafe'
  <2> SUFFICES ASSUME NotSafe, [Next]_vars, Content = "malware" PROVE status' # "safe"
    OBVIOUS
  <2>1. ASSUME NEW w \in Workers, WorkerStep(w) PROVE status' # "safe"
    BY <2>1 DEF WorkerStep, StartTask, AcquireLock, Refresh, MarkScanning, RecordVerdict,
       ScanFails, NoScanner, SaveRaises, Release, ReleaseAndRetry
  <2>2. ASSUME NEW w \in Workers, Crash(w) PROVE status' # "safe"
    BY <2>2 DEF Crash
  <2>3. CASE Quarantine \/ Publish \/ DeadLockExpires \/ LiveLockExpires \/ SwitchScanning
    BY <2>3 DEF Quarantine, Publish, DeadLockExpires, LiveLockExpires, SwitchScanning
  <2>4. QED
    BY <2>1, <2>2, <2>3 DEF Next, vars
<1>3. NotSafe => MalwareHeld
  BY DEF MalwareHeld, Downloadable
<1>4. QED
  BY <1>1, <1>2, <1>3, PTL DEF Spec

-----------------------------------------------------------------------------
(* What the lock secures.                                                   *)

(* A worker in the locked section owns the lock.                            *)
HolderOwnsLock == \A w \in Workers : pc[w] \in Holding => lock = w

(* What Refresh read stays true until the worker is done.                   *)
RefreshStillTrue ==
  \A w \in Workers : pc[w] \in {"refreshed", "scanning"} => status \notin Terminal

(* Nothing is published and nobody works before there is a row.             *)
NothingWithoutRow ==
  status = "none" => /\ \A a \in Attempts : tasks[a] = 0
                     /\ \A w \in Workers : pc[w] = "idle"

FoundIsRecorded == found = "yes" => status = "infected"

ScanInv ==
  /\ TypeOK
  /\ HolderOwnsLock
  /\ RefreshStillTrue
  /\ NothingWithoutRow
  /\ FoundIsRecorded

(* No step takes an expiry back.                                            *)
LEMMA ExpiriesGrow ==
  ASSUME TypeOK, [Next]_vars, expiries' = 0
  PROVE  expiries = 0 /\ ~LiveLockExpires
<1> USE DEF TypeOK, faults
<1>1. ASSUME NEW w \in Workers, WorkerStep(w) PROVE expiries' = expiries
  BY <1>1 DEF WorkerStep, StartTask, AcquireLock, Refresh, MarkScanning, RecordVerdict,
     ScanFails, NoScanner, SaveRaises, Release, ReleaseAndRetry
<1>2. ASSUME NEW w \in Workers, Crash(w) PROVE expiries' = expiries
  BY <1>2 DEF Crash
<1>3. CASE Quarantine \/ Publish \/ DeadLockExpires \/ SwitchScanning \/ UNCHANGED vars
  BY <1>3 DEF Quarantine, Publish, DeadLockExpires, SwitchScanning, vars, LiveLockExpires
<1>4. ~LiveLockExpires
  BY DEF LiveLockExpires
<1>5. QED
  BY <1>1, <1>2, <1>3, <1>4 DEF Next

LEMMA HolderOwnsLockStep ==
  ASSUME ~LiveLockExpires, ScanInv, [Next]_vars
  PROVE  HolderOwnsLock'
<1> USE IdentitiesAssumption DEF ScanInv, TypeOK, HolderOwnsLock, Holding, Goto, worker, faults
<1>1. ASSUME NEW w \in Workers, WorkerStep(w) PROVE HolderOwnsLock'
  <2>1. CASE StartTask(w)
    BY <2>1 DEF StartTask
  <2>2. CASE AcquireLock(w)
    BY <2>2 DEF AcquireLock
  <2>3. CASE Refresh(w)
    BY <2>3 DEF Refresh
  <2>4. CASE MarkScanning(w)
    BY <2>4 DEF MarkScanning
  <2>5. CASE RecordVerdict(w)
    BY <2>5 DEF RecordVerdict
  <2>6. CASE ScanFails(w)
    BY <2>6 DEF ScanFails
  <2>7. CASE NoScanner(w)
    BY <2>7 DEF NoScanner
  <2>8. CASE SaveRaises(w)
    BY <2>8 DEF SaveRaises
  <2>9. CASE Release(w)
    BY <2>9 DEF Release, ReleasedBy
  <2>10. CASE ReleaseAndRetry(w)
    BY <2>10 DEF ReleaseAndRetry, ReleasedBy
  <2>11. QED
    BY <1>1, <2>1, <2>2, <2>3, <2>4, <2>5, <2>6, <2>7, <2>8, <2>9, <2>10 DEF WorkerStep
<1>2. ASSUME NEW w \in Workers, Crash(w) PROVE HolderOwnsLock'
  BY <1>2 DEF Crash
<1>3. CASE DeadLockExpires
  BY <1>3 DEF DeadLockExpires
<1>4. CASE Quarantine \/ Publish \/ SwitchScanning \/ UNCHANGED vars
  BY <1>4 DEF Quarantine, Publish, SwitchScanning, vars
<1>5. QED
  BY <1>1, <1>2, <1>3, <1>4 DEF Next

LEMMA RefreshStillTrueStep ==
  ASSUME ScanInv, [Next]_vars
  PROVE  RefreshStillTrue'
<1> USE DEF ScanInv, TypeOK, RefreshStillTrue, Terminal, Goto, worker, faults
<1>o. \A v, w \in Workers : pc[v] \in Holding /\ pc[w] \in Holding => v = w
  BY DEF HolderOwnsLock
<1>1. ASSUME NEW w \in Workers, WorkerStep(w) PROVE RefreshStillTrue'
  <2>1. CASE StartTask(w)
    BY <2>1 DEF StartTask
  <2>2. CASE AcquireLock(w)
    BY <2>2 DEF AcquireLock
  <2>3. CASE Refresh(w)
    BY <2>3 DEF Refresh
  <2>4. CASE MarkScanning(w)
    BY <2>4 DEF MarkScanning
  <2>5. CASE RecordVerdict(w)
    <3>1. pc[w] = "scanning" /\ pc' = [pc EXCEPT ![w] = "release"]
      BY <2>5 DEF RecordVerdict
    <3>2. \A v \in Workers : pc'[v] \notin {"refreshed", "scanning"}
      BY <1>o, <3>1 DEF Holding
    <3>3. QED
      BY <3>2
  <2>6. CASE ScanFails(w)
    BY <2>6 DEF ScanFails
  <2>7. CASE NoScanner(w)
    BY <2>7 DEF NoScanner
  <2>8. CASE SaveRaises(w)
    BY <2>8 DEF SaveRaises
  <2>9. CASE Release(w)
    BY <2>9 DEF Release
  <2>10. CASE ReleaseAndRetry(w)
    BY <2>10 DEF ReleaseAndRetry
  <2>11. QED
    BY <1>1, <2>1, <2>2, <2>3, <2>4, <2>5, <2>6, <2>7, <2>8, <2>9, <2>10 DEF WorkerStep
<1>2. ASSUME NEW w \in Workers, Crash(w) PROVE RefreshStillTrue'
  BY <1>2 DEF Crash
<1>3. CASE Quarantine
  BY <1>3 DEF Quarantine, NothingWithoutRow
<1>4. CASE Publish \/ DeadLockExpires \/ LiveLockExpires \/ SwitchScanning \/ UNCHANGED vars
  BY <1>4 DEF Publish, DeadLockExpires, LiveLockExpires, SwitchScanning, vars
<1>5. QED
  BY <1>1, <1>2, <1>3, <1>4 DEF Next

LEMMA NothingWithoutRowStep ==
  ASSUME ScanInv, [Next]_vars
  PROVE  NothingWithoutRow'
<1> USE DEF ScanInv, NothingWithoutRow
<1>1. ASSUME NEW w \in Workers, WorkerStep(w) PROVE NothingWithoutRow'
  <2>1. status # "none"
    BY <1>1 DEF WorkerStep, StartTask, AcquireLock, Refresh, MarkScanning, RecordVerdict,
       ScanFails, NoScanner, SaveRaises, Release, ReleaseAndRetry
  <2>2. status' # "none"
    BY <1>1, <2>1 DEF WorkerStep, StartTask, AcquireLock, Refresh, MarkScanning,
       RecordVerdict, ScanFails, NoScanner, SaveRaises, Release, ReleaseAndRetry
  <2>3. QED
    BY <2>2
<1>2. ASSUME NEW w \in Workers, Crash(w) PROVE NothingWithoutRow'
  BY <1>2 DEF Crash
<1>3. CASE Quarantine
  BY <1>3 DEF Quarantine
<1>4. CASE Publish
  BY <1>4 DEF Publish
<1>5. CASE DeadLockExpires \/ LiveLockExpires \/ SwitchScanning \/ UNCHANGED vars
  BY <1>5 DEF DeadLockExpires, LiveLockExpires, SwitchScanning, vars, worker
<1>6. QED
  BY <1>1, <1>2, <1>3, <1>4, <1>5 DEF Next

LEMMA FoundIsRecordedStep ==
  ASSUME ScanInv, [Next]_vars
  PROVE  FoundIsRecorded'
<1> USE DEF ScanInv, FoundIsRecorded
<1>1. ASSUME NEW w \in Workers, WorkerStep(w) PROVE FoundIsRecorded'
  <2>1. CASE MarkScanning(w)
    BY <2>1 DEF MarkScanning, RefreshStillTrue, Terminal
  <2>2. CASE RecordVerdict(w)
    BY <2>2 DEF RecordVerdict, RefreshStillTrue, Terminal
  <2>3. CASE ScanFails(w)
    BY <2>3 DEF ScanFails, RefreshStillTrue, Terminal
  <2>4. CASE \/ StartTask(w) \/ AcquireLock(w) \/ Refresh(w) \/ NoScanner(w)
             \/ SaveRaises(w) \/ Release(w) \/ ReleaseAndRetry(w)
    BY <2>4 DEF StartTask, AcquireLock, Refresh, NoScanner, SaveRaises, Release,
       ReleaseAndRetry
  <2>5. QED
    BY <1>1, <2>1, <2>2, <2>3, <2>4 DEF WorkerStep
<1>2. ASSUME NEW w \in Workers, Crash(w) PROVE FoundIsRecorded'
  BY <1>2 DEF Crash
<1>3. CASE Quarantine
  BY <1>3 DEF Quarantine
<1>4. CASE Publish \/ DeadLockExpires \/ LiveLockExpires \/ SwitchScanning \/ UNCHANGED vars
  BY <1>4 DEF Publish, DeadLockExpires, LiveLockExpires, SwitchScanning, vars
<1>5. QED
  BY <1>1, <1>2, <1>3, <1>4 DEF Next

LEMMA ScanInvariant == Spec => [](expiries = 0 => ScanInv)
<1>1. Init => HolderOwnsLock /\ RefreshStillTrue /\ NothingWithoutRow /\ FoundIsRecorded
  BY DEF Init, HolderOwnsLock, RefreshStillTrue, NothingWithoutRow, FoundIsRecorded,
     Holding, Terminal
<1>2. ASSUME TypeOK, TypeOK', expiries = 0 => ScanInv, [Next]_vars, expiries' = 0
      PROVE  ScanInv'
  <2>1. ScanInv /\ ~LiveLockExpires
    BY <1>2, ExpiriesGrow
  <2>2. HolderOwnsLock' /\ RefreshStillTrue' /\ NothingWithoutRow' /\ FoundIsRecorded'
    BY <1>2, <2>1, HolderOwnsLockStep, RefreshStillTrueStep, NothingWithoutRowStep,
       FoundIsRecordedStep
  <2>3. QED
    BY <1>2, <2>2 DEF ScanInv
<1>3. TypeOK /\ Init => (expiries = 0 => ScanInv)
  BY <1>1 DEF ScanInv
<1>4. TypeOK /\ TypeOK' /\ (expiries = 0 => ScanInv) /\ [Next]_vars =>
        (expiries = 0 => ScanInv)'
  BY <1>2
<1>5. QED
  BY <1>3, <1>4, ScanTypeCorrect, PTL DEF Spec

(* Malware that a scan has found is never served again, whatever retries,   *)
(* duplicated tasks, crashes and switches of the deployment follow, until a *)
(* scan lock expires under its holder.                                      *)
THEOREM InfectedStaysHeld == Spec => []InfectedNeverServed
<1>1. (expiries = 0 => ScanInv) => InfectedNeverServed
  BY DEF ScanInv, FoundIsRecorded, InfectedNeverServed, Downloadable
<1>2. QED
  BY <1>1, ScanInvariant, PTL

(* The row keeps the promise of QuarantineGate until a scan lock expires    *)
(* under its holder: a verdict is written once, is true and is final.       *)
THEOREM ScanKeepsTheGate == Spec => KeepsTheGate
<1>1. Init => Gate!Init
  BY DEF Init, Gate!Init, Verdict
<1>2. TypeOK /\ (expiries = 0 => ScanInv) /\ [Next]_vars =>
        [expiries' = 0 => Gate!Next]_(Gate!vars)
  <2> SUFFICES ASSUME TypeOK, expiries = 0 => ScanInv, [Next]_vars, expiries' = 0
               PROVE  [Gate!Next]_(Gate!vars)
    OBVIOUS
  <2>0. ScanInv /\ ~LiveLockExpires
    BY ExpiriesGrow
  <2> USE <2>0 DEF ScanInv
  <2>1. ASSUME status' = status, policy' = policy PROVE [Gate!Next]_(Gate!vars)
    BY <2>1 DEF Gate!vars, Verdict
  <2>2. ASSUME NEW w \in Workers, WorkerStep(w) PROVE [Gate!Next]_(Gate!vars)
    <3>1. CASE MarkScanning(w)
      BY <3>1 DEF MarkScanning, RefreshStillTrue, Terminal, Verdict, Gate!vars
    <3>2. CASE RecordVerdict(w)
      <4>1. Verdict = "none"
        BY <3>2 DEF RecordVerdict, RefreshStillTrue, Terminal, Verdict
      <4>2. /\ Verdict' = IF Content = "clean" THEN "clean" ELSE "infected"
            /\ policy' = policy
        BY <3>2 DEF RecordVerdict, Verdict
      <4>3. QED
        BY <4>1, <4>2 DEF Gate!Next, Gate!Decide
    <3>3. CASE ScanFails(w)
      BY <3>3 DEF ScanFails, RefreshStillTrue, Terminal, Verdict, Gate!vars
    <3>4. CASE \/ StartTask(w) \/ AcquireLock(w) \/ Refresh(w) \/ NoScanner(w)
               \/ SaveRaises(w) \/ Release(w) \/ ReleaseAndRetry(w)
      BY <3>4, <2>1 DEF StartTask, AcquireLock, Refresh, NoScanner, SaveRaises, Release,
         ReleaseAndRetry
    <3>5. QED
      BY <2>2, <3>1, <3>2, <3>3, <3>4 DEF WorkerStep
  <2>3. ASSUME NEW w \in Workers, Crash(w) PROVE [Gate!Next]_(Gate!vars)
    BY <2>3, <2>1 DEF Crash
  <2>4. CASE Quarantine
    BY <2>4 DEF Quarantine, Verdict, Gate!vars, Gate!Next, Gate!Refuse
  <2>5. CASE SwitchScanning
    <3>1. Verdict' = Verdict /\ policy' \in {"on", "off"}
      BY <2>5 DEF SwitchScanning, Verdict
    <3>2. QED
      BY <3>1 DEF Gate!Next, Gate!ChangePolicy
  <2>6. CASE Publish \/ DeadLockExpires \/ UNCHANGED vars
    BY <2>6, <2>1 DEF Publish, DeadLockExpires, vars
  <2>7. QED
    BY <2>0, <2>2, <2>3, <2>4, <2>5, <2>6 DEF Next
<1>3. QED
  BY <1>1, <1>2, ScanInvariant, ScanTypeCorrect, PTL DEF Spec, KeepsTheGate

(* Quarantine holds: both halves of the property that the run checks.      *)
THEOREM QuarantineStays == Spec => []QuarantineHolds
BY MalwareStaysHeld, InfectedStaysHeld, PTL DEF QuarantineHolds

-----------------------------------------------------------------------------
(* Knowledge Base attachments.                                             *)

(* The variables keep their types: the statuses are those of the model.     *)
THEOREM KbTypeCorrect == KbSpec => []KbTypeOK
<1> USE KbBoundsAssumption
<1>1. KbInit => KbTypeOK
  BY DEF KbInit, KbTypeOK, Verdicts
<1>2. KbTypeOK /\ [KbNext]_kb_vars => KbTypeOK'
  <2> SUFFICES ASSUME KbTypeOK, [KbNext]_kb_vars PROVE KbTypeOK'
    OBVIOUS
  <2> USE DEF KbTypeOK, Verdicts, kb_faults
  <2>1. CASE StoreFile \/ InsertFails \/ DeleteRow \/ RemoveFile
    BY <2>1 DEF StoreFile, InsertFails, DeleteRow, RemoveFile
  <2>2. CASE InsertRow
    <3>1. kb_tasks' \in 0..KbMaxTasks
      BY <2>2 DEF InsertRow
    <3>2. QED
      BY <2>2, <3>1 DEF InsertRow
  <2>3. CASE RequestDies
    BY <2>3 DEF RequestDies
  <2>4. CASE Backfill
    BY <2>4 DEF Backfill
  <2>5. CASE KbSwitchScanning
    BY <2>5 DEF KbSwitchScanning
  <2>6. ASSUME NEW w \in KbWorkers, KbWorkerStep(w) PROVE KbTypeOK'
    <3>1. CASE Claim(w)
      BY <3>1 DEF Claim
    <3>2. CASE KbRecordVerdict(w)
      BY <3>2 DEF KbRecordVerdict, Outcome
    <3>3. CASE KbScanFails(w)
      BY <3>3 DEF KbScanFails, Outcome
    <3>4. CASE FileMissing(w)
      BY <3>4 DEF FileMissing, Outcome
    <3>5. QED
      BY <2>6, <3>1, <3>2, <3>3, <3>4 DEF KbWorkerStep
  <2>7. ASSUME NEW w \in KbWorkers, KbCrash(w) PROVE KbTypeOK'
    BY <2>7 DEF KbCrash
  <2>8. CASE UNCHANGED kb_vars
    BY <2>8 DEF kb_vars
  <2>9. QED
    BY <2>1, <2>2, <2>3, <2>4, <2>5, <2>6, <2>7, <2>8 DEF KbNext
<1>3. QED
  BY <1>1, <1>2, PTL DEF KbSpec

-----------------------------------------------------------------------------
(* attachment_is_downloadable refuses malware while the deployment scans.   *)
THEOREM KbMalwareStaysHeld == KbSpec => []KbMalwareHeld
<1> DEFINE NotSafe == KbContent = "malware" => kb_status # "safe"
<1>1. KbInit => NotSafe
  BY DEF KbInit
<1>2. NotSafe /\ [KbNext]_kb_vars => NotSafe'
  <2> SUFFICES ASSUME NotSafe, [KbNext]_kb_vars, KbContent = "malware" PROVE kb_status' # "safe"
    OBVIOUS
  <2>1. ASSUME NEW w \in KbWorkers, KbWorkerStep(w) PROVE kb_status' # "safe"
    BY <2>1 DEF KbWorkerStep, Claim, KbRecordVerdict, KbScanFails, FileMissing, Outcome
  <2>2. ASSUME NEW w \in KbWorkers, KbCrash(w) PROVE kb_status' # "safe"
    BY <2>2 DEF KbCrash
  <2>3. QED
    BY <2>1, <2>2 DEF KbNext, kb_vars, StoreFile, InsertRow, InsertFails, DeleteRow, RemoveFile,
       RequestDies, Backfill, KbSwitchScanning
<1>3. NotSafe => KbMalwareHeld
  BY DEF KbMalwareHeld, KbDownloadable
<1>4. QED
  BY <1>1, <1>2, <1>3, PTL DEF KbSpec

-----------------------------------------------------------------------------
(* What a web process still has to do, and what it has done.                *)
RequestInv ==
  /\ request = "insert" => row = "none" /\ file = "stored"
  /\ request = "remove" => row = "deleted"

(* A row always has its file: whichever of upload, validation failure,      *)
(* deletion and crash comes when, at most a file is left without a row.     *)
THEOREM RowKeepsFile == KbSpec => []RowHasFile
<1>1. KbInit => RequestInv /\ RowHasFile
  BY DEF KbInit, RequestInv, RowHasFile
<1>2. RequestInv /\ RowHasFile /\ [KbNext]_kb_vars => RequestInv' /\ RowHasFile'
  <2> SUFFICES ASSUME RequestInv, RowHasFile, [KbNext]_kb_vars PROVE RequestInv' /\ RowHasFile'
    OBVIOUS
  <2> USE DEF RequestInv, RowHasFile
  <2>1. CASE StoreFile
    BY <2>1 DEF StoreFile
  <2>2. CASE InsertRow \/ InsertFails
    BY <2>2 DEF InsertRow, InsertFails
  <2>3. CASE DeleteRow \/ RemoveFile
    BY <2>3 DEF DeleteRow, RemoveFile
  <2>4. CASE RequestDies
    BY <2>4 DEF RequestDies
  <2>5. ASSUME NEW w \in KbWorkers, KbWorkerStep(w) \/ KbCrash(w) PROVE UNCHANGED <<row, file, request>>
    BY <2>5 DEF KbWorkerStep, Claim, KbRecordVerdict, KbScanFails, FileMissing, Outcome, KbCrash
  <2>6. CASE Backfill \/ KbSwitchScanning \/ UNCHANGED kb_vars
    BY <2>6 DEF Backfill, KbSwitchScanning, kb_vars
  <2>7. QED
    BY <2>1, <2>2, <2>3, <2>4, <2>5, <2>6 DEF KbNext
<1>3. QED
  BY <1>1, <1>2, PTL DEF KbSpec

-----------------------------------------------------------------------------
(* A row that is being scanned says so, also when it has been deleted.      *)
ScanningIsMarked == \A w \in KbWorkers : kb_pc[w] = "scanning" => kb_status = "scanning"

ClaimInv == KbTypeOK /\ ScanningIsMarked /\ OneScanner

LEMMA ClaimInvStep ==
  ASSUME ClaimInv, [KbNext]_kb_vars
  PROVE  ScanningIsMarked' /\ OneScanner'
<1> USE DEF ClaimInv, KbTypeOK, ScanningIsMarked, OneScanner
<1>1. ASSUME NEW w \in KbWorkers, Claim(w) PROVE ScanningIsMarked' /\ OneScanner'
  <2>1. CASE kb_policy = "on" /\ row = "present" /\ kb_status = "pending"
    <3>1. \A v \in KbWorkers : kb_pc[v] # "scanning"
      BY <2>1
    <3>2. kb_status' = "scanning" /\ kb_pc' = [kb_pc EXCEPT ![w] = "scanning"]
      BY <1>1, <2>1 DEF Claim
    <3>3. QED
      BY <3>1, <3>2
  <2>2. CASE ~(kb_policy = "on" /\ row = "present" /\ kb_status = "pending")
    BY <1>1, <2>2 DEF Claim
  <2>3. QED
    BY <2>1, <2>2
<1>2. ASSUME NEW w \in KbWorkers, KbRecordVerdict(w) \/ KbScanFails(w) \/ FileMissing(w)
      PROVE  ScanningIsMarked' /\ OneScanner'
  <2>1. kb_pc[w] = "scanning" /\ kb_pc' = [kb_pc EXCEPT ![w] = "idle"]
    BY <1>2 DEF KbRecordVerdict, KbScanFails, FileMissing, Outcome
  <2>2. \A v \in KbWorkers : kb_pc'[v] # "scanning"
    BY <2>1
  <2>3. QED
    BY <2>2
<1>3. ASSUME NEW w \in KbWorkers, KbCrash(w) PROVE ScanningIsMarked' /\ OneScanner'
  BY <1>3 DEF KbCrash
<1>4. ASSUME UNCHANGED <<kb_status, kb_pc>> PROVE ScanningIsMarked' /\ OneScanner'
  BY <1>4
<1>5. QED
  BY <1>1, <1>2, <1>3, <1>4 DEF KbNext, kb_vars, KbWorkerStep, StoreFile, InsertRow, InsertFails,
     DeleteRow, RemoveFile, RequestDies, Backfill, KbSwitchScanning

LEMMA ClaimInvariant == KbSpec => []ClaimInv
<1>1. KbInit => ScanningIsMarked /\ OneScanner
  BY DEF KbInit, ScanningIsMarked, OneScanner
<1>2. ClaimInv /\ [KbNext]_kb_vars => ScanningIsMarked' /\ OneScanner'
  BY ClaimInvStep
<1>3. ClaimInv <=> KbTypeOK /\ ScanningIsMarked /\ OneScanner
  BY DEF ClaimInv
<1>4. QED
  BY <1>1, <1>2, <1>3, KbTypeCorrect, PTL DEF KbSpec

(* The claiming transaction keeps two workers from scanning one file.       *)
THEOREM ScannersExclude == KbSpec => []OneScanner
<1>1. ClaimInv => OneScanner
  BY DEF ClaimInv
<1>2. QED
  BY <1>1, ClaimInvariant, PTL

(* Without any lock the row keeps the promise of QuarantineGate: a verdict  *)
(* is written once, is true and is final.                                   *)
THEOREM ClaimKeepsTheGate == KbSpec => KbKeepsTheGate
<1>1. KbInit => KbGate!Init
  BY DEF KbInit, KbGate!Init, KbVerdict
<1>2. ClaimInv /\ [KbNext]_kb_vars => [KbGate!Next]_(KbGate!vars)
  <2> SUFFICES ASSUME ClaimInv, [KbNext]_kb_vars PROVE [KbGate!Next]_(KbGate!vars)
    OBVIOUS
  <2>1. ASSUME kb_status' = kb_status, kb_policy' = kb_policy PROVE [KbGate!Next]_(KbGate!vars)
    BY <2>1 DEF KbGate!vars, KbVerdict
  <2>2. ASSUME NEW w \in KbWorkers, Claim(w) PROVE [KbGate!Next]_(KbGate!vars)
    BY <2>2 DEF Claim, KbVerdict, KbGate!vars
  <2>3. ASSUME NEW w \in KbWorkers, KbRecordVerdict(w) PROVE [KbGate!Next]_(KbGate!vars)
    <3>1. kb_status = "scanning" /\ kb_policy' = kb_policy
      BY <2>3 DEF KbRecordVerdict, Outcome, ClaimInv, ScanningIsMarked
    <3>2. CASE row = "present"
      <4>1. kb_status' = IF KbContent = "clean" THEN "safe" ELSE "infected"
        BY <2>3, <3>2 DEF KbRecordVerdict, Outcome
      <4>2. KbVerdict = "none" /\ KbVerdict' = IF KbContent = "clean" THEN "clean" ELSE "infected"
        BY <3>1, <4>1 DEF KbVerdict
      <4>3. QED
        BY <3>1, <4>2 DEF KbGate!Next, KbGate!Decide
    <3>3. CASE row # "present"
      BY <2>3, <3>1, <3>3, <2>1 DEF KbRecordVerdict, Outcome
    <3>4. QED
      BY <3>2, <3>3
  <2>4. ASSUME NEW w \in KbWorkers, KbScanFails(w) \/ FileMissing(w)
        PROVE  [KbGate!Next]_(KbGate!vars)
    <3>1. kb_status = "scanning" /\ kb_policy' = kb_policy /\ kb_status' \in {kb_status, "failed"}
      BY <2>4 DEF KbScanFails, FileMissing, Outcome, ClaimInv, ScanningIsMarked
    <3>2. QED
      BY <3>1 DEF KbVerdict, KbGate!vars
  <2>5. ASSUME NEW w \in KbWorkers, KbCrash(w) PROVE [KbGate!Next]_(KbGate!vars)
    BY <2>5, <2>1 DEF KbCrash
  <2>6. CASE KbSwitchScanning
    <3>1. KbVerdict' = KbVerdict /\ kb_policy' \in {"on", "off"}
      BY <2>6 DEF KbSwitchScanning, KbVerdict
    <3>2. QED
      BY <3>1 DEF KbGate!Next, KbGate!ChangePolicy
  <2>7. CASE \/ StoreFile \/ InsertRow \/ InsertFails \/ DeleteRow \/ RemoveFile
             \/ RequestDies \/ Backfill \/ UNCHANGED kb_vars
    BY <2>7, <2>1 DEF StoreFile, InsertRow, InsertFails, DeleteRow, RemoveFile, RequestDies,
       Backfill, kb_vars, kb_faults
  <2>8. QED
    BY <2>2, <2>3, <2>4, <2>5, <2>6, <2>7 DEF KbNext, KbWorkerStep
<1>3. QED
  BY <1>1, <1>2, ClaimInvariant, PTL DEF KbSpec, KbKeepsTheGate, KbGate!Spec

(* What views and scanner rely on in a row holds together.                 *)
THEOREM RowStaysSound == KbSpec => []KbRowIsSound
BY KbMalwareStaysHeld, ScannersExclude, RowKeepsFile, PTL DEF KbRowIsSound

-----------------------------------------------------------------------------
(* Knowledge Base documents.                                               *)

(* What SELECT ... FOR UPDATE secures for an edit until it commits.         *)
LockSecures ==
  \A e \in Editors :
    /\ doc_pc[e] # "idle" => /\ row_lock = e
                         /\ read[e] = document
                         /\ document.archived = "no"
                         /\ Len(versions) < MaxVersions
    /\ doc_pc[e] = "numbered" => latest[e] = Len(versions)

DocumentInv == DocTypeOK /\ LockSecures /\ LatestVersionIsCurrent

-----------------------------------------------------------------------------
LEMMA InitialDocument == DocInit => DocumentInv
<1> SUFFICES ASSUME DocInit PROVE DocumentInv
  OBVIOUS
<1> USE DocIdentitiesAssumption, DocBoundsAssumption DEF DocInit, Documents, Forms
<1>1. document \in Documents /\ document.content \in Contents
  OBVIOUS
<1>2. versions \in Seq(Contents) /\ Len(versions) = 1 /\ versions[1] = document.content
  BY <1>1
<1>3. DocTypeOK
  BY <1>1, <1>2 DEF DocTypeOK
<1>4. QED
  BY <1>2, <1>3 DEF DocumentInv, LockSecures, LatestVersionIsCurrent

(* What a commit does to row and history.                                   *)
LEMMA CommitEffect ==
  ASSUME DocumentInv, NEW e \in Editors, Commit(e)
  PROVE  /\ document' \in Documents /\ document'.content = form[e].content
         /\ \/ versions' = versions /\ form[e].content = document.content
            \/ versions' = Append(versions, form[e].content)
         /\ Len(versions) < MaxVersions /\ row_lock = e /\ document.archived = "no"
<1> USE DEF DocumentInv, DocTypeOK, Commit, Saved, Documents, Forms
<1>1. /\ doc_pc[e] = "numbered" /\ row_lock = e /\ read[e] = document
      /\ document.archived = "no" /\ Len(versions) < MaxVersions
  BY DEF LockSecures
<1>2. form[e] \in Forms /\ document \in Documents
  OBVIOUS
<1>3. CASE form[e] = [content |-> read[e].content, summary |-> read[e].summary]
  BY <1>1, <1>2, <1>3
<1>4. CASE form[e] # [content |-> read[e].content, summary |-> read[e].summary]
  BY <1>1, <1>2, <1>4
<1>5. QED
  BY <1>3, <1>4

(* Of two edits, one is idle: only one can hold the row.                    *)
LEMMA OthersIdle ==
  ASSUME DocumentInv, NEW e \in Editors, doc_pc[e] # "idle", NEW o \in Editors, o # e
  PROVE  doc_pc[o] = "idle"
  BY DEF DocumentInv, LockSecures

LEMMA DocumentInvStep ==
  ASSUME DocumentInv, [DocNext]_doc_vars
  PROVE  DocumentInv'
<1> USE DocIdentitiesAssumption, DocBoundsAssumption DEF DocumentInv
<1> USE DEF DocGoto, edits
<1>1. ASSUME NEW e \in Editors, LockRow(e) PROVE DocumentInv'
  <2>1. \A o \in Editors : doc_pc[o] = "idle"
    BY <1>1 DEF LockRow, LockSecures
  <2>2. PICK f \in Forms : form' = [form EXCEPT ![e] = f]
    BY <1>1 DEF LockRow
  <2>3. DocTypeOK'
    BY <1>1, <2>2 DEF LockRow, DocTypeOK
  <2>4. LockSecures'
    BY <1>1, <2>1 DEF LockRow, LockSecures, DocTypeOK
  <2>5. QED
    BY <1>1, <2>3, <2>4 DEF LockRow, LatestVersionIsCurrent
<1>2. ASSUME NEW e \in Editors, Number(e) PROVE DocumentInv'
  <2>1. DocTypeOK'
    BY <1>2 DEF Number, DocTypeOK
  <2>2. LockSecures'
    BY <1>2 DEF Number, LockSecures, DocTypeOK
  <2>3. QED
    BY <1>2, <2>1, <2>2 DEF Number, LatestVersionIsCurrent
<1>3. ASSUME NEW e \in Editors, Commit(e) PROVE DocumentInv'
  <2>1. /\ versions' \in Seq(Contents) /\ Len(versions') \in 1..MaxVersions
        /\ versions'[Len(versions')] = document'.content
    <3>1. form[e].content \in Contents /\ versions \in Seq(Contents)
          /\ Len(versions) \in 1..MaxVersions
      BY DEF DocTypeOK, Forms
    <3>2. CASE versions' = versions
      BY <1>3, <3>1, <3>2, CommitEffect DEF LatestVersionIsCurrent
    <3>3. CASE versions' = Append(versions, form[e].content)
      BY <1>3, <3>1, <3>3, CommitEffect
    <3>4. QED
      BY <1>3, <3>2, <3>3, CommitEffect
  <2>2. DocTypeOK'
    BY <1>3, <2>1, CommitEffect DEF Commit, DocTypeOK
  <2>3. \A o \in Editors : doc_pc'[o] = "idle"
    <3>1. doc_pc' = [doc_pc EXCEPT ![e] = "idle"] /\ doc_pc[e] # "idle"
      BY <1>3 DEF Commit
    <3>2. QED
      BY <3>1, OthersIdle DEF DocTypeOK
  <2>4. QED
    BY <2>1, <2>2, <2>3 DEF LockSecures, LatestVersionIsCurrent
<1>4. ASSUME NEW e \in Editors, Rollback(e) PROVE DocumentInv'
  <2>1. DocTypeOK'
    BY <1>4 DEF Rollback, DocTypeOK
  <2>2. doc_pc' = [doc_pc EXCEPT ![e] = "idle"] /\ doc_pc[e] # "idle"
    BY <1>4 DEF Rollback
  <2>3. \A o \in Editors : doc_pc'[o] = "idle"
    BY <2>2, OthersIdle DEF DocTypeOK
  <2>4. QED
    BY <1>4, <2>1, <2>3 DEF Rollback, LockSecures, LatestVersionIsCurrent
<1>5. CASE Archive \/ Restore
  <2>1. PICK value \in {"yes", "no"} :
          /\ row_lock = DocNobody
          /\ document' = [document EXCEPT !.archived = value]
          /\ UNCHANGED <<versions, edits, upload, attachments>>
    BY <1>5 DEF Archive, Restore, SetArchived
  <2>2. \A o \in Editors : doc_pc[o] = "idle"
    BY <2>1 DEF LockSecures
  <2>3. document' \in Documents /\ document'.content = document.content
    BY <2>1 DEF DocTypeOK, Documents
  <2>4. DocTypeOK'
    BY <2>1, <2>3 DEF DocTypeOK
  <2>5. LockSecures'
    BY <2>1, <2>2 DEF LockSecures
  <2>6. QED
    BY <2>1, <2>3, <2>4, <2>5 DEF LatestVersionIsCurrent
<1>6. ASSUME NEW u \in Uploads, StartUpload(u) \/ InsertAttachment(u) PROVE DocumentInv'
  BY <1>6 DEF StartUpload, InsertAttachment, DocTypeOK, LockSecures, LatestVersionIsCurrent
<1>7. CASE UNCHANGED doc_vars
  BY <1>7 DEF doc_vars, DocTypeOK, LockSecures, LatestVersionIsCurrent
<1>8. QED
  BY <1>1, <1>2, <1>3, <1>4, <1>5, <1>6, <1>7 DEF DocNext

LEMMA DocumentInvariant == DocSpec => []DocumentInv
  BY InitialDocument, DocumentInvStep, PTL DEF DocSpec

-----------------------------------------------------------------------------
(* Row, history, lock and requests keep their types, and the history never  *)
(* outgrows its bound.                                                      *)
THEOREM DocTypeCorrect == DocSpec => []DocTypeOK
<1>1. DocumentInv => DocTypeOK
  BY DEF DocumentInv
<1>2. QED
  BY <1>1, DocumentInvariant, PTL

(* The document that readers see is always its latest version.              *)
THEOREM HistoryIsComplete == DocSpec => []LatestVersionIsCurrent
<1>1. DocumentInv => LatestVersionIsCurrent
  BY DEF DocumentInv
<1>2. QED
  BY <1>1, DocumentInvariant, PTL

(* The number that _create_version has computed is free when it is used.    *)
THEOREM NumbersStayFree == DocSpec => []NumbersAreFree
<1>1. DocumentInv => NumbersAreFree
  BY DEF DocumentInv, LockSecures, NumbersAreFree
<1>2. QED
  BY <1>1, DocumentInvariant, PTL

-----------------------------------------------------------------------------
(* Every step but a commit leaves the history alone.                        *)
LEMMA OnlyCommitsWrite ==
  ASSUME DocumentInv, [DocNext]_doc_vars, \A e \in Editors : ~Commit(e)
  PROVE  /\ versions' = versions
         /\ document'.content = document.content
         /\ document'.summary = document.summary
<1>1. CASE Archive \/ Restore
  BY <1>1 DEF Archive, Restore, SetArchived, DocumentInv, DocTypeOK, Documents
<1>2. QED
  BY <1>1 DEF DocNext, LockRow, Number, Rollback, StartUpload, InsertAttachment, doc_vars, edits

(* Versions that update_document has written are never changed or removed.  *)
THEOREM HistoryStays == DocSpec => HistoryIsImmutable
<1>1. DocumentInv /\ [DocNext]_doc_vars =>
        [ /\ Len(versions) <= Len(versions')
          /\ \A n \in 1..Len(versions) : versions'[n] = versions[n] ]_doc_vars
  <2> SUFFICES ASSUME DocumentInv, [DocNext]_doc_vars
               PROVE  /\ Len(versions) <= Len(versions')
                      /\ \A n \in 1..Len(versions) : versions'[n] = versions[n]
    OBVIOUS
  <2>0. versions \in Seq(Contents)
    BY DEF DocumentInv, DocTypeOK
  <2>1. CASE versions' = versions
    BY <2>0, <2>1
  <2>2. ASSUME NEW e \in Editors, versions' = Append(versions, form[e].content)
        PROVE  /\ Len(versions) <= Len(versions')
               /\ \A n \in 1..Len(versions) : versions'[n] = versions[n]
    <3>1. form[e].content \in Contents
      BY DEF DocumentInv, DocTypeOK, Forms
    <3>2. QED
      BY <2>0, <2>2, <3>1
  <2>3. QED
    BY <2>1, <2>2, CommitEffect, OnlyCommitsWrite
<1>2. QED
  BY <1>1, DocumentInvariant, PTL DEF DocSpec, HistoryIsImmutable

(* No edit, however early it began, changes an archived document.           *)
THEOREM ArchivedStays == DocSpec => ArchivedIsReadOnly
<1>1. DocumentInv /\ [DocNext]_doc_vars =>
        [ document.archived = "yes" =>
            /\ versions' = versions
            /\ document'.content = document.content
            /\ document'.summary = document.summary ]_doc_vars
  <2> SUFFICES ASSUME DocumentInv, [DocNext]_doc_vars, document.archived = "yes"
               PROVE  /\ versions' = versions
                      /\ document'.content = document.content
                      /\ document'.summary = document.summary
    OBVIOUS
  <2>1. \A e \in Editors : ~Commit(e)
    BY CommitEffect
  <2>2. QED
    BY <2>1, OnlyCommitsWrite
<1>2. QED
  BY <1>1, DocumentInvariant, PTL DEF DocSpec, ArchivedIsReadOnly

(* The history has what readers see, under numbers nobody else takes.      *)
THEOREM HistoryStaysSound == DocSpec => []HistoryIsSound
BY HistoryIsComplete, NumbersStayFree, PTL DEF HistoryIsSound

(* No step rewrites the history, nor writes to an archived document.       *)
THEOREM HistoryStaysKept == DocSpec => HistoryIsKept
BY HistoryStays, ArchivedStays DEF HistoryIsKept

-----------------------------------------------------------------------------
(* All four, as RecordsSpec composes them.                                 *)

(* Whichever record is followed, a behaviour of RecordsSpec is one of each *)
(* of the four specifications: the ones that are not followed stutter.     *)
THEOREM RecordsFollowEach ==
  RecordsSpec => Spec /\ KbSpec /\ DocSpec /\ TimeSpec
<1>1. RecordsInit => Init /\ KbInit /\ DocInit /\ TimeInit
  BY DEF RecordsInit
<1>2. [RecordsNext]_allVars => [Next]_vars /\ [KbNext]_kb_vars /\ [DocNext]_doc_vars
                                 /\ [TimeNext]_tmVars
  <2> SUFFICES ASSUME [RecordsNext]_allVars
               PROVE  [Next]_vars /\ [KbNext]_kb_vars /\ [DocNext]_doc_vars /\ [TimeNext]_tmVars
    OBVIOUS
  <2>1. CASE Alone("ticket file") /\ Next
    BY <2>1 DEF Alone
  <2>2. CASE Alone("attachment") /\ KbNext
    BY <2>2 DEF Alone
  <2>3. CASE Alone("document") /\ DocNext
    BY <2>3 DEF Alone
  <2>4. CASE Alone("time") /\ TimeNext
    BY <2>4 DEF Alone
  <2>5. CASE UNCHANGED allVars
    BY <2>5 DEF allVars
  <2>6. QED
    BY <2>1, <2>2, <2>3, <2>4, <2>5 DEF RecordsNext
<1>3. QED
  BY <1>1, <1>2, PTL DEF RecordsSpec, Spec, KbSpec, DocSpec, TimeSpec

(* The types of all four.                                                  *)
THEOREM RecordsTyped == RecordsSpec => []RecordsTypeOK
BY RecordsFollowEach, ScanTypeCorrect, KbTypeCorrect, DocTypeCorrect, TimeTypeCorrect, PTL
   DEF RecordsTypeOK

(* Everything the platform keeps is sound, whichever record is followed.   *)
THEOREM RecordsAreSound ==
  RecordsSpec => [](QuarantineHolds /\ KbRowIsSound /\ HistoryIsSound /\ TimeIsSound)
BY RecordsFollowEach, QuarantineStays, RowStaysSound, HistoryStaysSound, TimeStaysSound, PTL

(* And no step breaks what it promised: verdicts are final in both         *)
(* quarantines, versions are immutable and archived documents closed.      *)
THEOREM RecordsAreKept == RecordsSpec => KeepsTheGate /\ KbKeepsTheGate /\ HistoryIsKept
BY RecordsFollowEach, ScanKeepsTheGate, ClaimKeepsTheGate, HistoryStaysKept, PTL
=============================================================================
