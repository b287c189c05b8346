-------------------------- MODULE KnowledgeAttachment --------------------------
(***************************************************************************)
(* One attachment of a Knowledge Base document, from its upload to its     *)
(* deletion (apps.knowledge_base.attachment_security and tasks).           *)
(*                                                                         *)
(* The upload stores the file, then its row, and publishes a scan when the *)
(* row is committed; Beat publishes scans of pending rows.  There is no    *)
(* lock: a worker claims the row by turning pending into scanning in a     *)
(* transaction, scans the file and writes the outcome with an update by    *)
(* id.  A deletion removes the row and, once that is committed, the file.  *)
(***************************************************************************)
EXTENDS Integers

CONSTANTS
  KbContent,        \* what the file really is: "clean" or "malware"
  KbWorkers,        \* Celery worker processes
  KbMaxTasks,       \* bound: scans waiting in the broker
  KbMaxOutages,     \* bound: scans that fail
  KbMaxCrashes,     \* bound: crashes of workers and of web processes
  KbMaxSwitches     \* bound: deployments that switch scanning on or off

ASSUME KbContentAssumption == KbContent \in {"clean", "malware"}
ASSUME KbBoundsAssumption ==
  /\ KbMaxTasks \in Nat \ {0} /\ KbMaxOutages \in Nat
  /\ KbMaxCrashes \in Nat /\ KbMaxSwitches \in Nat

VARIABLES
  row,         \* the KnowledgeBaseAttachment row: "none", "present" or "deleted"
  file,        \* the stored file: "none", "stored" or "removed"
  kb_status,      \* scan_status, kept when the row is deleted
  kb_policy,      \* TICKETING_MALWARE_SCANNING_ENABLED: "on" or "off"
  kb_tasks,       \* scan_knowledge_base_attachment tasks waiting in the broker
  kb_pc,          \* where each worker is
  request,     \* what a web process still has to do: "nothing", "insert" or "remove"
  kb_outages, kb_crashes, kb_switches

kb_faults == <<kb_outages, kb_crashes, kb_switches>>
kb_vars == <<row, file, kb_status, kb_policy, kb_tasks, kb_pc, request, kb_faults>>

Verdicts == {"safe", "infected"}

KbTypeOK ==
  /\ row \in {"none", "present", "deleted"}
  /\ file \in {"none", "stored", "removed"}
  /\ kb_status \in Verdicts \cup {"pending", "scanning", "failed"}
  /\ kb_policy \in {"on", "off"}
  /\ kb_tasks \in 0..KbMaxTasks
  /\ kb_pc \in [KbWorkers -> {"idle", "scanning"}]
  /\ request \in {"nothing", "insert", "remove"}
  /\ kb_outages \in Nat /\ kb_crashes \in Nat /\ kb_switches \in Nat

KbInit ==
  /\ row = "none" /\ file = "none" /\ kb_status = "pending"
  /\ kb_policy \in {"on", "off"}
  /\ kb_tasks = 0
  /\ kb_pc = [w \in KbWorkers |-> "idle"]
  /\ request = "nothing"
  /\ kb_outages = 0 /\ kb_crashes = 0 /\ kb_switches = 0

-----------------------------------------------------------------------------
(* attachment_is_downloadable, and the file that the view opens.           *)

KbDownloadable ==
  /\ row = "present" /\ file = "stored"
  /\ \/ kb_status = "safe"
     \/ kb_policy = "off" /\ kb_status \in {"pending", "failed"}

-----------------------------------------------------------------------------
(* quarantine_attachment: one transaction, in which the file comes first.  *)

StoreFile ==
  /\ row = "none" /\ file = "none"
  /\ file' = "stored"
  /\ request' = "insert"
  /\ UNCHANGED <<row, kb_status, kb_policy, kb_tasks, kb_pc, kb_faults>>

(* on_commit publishes the scan; a broker that is down loses it.           *)
InsertRow ==
  /\ request = "insert"
  /\ row' = "present"
  /\ request' = "nothing"
  /\ kb_tasks' \in IF kb_policy = "on" /\ kb_tasks < KbMaxTasks THEN {kb_tasks, kb_tasks + 1} ELSE {kb_tasks}
  /\ UNCHANGED <<file, kb_status, kb_policy, kb_pc, kb_faults>>

(* The row does not validate: the file is deleted again.                   *)
InsertFails ==
  /\ request = "insert"
  /\ file' = "removed"
  /\ request' = "nothing"
  /\ UNCHANGED <<row, kb_status, kb_policy, kb_tasks, kb_pc, kb_faults>>

(* delete_attachment commits the row's deletion ...                        *)
DeleteRow ==
  /\ row = "present"
  /\ row' = "deleted"
  /\ request' = "remove"
  /\ UNCHANGED <<file, kb_status, kb_policy, kb_tasks, kb_pc, kb_faults>>

(* ... and then deletes the file.                                          *)
RemoveFile ==
  /\ request = "remove"
  /\ file' = "removed"
  /\ request' = "nothing"
  /\ UNCHANGED <<row, kb_status, kb_policy, kb_tasks, kb_pc, kb_faults>>

(* The web process dies: its file stays without a row.                     *)
RequestDies ==
  /\ request # "nothing"
  /\ kb_crashes < KbMaxCrashes
  /\ kb_crashes' = kb_crashes + 1
  /\ request' = "nothing"
  /\ UNCHANGED <<row, file, kb_status, kb_policy, kb_tasks, kb_pc, kb_outages, kb_switches>>

-----------------------------------------------------------------------------
(* The scan. *)

(* Mutant of Backfill: the scans that failed are looked for, not the waiting. *)
FailedOnly ==
  /\ kb_policy = "on" /\ row = "present" /\ kb_status = "failed"
  /\ kb_tasks < KbMaxTasks
  /\ kb_tasks' = kb_tasks + 1
  /\ UNCHANGED <<row, file, kb_status, kb_policy, kb_pc, request, kb_faults>>

(* enqueue_attachment_scans                                                *)
Backfill ==
  /\ kb_policy = "on" /\ row = "present" /\ kb_status = "pending"
  /\ kb_tasks < KbMaxTasks
  /\ kb_tasks' = kb_tasks + 1
  /\ UNCHANGED <<row, file, kb_status, kb_policy, kb_pc, request, kb_faults>>

(* Mutant of Claim: the row is claimed without marking it.                  *)
ClaimUnmarked(w) ==
  /\ kb_pc[w] = "idle" /\ kb_tasks > 0
  /\ kb_tasks' = kb_tasks - 1
  /\ kb_pc' = [kb_pc EXCEPT ![w] = IF kb_policy = "on" /\ row = "present" /\ kb_status = "pending"
                               THEN "scanning" ELSE "idle"]
  /\ UNCHANGED <<row, file, kb_status, kb_policy, request, kb_faults>>

(* The claiming transaction of scan_knowledge_base_attachment.             *)
Claim(w) ==
  /\ kb_pc[w] = "idle" /\ kb_tasks > 0
  /\ kb_tasks' = kb_tasks - 1
  /\ IF kb_policy = "on" /\ row = "present" /\ kb_status = "pending"
       THEN kb_status' = "scanning" /\ kb_pc' = [kb_pc EXCEPT ![w] = "scanning"]
       ELSE UNCHANGED <<kb_status, kb_pc>>
  /\ UNCHANGED <<row, file, kb_policy, request, kb_faults>>

(* An update by id, of no row if it was deleted meanwhile.                 *)
Outcome(w, result) ==
  /\ kb_pc[w] = "scanning"
  /\ kb_status' = IF row = "present" THEN result ELSE kb_status
  /\ kb_pc' = [kb_pc EXCEPT ![w] = "idle"]
  /\ UNCHANGED <<row, file, kb_policy, kb_tasks, request>>

(* Mutant of KbRecordVerdict: the verdict of ClamAV is inverted.            *)
VerdictInverted(w) ==
  /\ file = "stored"
  /\ Outcome(w, IF KbContent = "clean" THEN "infected" ELSE "safe")
  /\ UNCHANGED kb_faults

KbRecordVerdict(w) ==
  /\ file = "stored"
  /\ Outcome(w, IF KbContent = "clean" THEN "safe" ELSE "infected")
  /\ UNCHANGED kb_faults

(* Mutant of KbScanFails: the ticket attachments' name for a failed scan.   *)
TicketStatusWritten(w) ==
  /\ kb_outages < KbMaxOutages
  /\ kb_outages' = kb_outages + 1
  /\ Outcome(w, "scan_failed")
  /\ UNCHANGED <<kb_crashes, kb_switches>>

(* ClamAV or the storage does not answer.                                  *)
KbScanFails(w) ==
  /\ kb_outages < KbMaxOutages
  /\ kb_outages' = kb_outages + 1
  /\ Outcome(w, "failed")
  /\ UNCHANGED <<kb_crashes, kb_switches>>

(* The file was deleted, with its row, before it could be read.            *)
FileMissing(w) ==
  /\ file = "removed"
  /\ Outcome(w, "failed")
  /\ UNCHANGED kb_faults

(* A worker dies, or the update raises: nothing is written.                *)
KbCrash(w) ==
  /\ kb_pc[w] = "scanning"
  /\ kb_crashes < KbMaxCrashes
  /\ kb_crashes' = kb_crashes + 1
  /\ kb_pc' = [kb_pc EXCEPT ![w] = "idle"]
  /\ UNCHANGED <<row, file, kb_status, kb_policy, kb_tasks, request, kb_outages, kb_switches>>

KbSwitchScanning ==
  /\ kb_switches < KbMaxSwitches
  /\ kb_switches' = kb_switches + 1
  /\ kb_policy' = IF kb_policy = "on" THEN "off" ELSE "on"
  /\ UNCHANGED <<row, file, kb_status, kb_tasks, kb_pc, request, kb_outages, kb_crashes>>

KbWorkerStep(w) == Claim(w) \/ KbRecordVerdict(w) \/ KbScanFails(w) \/ FileMissing(w)

KbNext ==
  \/ StoreFile \/ InsertRow \/ InsertFails \/ DeleteRow \/ RemoveFile \/ RequestDies
  \/ Backfill \/ KbSwitchScanning
  \/ \E w \in KbWorkers : KbWorkerStep(w) \/ KbCrash(w)

KbSpec == KbInit /\ [][KbNext]_kb_vars

KbProgress(w) == Claim(w) \/ KbRecordVerdict(w) \/ FileMissing(w)

(* Beat publishes again and again, and workers go on with what they began. *)
KbFairness ==
  /\ WF_kb_vars(Backfill)
  /\ \A w \in KbWorkers : WF_kb_vars(KbProgress(w))

KbFairSpec == KbSpec /\ KbFairness

-----------------------------------------------------------------------------
(* Properties. *)

(* While the deployment scans, malware is not served.                      *)
KbMalwareHeld == KbContent = "malware" /\ kb_policy = "on" => ~KbDownloadable

(* The claim alone, without a lock, keeps a second worker from scanning    *)
(* the file and from writing a second outcome over the first.              *)
OneScanner ==
  \A v, w \in KbWorkers : kb_pc[v] = "scanning" /\ kb_pc[w] = "scanning" => v = w

(* A row never points at a file that is gone: upload, failure, deletion    *)
(* and crashes write and remove row and file in an order that leaves at    *)
(* most a file without a row.                                              *)
RowHasFile == row = "present" => file = "stored"

(* What the views and the scanner rely on in a row, all at once.           *)
KbRowIsSound == KbMalwareHeld /\ OneScanner /\ RowHasFile

KbVerdict ==
  CASE kb_status = "safe" -> "clean"
    [] kb_status = "infected" -> "infected"
    [] OTHER -> "none"

KbGate == INSTANCE QuarantineGate
            WITH Content <- KbContent, verdict <- KbVerdict, policy <- kb_policy

(* At most one verdict, and a true one, is ever recorded.                  *)
KbKeepsTheGate == KbGate!Spec

Waiting == row = "present" /\ kb_status = "pending" /\ kb_policy = "on"

(* A waiting attachment is scanned: it gets a verdict, or the scan has     *)
(* failed or died, or it was deleted or the deployment stopped scanning.   *)
ScanConcludes ==
  Waiting ~> \/ kb_status \in Verdicts \cup {"failed"}
             \/ kb_status = "scanning" /\ kb_crashes > 0
             \/ row = "deleted" \/ kb_policy = "off"
=============================================================================
