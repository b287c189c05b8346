----------------------------- MODULE StoredRecords -----------------------------
(***************************************************************************)
(* What the platform keeps for others to rely on: a ticket's file, a       *)
(* Knowledge Base attachment, a Knowledge Base document and the time of a  *)
(* staff member.  They share no state, so a behaviour follows one of them, *)
(* the subject, and the others wait in one of their initial states.        *)
(***************************************************************************)
EXTENDS AttachmentScan, KnowledgeAttachment, KnowledgeDocument, TimeTracking

VARIABLE subject

allVars == <<subject, vars, kb_vars, doc_vars, tmVars>>

RecordsInit ==
  /\ subject \in {"ticket file", "attachment", "document", "time"}
  /\ Init /\ (subject # "ticket file" => policy = "on")
  /\ KbInit /\ (subject # "attachment" => kb_policy = "on")
  /\ DocInit /\ (subject # "document" =>
                   document = CHOOSE d \in Documents : d.archived = "no")
  /\ TimeInit
  /\ (subject # "time" => /\ tmTimer = NoTimer /\ tmItem = CHOOSE i \in WorkItems : TRUE
                          /\ tmForm.panel = "none"
                          /\ tmReads = FirstReads(CHOOSE open \in Tabs : TRUE)
                          /\ tmForm.target = CHOOSE t \in Targets : TRUE)

(* Only the subject s takes steps. *)
Alone(s) ==
  /\ subject = s /\ subject' = s
  /\ IF s = "ticket file" THEN TRUE ELSE UNCHANGED vars
  /\ IF s = "attachment" THEN TRUE ELSE UNCHANGED kb_vars
  /\ IF s = "document" THEN TRUE ELSE UNCHANGED doc_vars
  /\ IF s = "time" THEN TRUE ELSE UNCHANGED tmVars

RecordsNext ==
  \/ Alone("ticket file") /\ Next
  \/ Alone("attachment") /\ KbNext
  \/ Alone("document") /\ DocNext
  \/ Alone("time") /\ TimeNext

(* The fairness of AttachmentScan, KnowledgeAttachment and TimeTracking.   *)
(* The subject never changes, so weak fairness of what Beat and the polls  *)
(* do for one or another subject is weak fairness of each.                 *)
Periodic ==
  \/ Alone("ticket file") /\ Publish
  \/ Alone("attachment") /\ Backfill
  \/ Alone("time") /\ LiveRefresh

RecordsSpec ==
  /\ RecordsInit /\ [][RecordsNext]_allVars
  /\ WF_allVars(Periodic)
  /\ WF_allVars(Alone("ticket file") /\ DeadLockExpires)
  /\ \A w \in Workers : WF_allVars(Alone("ticket file") /\ Progress(w))
  /\ \A w \in KbWorkers : WF_allVars(Alone("attachment") /\ KbProgress(w))
  /\ WF_allVars(Alone("time") /\ LiveRead)
  /\ SF_allVars(Alone("time") /\ LiveArrives)

-----------------------------------------------------------------------------
(* Properties: those of the four modules, the ones below together. *)

(* Every row, lock, task and request has its type, whichever is followed.  *)
RecordsTypeOK == TypeOK /\ KbTypeOK /\ DocTypeOK /\ TimeTypeOK

(* Neither a ticket's file nor a Knowledge Base attachment waits for ever  *)
(* for its scan, but for the failures that their backfills pass over.      *)
ScansEnd == QuarantineEnds /\ ScanConcludes
=============================================================================
