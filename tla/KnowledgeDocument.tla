--------------------------- MODULE KnowledgeDocument ---------------------------
(***************************************************************************)
(* One Knowledge Base document with its versions, its archive state and    *)
(* the attachments that uploads add to it (apps.knowledge_base.services,   *)
(* attachment_security and their views).                                   *)
(*                                                                         *)
(* An edit locks the document's row, compares the form with the row it     *)
(* read, writes the row and appends a version if a versioned field has     *)
(* changed: one transaction, whose reads happen before its writes.  An     *)
(* upload reads the document without a lock, stores the file and inserts   *)
(* its row later.                                                          *)
(*                                                                         *)
(* Title, content and section are one versioned value, summary and portal  *)
(* visibility one value that is not versioned.                             *)
(***************************************************************************)
EXTENDS Integers, Sequences

CONSTANTS
  Editors,       \* edit requests
  Uploads,       \* upload requests
  DocNobody,        \* the row is not locked
  Contents,      \* values of the versioned fields
  Summaries,     \* values of the other fields
  MaxVersions    \* bound: versions of the document

ASSUME DocIdentitiesAssumption == DocNobody \notin Editors
ASSUME ValuesAssumption == Contents # {} /\ Summaries # {}
ASSUME DocBoundsAssumption == MaxVersions \in Nat \ {0}

VARIABLES
  document,      \* the KnowledgeBaseDocument row
  versions,      \* contents of its DocumentVersion rows; the index is the number
  row_lock,      \* the edit whose transaction holds the row
  doc_pc,            \* where each edit is
  read,          \* the row as each edit has read it
  form,          \* what each edit is about to write
  latest,        \* the largest version number each edit has read
  upload,        \* where each upload is
  attachments    \* uploads that have inserted their attachment row

edits == <<row_lock, doc_pc, read, form, latest>>
doc_vars == <<document, versions, edits, upload, attachments>>

Forms == [content : Contents, summary : Summaries]
Documents == [content : Contents, summary : Summaries, archived : {"yes", "no"}]

DocTypeOK ==
  /\ document \in Documents
  /\ versions \in Seq(Contents) /\ Len(versions) \in 1..MaxVersions
  /\ row_lock \in Editors \cup {DocNobody}
  /\ doc_pc \in [Editors -> {"idle", "locked", "numbered"}]
  /\ read \in [Editors -> Documents]
  /\ form \in [Editors -> Forms]
  /\ latest \in [Editors -> 0..MaxVersions]
  /\ upload \in [Uploads -> {"idle", "storing", "done"}]
  /\ attachments \subseteq Uploads

(* create_document writes the row and version 1 in one transaction.        *)
DocInit ==
  /\ document \in [content : Contents, summary : Summaries, archived : {"no"}]
  /\ versions = <<document.content>>
  /\ row_lock = DocNobody
  /\ doc_pc = [e \in Editors |-> "idle"]
  /\ read = [e \in Editors |-> document]
  /\ form = [e \in Editors |-> [content |-> document.content, summary |-> document.summary]]
  /\ latest = [e \in Editors |-> 0]
  /\ upload = [u \in Uploads |-> "idle"]
  /\ attachments = {}

-----------------------------------------------------------------------------
(* update_document *)

DocGoto(e, step) == doc_pc' = [doc_pc EXCEPT ![e] = step]

(* Mutant of LockRow: the row is read without SELECT ... FOR UPDATE.        *)
ReadWithoutLock(e) ==
  /\ doc_pc[e] = "idle" /\ Len(versions) < MaxVersions
  /\ document.archived = "no"
  /\ row_lock' = e
  /\ read' = [read EXCEPT ![e] = document]
  /\ \E f \in Forms : form' = [form EXCEPT ![e] = f]
  /\ DocGoto(e, "locked")
  /\ UNCHANGED <<document, versions, latest, upload, attachments>>

(* Mutant of LockRow: the archive state is not looked at again.             *)
ArchiveIgnored(e) ==
  /\ doc_pc[e] = "idle" /\ row_lock = DocNobody /\ Len(versions) < MaxVersions
  /\ row_lock' = e
  /\ read' = [read EXCEPT ![e] = document]
  /\ \E f \in Forms : form' = [form EXCEPT ![e] = f]
  /\ DocGoto(e, "locked")
  /\ UNCHANGED <<document, versions, latest, upload, attachments>>

(* SELECT ... FOR UPDATE; an archived document is refused and changes      *)
(* nothing.  The bound keeps a number free for the version.                *)
LockRow(e) ==
  /\ doc_pc[e] = "idle" /\ row_lock = DocNobody /\ Len(versions) < MaxVersions
  /\ document.archived = "no"
  /\ row_lock' = e
  /\ read' = [read EXCEPT ![e] = document]
  /\ \E f \in Forms : form' = [form EXCEPT ![e] = f]
  /\ DocGoto(e, "locked")
  /\ UNCHANGED <<document, versions, latest, upload, attachments>>

(* The aggregate of _create_version.                                       *)
Number(e) ==
  /\ doc_pc[e] = "locked"
  /\ latest' = [latest EXCEPT ![e] = Len(versions)]
  /\ DocGoto(e, "numbered")
  /\ UNCHANGED <<document, versions, row_lock, read, form, upload, attachments>>

(* document.save() writes every field of the row that was read, with the   *)
(* form's values in it, when one of them has changed.                      *)
Saved(e) ==
  IF form[e] = [content |-> read[e].content, summary |-> read[e].summary]
    THEN document
    ELSE [content |-> form[e].content, summary |-> form[e].summary,
          archived |-> read[e].archived]

(* Only a change of a versioned field makes a version, and its number must *)
(* be free (unique_document_version_number).                               *)
Commit(e) ==
  /\ doc_pc[e] = "numbered"
  /\ document' = Saved(e)
  /\ IF form[e].content # read[e].content
       THEN /\ latest[e] = Len(versions)
            /\ versions' = Append(versions, form[e].content)
       ELSE UNCHANGED versions
  /\ row_lock' = DocNobody
  /\ DocGoto(e, "idle")
  /\ UNCHANGED <<read, form, latest, upload, attachments>>

(* full_clean refuses the form, the version number is taken, the links of  *)
(* the metadata do not validate or the connection is lost.                 *)
Rollback(e) ==
  /\ doc_pc[e] \in {"locked", "numbered"}
  /\ row_lock' = DocNobody
  /\ DocGoto(e, "idle")
  /\ UNCHANGED <<document, versions, read, form, latest, upload, attachments>>

-----------------------------------------------------------------------------
(* archive_document and restore_document wait for the row and write only   *)
(* archived_at.                                                            *)

SetArchived(value) ==
  /\ row_lock = DocNobody
  /\ document.archived # value
  /\ document' = [document EXCEPT !.archived = value]
  /\ UNCHANGED <<versions, edits, upload, attachments>>

Archive == SetArchived("yes")
Restore == SetArchived("no")

-----------------------------------------------------------------------------
(* upload_knowledge_attachment and quarantine_attachment *)

(* Both test the document that the view has read.                          *)
StartUpload(u) ==
  /\ upload[u] = "idle"
  /\ upload' = [upload EXCEPT ![u] = IF document.archived = "no" THEN "storing" ELSE "done"]
  /\ UNCHANGED <<document, versions, edits, attachments>>

(* The insert's foreign key waits for an edit that holds the row.          *)
InsertAttachment(u) ==
  /\ upload[u] = "storing" /\ row_lock = DocNobody
  /\ upload' = [upload EXCEPT ![u] = "done"]
  /\ attachments' = attachments \cup {u}
  /\ UNCHANGED <<document, versions, edits>>

DocNext ==
  \/ \E e \in Editors : LockRow(e) \/ Number(e) \/ Commit(e) \/ Rollback(e)
  \/ Archive \/ Restore
  \/ \E u \in Uploads : StartUpload(u) \/ InsertAttachment(u)

DocSpec == DocInit /\ [][DocNext]_doc_vars

-----------------------------------------------------------------------------
(* Properties. *)

(* The document that readers see is its latest version: no edit saves      *)
(* content that the history does not have, whatever else it overtakes.     *)
LatestVersionIsCurrent == versions[Len(versions)] = document.content

(* A version that was written stays as it was, with its number.            *)
HistoryIsImmutable ==
  [][ /\ Len(versions) <= Len(versions')
      /\ \A n \in 1..Len(versions) : versions'[n] = versions[n] ]_doc_vars

(* An archived document is read-only: no edit that began before the        *)
(* archiving, and no later one, changes it or its history.                 *)
ArchivedIsReadOnly ==
  [][ document.archived = "yes" =>
        /\ versions' = versions
        /\ document'.content = document.content
        /\ document'.summary = document.summary ]_doc_vars

(* No step rewrites the history, and archiving closes it.                  *)
HistoryIsKept == HistoryIsImmutable /\ ArchivedIsReadOnly

(* The version number of an edit is free when the edit commits.            *)
NumbersAreFree == \A e \in Editors : doc_pc[e] = "numbered" => latest[e] = Len(versions)

(* The history has the content that readers see, under a number that no    *)
(* other edit can take in the meantime (select_for_update).                *)
HistoryIsSound == LatestVersionIsCurrent /\ NumbersAreFree

(* An archived document receives no attachment.                            *)
ArchivedTakesNoAttachment ==
  [][ document.archived = "yes" => attachments' = attachments ]_doc_vars
=============================================================================
