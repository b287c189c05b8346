------------------------------- MODULE WorkForms -------------------------------
(***************************************************************************)
(* The forms in which staff create and edit the records of their work:     *)
(* credentials, documents, leads, checks, tasks, projects, clients,        *)
(* contacts, vendors and their sender rules, mailboxes, queue targets and  *)
(* staff access.  Each form loads its options and its record, keeps a      *)
(* draft, and saves the whole record.  One field fmFld of one form fmKind  *)
(* is followed, beside a choice (fmForm.child) that depends on another     *)
(* (fmForm.scope): a task list on its project, a queue on its brand, ...   *)
(***************************************************************************)
EXTENDS Naturals, FiniteSets, WorkRecords

CONSTANT MaxSaves   \* bound on the saves a run sends

ASSUME FormBounds == MaxSaves \in Nat

VARIABLES
    fmKind, fmFld, fmNew,   \* the form, the field followed, a form without a record
    fmRec,                  \* the server's value of the field
    fmOpen, fmLoad,         \* the form is on screen; its load
    fmForm,                 \* its draft
    fmSaves, fmSent         \* saves in flight, saves sent so far

fmWhat == <<fmKind, fmFld, fmNew>>
fmVars == <<fmWhat, fmRec, fmOpen, fmLoad, fmForm, fmSaves, fmSent>>

------------------------------------------------------------------------------
\* Each form: the fields its state starts with, those a loaded record fills,
\* those its request carries, and those it offers a control for.

CredentialState == {"name", "type", "ownership", "client", "status", "description",
                    "expires_at", "public_values", "secret_values", "cleared_secrets",
                    "resource_links"}
CredentialRestores == CredentialState \ {"secret_values", "cleared_secrets"}
CredentialUpdates == CredentialState \ {"type", "ownership", "client"}
CredentialCreates == CredentialState \ {"cleared_secrets"}
CredentialIdentity == {"name", "status", "description", "expires_at"}
                        \union (IF fmNew THEN {"type", "ownership", "client"} ELSE {})
CredentialFields == {"public_values", "secret_values", "cleared_secrets"}
CredentialLinks == {"resource_links"}
CredentialOffers == CredentialIdentity \union CredentialFields \union CredentialLinks

DocumentState == {"ownership", "client", "title", "summary", "section", "content", "tags",
                  "change_summary", "resources", "credentials"}
DocumentRestores == DocumentState \ {"change_summary"}
DocumentUpdates == DocumentState \ {"ownership", "client"}
DocumentCreates == DocumentState \ {"change_summary"}
DocumentIdentity == {"title", "summary", "section", "tags"}
DocumentContent == {"content"} \union (IF fmNew THEN {} ELSE {"change_summary"})
DocumentLinks == {"resources", "credentials"}
DocumentOffers == DocumentIdentity \union DocumentContent \union DocumentLinks

LeadState == {"name", "email", "phone", "company", "brand", "status", "source", "message",
              "notes"}
LeadRestores == LeadState
LeadSends == LeadState
LeadIdentity == {"name", "email", "phone", "company", "brand", "status", "source"}
LeadOffers == LeadIdentity \union {"message", "notes"}

CheckState == {"resource", "name", "check_type", "severity", "target", "port",
               "expected_value", "forbidden_value", "interval", "timeout",
               "failure_threshold", "recovery_threshold", "expiry_warning", "credential"}
CheckRestores == CheckState
CheckSends == IF fmNew THEN CheckState ELSE CheckState \ {"resource"}
CheckIdentity == {"name", "severity", "check_type"}
                   \union (IF fmNew THEN {"resource"} ELSE {})
CheckTarget == {"target", "port", "expected_value", "forbidden_value"}
CheckPolicy == {"interval", "timeout", "failure_threshold", "recovery_threshold",
                "expiry_warning"}
CheckInputs == CheckIdentity \union CheckTarget \union CheckPolicy

TaskState == {"title", "description", "status", "priority", "due_date", "assigned_to",
              "recurrence"}
TaskRestores == TaskState
TaskSends == TaskState
TaskOffers == TaskState

ProjectState == {"name", "description", "status", "start_date", "end_date", "budget",
                 "hourly_rate"}
ProjectRestores == ProjectState
ProjectSends == ProjectState
ProjectOffers == ProjectState

ClientState == {"name", "company", "email", "phone", "address", "city", "state", "country",
                "postal_code", "status", "notes"}
ClientRestores == ClientState
ClientSends == ClientState
ClientOffers == ClientState

ContactState == {"name", "email", "phone", "role"}
ContactRestores == ContactState
ContactSends == ContactState
ContactOffers == ContactState

VendorState == {"name", "website"}
VendorOffers == VendorState

RuleState == {"vendor", "match_type", "match_value", "queue", "priority"}
RuleOffers == RuleState

MailboxState == {"connection", "email", "display_name", "purpose"}
MailboxOffers == MailboxState

PolicyState == {"first_response", "resolution"}
PolicyRestores == PolicyState
PolicySends == PolicyState
PolicyOffers == PolicyState

\* "clients" is the client scope: all of them, or a list.
AccessState == {"groups", "permissions", "clients"}
                 \union (IF fmNew THEN {"first_name", "last_name", "email"} ELSE {})
AccessRestores == {"groups", "permissions", "clients"}
AccessSends == AccessState
AccessIdentity == IF fmNew THEN {"first_name", "last_name", "email"} ELSE {}
AccessGrants == {"groups", "permissions"}
AccessClients == {"clients"}
AccessOffers == AccessIdentity \union AccessGrants \union AccessClients

WorkForm(state, restores, sends, offers) ==
    [state |-> state, restores |-> restores, sends |-> sends, offers |-> offers]

WorkForms == [
    credential |-> WorkForm(CredentialState, CredentialRestores,
                            IF fmNew THEN CredentialCreates ELSE CredentialUpdates,
                            CredentialOffers),
    document |-> WorkForm(DocumentState, DocumentRestores,
                          IF fmNew THEN DocumentCreates ELSE DocumentUpdates, DocumentOffers),
    lead |-> WorkForm(LeadState, LeadRestores, LeadSends, LeadOffers),
    check |-> WorkForm(CheckState, CheckRestores, CheckSends, CheckInputs),
    task |-> WorkForm(TaskState, TaskRestores, TaskSends, TaskOffers),
    project |-> WorkForm(ProjectState, ProjectRestores, ProjectSends, ProjectOffers),
    client |-> WorkForm(ClientState, ClientRestores, ClientSends, ClientOffers),
    contact |-> WorkForm(ContactState, ContactRestores, ContactSends, ContactOffers),
    vendor |-> WorkForm(VendorState, {}, VendorState, VendorOffers),
    vendor_rule |-> WorkForm(RuleState, {}, RuleState, RuleOffers),
    mailbox |-> WorkForm(MailboxState, {}, MailboxState, MailboxOffers),
    queue_policy |-> WorkForm(PolicyState, PolicyRestores, PolicySends, PolicyOffers),
    staff_access |-> WorkForm(AccessState, AccessRestores, AccessSends, AccessOffers)]

FormKinds == DOMAIN WorkForms
ThisForm == WorkForms[fmKind]

\* Forms of a settings screen: the record they create is listed beside them.
Settings == {"vendor", "vendor_rule", "mailbox"}
\* What a settings form clears once its record is created.
ClearedByCreate == [vendor |-> VendorState, vendor_rule |-> {"match_value"},
                    mailbox |-> MailboxState]

------------------------------------------------------------------------------
\* The choice that depends on another.

\* task: its list, on its project and owner; mailbox: its queue, on its brand;
\* credential: a linked resource, on its owner; staff_access: a default queue,
\* on the queues granted; document: its folder, on its owner; project: its
\* client, and contact: its responsibilities, which only a client project
\* ("p") and an active contact ("p") have.
Dependent == {"task", "mailbox", "credential", "staff_access", "document", "project",
              "contact"}
OnlyUnderP == {"project", "contact"}
\* A control changes the scope.
ScopeOffered == CASE fmKind \in {"task", "mailbox", "project", "staff_access"} -> TRUE
                  [] fmKind = "credential" -> fmNew
                  [] OTHER -> FALSE

ScopeValues == {"p", "q"}
ChildValues == {"none"} \union ScopeValues

\* An internal credential ("q") may be linked to any resource.
LinkableTo(scope) == IF scope = "q" THEN {"p", "q"} ELSE {scope}

\* What the choice becomes as the scope changes.
TaskListKept(child, scope) == "none"
MailboxQueueKept(child, scope) == "none"
CredentialLinkKept(child, scope) == IF child \in LinkableTo(scope) THEN child ELSE "none"
DefaultQueueKept(child, scope) == IF child = scope THEN child ELSE "none"
ProjectClientKept(child, scope) == IF scope = "q" THEN "none" ELSE child
ChildKept(child, scope) ==
    CASE fmKind = "task" -> TaskListKept(child, scope)
      [] fmKind = "mailbox" -> MailboxQueueKept(child, scope)
      [] fmKind = "credential" -> CredentialLinkKept(child, scope)
      [] fmKind = "staff_access" -> DefaultQueueKept(child, scope)
      [] OTHER -> ProjectClientKept(child, scope)

\* What is offered as the choice.
TaskListsFor(scope) == {scope}
QueuesOf(scope) == {scope}
AccessibleQueues(scope) == {scope}
SectionsOf(scope) == {scope}
ClientsOf(scope) == IF scope = "p" THEN {"p"} ELSE {}
ResponsibilitiesOf(scope) == IF scope = "p" THEN {"p"} ELSE {}
ChildrenOf(scope) ==
    CASE fmKind = "task" -> TaskListsFor(scope)
      [] fmKind = "mailbox" -> QueuesOf(scope)
      [] fmKind = "credential" -> LinkableTo(scope)
      [] fmKind = "staff_access" -> AccessibleQueues(scope)
      [] fmKind = "document" -> SectionsOf(scope)
      [] fmKind = "project" -> ClientsOf(scope)
      [] fmKind = "contact" -> ResponsibilitiesOf(scope)
      [] OTHER -> {}

------------------------------------------------------------------------------
FieldValues == {"kept", "typed", "blank"}

\* options: it has its options; whole: it holds a loaded record; val: its value
\* of the field, base the value last loaded (for the properties), touched: the
\* user wrote it since; saving: isSaving; error: it shows one.
Drafts == [options : BOOLEAN, whole : BOOLEAN, val : FieldValues, base : FieldValues,
           touched : BOOLEAN, scope : ScopeValues, child : ChildValues,
           saving : BOOLEAN, error : BOOLEAN]
Saves == [val : FieldValues \union {"omitted"}, base : FieldValues, whole : BOOLEAN,
          touched : BOOLEAN, scope : ScopeValues, child : ChildValues, mine : BOOLEAN]

EmptyDraft == [options |-> FALSE, whole |-> FALSE, touched |-> FALSE,
               val |-> IF fmFld \in ThisForm.state THEN "blank" ELSE "undefined",
               base |-> "blank", scope |-> "p", child |-> "none",
               saving |-> FALSE, error |-> FALSE]

WorkTypeOK ==
    /\ fmKind \in FormKinds /\ fmNew \in BOOLEAN /\ fmFld \in ThisForm.sends
    /\ fmRec \in FieldValues /\ fmOpen \in BOOLEAN
    /\ fmLoad \in {"no", "all", "record", "options", "failed"}
    /\ fmForm \in Drafts /\ fmSaves \subseteq Saves /\ fmSent \in 0..MaxSaves

WorkInit ==
    /\ fmNew \in BOOLEAN /\ fmKind \in FormKinds
    /\ (fmKind \in Settings => fmNew) /\ (fmKind = "queue_policy" => ~fmNew)
    /\ fmFld \in ThisForm.sends
    /\ fmRec = (IF fmNew THEN "blank" ELSE "kept")
    /\ fmOpen = FALSE /\ fmLoad = "no" /\ fmForm = EmptyDraft
    /\ fmSaves = {} /\ fmSent = 0

------------------------------------------------------------------------------
\* Opening and loading.

\* Documents fetch the record, then the options of its owner; clients and
\* contacts have no options, and a new one loads nothing; the other forms
\* fetch everything and use nothing before it has come.
FirstFetch == CASE fmKind = "document" -> IF fmNew THEN "options" ELSE "record"
                [] fmKind \in {"client", "contact"} /\ fmNew -> "no"
                [] OTHER -> "all"

OpenForm ==
    /\ ~fmOpen
    /\ fmOpen' = TRUE /\ fmLoad' = FirstFetch /\ fmForm' = EmptyDraft
    /\ UNCHANGED <<fmWhat, fmRec, fmSaves, fmSent>>

\* The choices a loaded record brings belong to each other.
LoadedScopes == IF fmKind \in Dependent
                THEN {sc \in ScopeValues \X ChildValues : sc[2] \in {"none"} \union ChildrenOf(sc[1])}
                ELSE {<<"p", "none">>}
\* A new form starts from the choices its address or its owner names.
StartScopes == IF fmKind \in {"task", "credential", "document", "project"} /\ fmNew
               THEN LoadedScopes ELSE {<<"p", "none">>}

\* The form fills a field it restores with what the GET answered of it.
FilledField == IF fmFld \in ThisForm.restores /\ fmFld \in AnsweredBy[fmKind]
               THEN fmRec ELSE "blank"
Fills(draft) == \E sc \in LoadedScopes :
    fmForm' = [draft EXCEPT !.whole = TRUE, !.val = FilledField, !.base = fmRec,
                            !.touched = FALSE, !.scope = sc[1], !.child = sc[2],
                            !.saving = FALSE]
Starts(draft) == \E sc \in StartScopes :
    fmForm' = [draft EXCEPT !.scope = sc[1], !.child = sc[2]]

\* A settings screen that reads its lists again keeps what was chosen.
SettingsLoaded == fmForm' = [fmForm EXCEPT !.options = TRUE]

FormLoaded ==
    /\ fmOpen /\ fmLoad = "all" /\ fmLoad' = "no"
    /\ LET draft == [fmForm EXCEPT !.options = TRUE] IN
         CASE fmKind \in Settings -> SettingsLoaded
           [] ~fmNew -> Fills(draft)
           [] fmNew /\ fmKind = "check" -> fmForm' = draft
           [] OTHER -> Starts(draft)
    /\ UNCHANGED <<fmWhat, fmRec, fmOpen, fmSaves, fmSent>>

DocumentRead ==
    /\ fmOpen /\ fmLoad = "record" /\ fmLoad' = "options"
    /\ Fills(fmForm)
    /\ UNCHANGED <<fmWhat, fmRec, fmOpen, fmSaves, fmSent>>

DocumentOptionsRead ==
    /\ fmOpen /\ fmLoad = "options" /\ fmLoad' = "no"
    /\ LET draft == [fmForm EXCEPT !.options = TRUE] IN
         IF fmNew THEN Starts(draft) ELSE fmForm' = draft
    /\ UNCHANGED <<fmWhat, fmRec, fmOpen, fmSaves, fmSent>>

\* The targets of a queue that could not be read are not listed.
FormLoadFails ==
    /\ fmOpen /\ fmLoad \in {"all", "record", "options"} /\ fmLoad' = "failed"
    /\ fmForm' = IF fmKind = "queue_policy" THEN EmptyDraft
                 ELSE [fmForm EXCEPT !.error = TRUE]
    /\ UNCHANGED <<fmWhat, fmRec, fmOpen, fmSaves, fmSent>>

------------------------------------------------------------------------------
\* What is shown in place of the form.

Reading == fmLoad \in {"all", "record", "options"}
CredentialShown == fmForm.options
\* Mutant of TaskShown: the form is shown once its load is over, failed or not.
TaskShownUnread == ~Reading

TaskShown == fmForm.options
AccessShown == fmForm.options
PolicyShown == fmForm.whole
SettingsShown == ~Reading
DocumentShown == ~Reading
LeadShown == ~Reading
CheckShown == ~Reading
ProjectShown == ~Reading
ClientShown == ~Reading
ContactShown == ~Reading
OnScreen == fmOpen /\
    CASE fmKind = "credential" -> CredentialShown [] fmKind = "task" -> TaskShown
      [] fmKind = "staff_access" -> AccessShown [] fmKind = "queue_policy" -> PolicyShown
      [] fmKind = "document" -> DocumentShown [] fmKind = "lead" -> LeadShown
      [] fmKind = "check" -> CheckShown [] fmKind = "project" -> ProjectShown
      [] fmKind = "client" -> ClientShown [] fmKind = "contact" -> ContactShown
      [] OTHER -> SettingsShown

\* Only the credential form disables its controls during a save.
FormEditable == OnScreen /\ (fmKind = "credential" => ~fmForm.saving)

\* Retry: the access editor without its options; a check or a settings screen
\* that shows any error, a refused save's too.  A check reads its record again.
Retry ==
    /\ fmOpen /\ ~Reading /\ fmForm.error
    /\ \/ fmKind = "staff_access" /\ ~fmForm.options
       \/ fmKind = "check" \/ fmKind \in Settings
    /\ fmLoad' = "all" /\ fmForm' = [fmForm EXCEPT !.error = FALSE]
    /\ UNCHANGED <<fmWhat, fmRec, fmOpen, fmSaves, fmSent>>

------------------------------------------------------------------------------
\* Writing.

\* A document's links are listed to choose from once its options have come.
WriteField ==
    /\ FormEditable /\ fmFld \in ThisForm.offers
    /\ fmKind = "document" /\ fmFld \in DocumentLinks => fmForm.options
    /\ fmForm' = [fmForm EXCEPT !.val = "typed", !.touched = TRUE]
    /\ UNCHANGED <<fmWhat, fmRec, fmOpen, fmLoad, fmSaves, fmSent>>

ChangeScope == \E s \in ScopeValues \ {fmForm.scope} :
    /\ FormEditable /\ ScopeOffered
    /\ fmForm' = [fmForm EXCEPT !.scope = s, !.child = ChildKept(fmForm.child, s)]
    /\ UNCHANGED <<fmWhat, fmRec, fmOpen, fmLoad, fmSaves, fmSent>>

\* The options of the choice come with the form's options.
ChooseChild ==
    /\ FormEditable /\ fmKind \in Dependent
    /\ fmForm.options \/ fmKind = "contact"
    /\ \E c \in ChildrenOf(fmForm.scope) \union
                (IF fmKind = "document" THEN {} ELSE {"none"}) :
          fmForm' = [fmForm EXCEPT !.child = c]
    /\ UNCHANGED <<fmWhat, fmRec, fmOpen, fmLoad, fmSaves, fmSent>>

\* A stage or a source added in the lead form is selected when it has been
\* created, whatever was selected meanwhile.
OptionAdded ==
    /\ OnScreen /\ fmKind = "lead" /\ fmFld \in {"status", "source"}
    /\ fmForm' = [fmForm EXCEPT !.val = "typed", !.touched = TRUE]
    /\ UNCHANGED <<fmWhat, fmRec, fmOpen, fmLoad, fmSaves, fmSent>>

------------------------------------------------------------------------------
\* Saving.

\* What is refused before anything is sent.
CredentialComplete == fmNew => fmForm.options
DocumentComplete == fmForm.child # "none" /\ (fmForm.whole \/ fmForm.touched)
CheckComplete == fmNew => fmForm.options
ContactComplete == fmForm.scope = "p"
MailboxComplete == fmForm.child # "none"
RuleComplete == fmFld = "match_value" => fmForm.touched
Complete == CASE fmKind = "credential" -> CredentialComplete
              [] fmKind = "document" -> DocumentComplete
              [] fmKind = "check" -> CheckComplete
              [] fmKind = "contact" -> ContactComplete
              [] fmKind = "mailbox" -> MailboxComplete
              [] fmKind = "vendor_rule" -> RuleComplete
              [] OTHER -> TRUE

\* The links of a document are sent only with the options they are shown by.
SentValue == IF fmKind = "document" /\ ~fmNew /\ ~fmForm.options
                  /\ fmFld \in DocumentLinks
             THEN "omitted" ELSE fmForm.val

\* The client goes with a client project only.
SentChild == IF fmKind = "project" /\ fmForm.scope = "q" THEN "none" ELSE fmForm.child

Send(draft) ==
    /\ fmSent < MaxSaves /\ fmSent' = fmSent + 1
    /\ fmForm' = [draft EXCEPT !.saving = TRUE, !.error = FALSE]
    /\ fmSaves' = fmSaves \union {[val |-> SentValue, base |-> draft.base,
          whole |-> draft.whole, touched |-> draft.touched, scope |-> draft.scope,
          child |-> IF draft.child = fmForm.child THEN SentChild ELSE draft.child,
          mine |-> TRUE]}

SubmitForm ==
    /\ OnScreen /\ ~fmForm.saving /\ Complete
    /\ Send(fmForm)
    /\ UNCHANGED <<fmWhat, fmRec, fmOpen, fmLoad>>

\* Deactivating a contact takes its responsibilities from the draft and saves
\* the rest of the draft with it.
ChangeActive == \E s \in ScopeValues \ {fmForm.scope} :
    /\ OnScreen /\ fmKind = "contact" /\ ~fmNew /\ ~fmForm.saving
    /\ Send([fmForm EXCEPT !.scope = s, !.child = IF s = "q" THEN "none" ELSE fmForm.child])
    /\ UNCHANGED <<fmWhat, fmRec, fmOpen, fmLoad>>

\* What an update leaves in the record: a field it does not take, a list that
\* was not sent and a secret left blank stay; the summary of a change is kept
\* only with a new version of the text.
FormStored(save) ==
    IF \/ fmFld \notin TakenBy[fmKind] \/ save.val = "omitted"
       \/ fmFld = "secret_values" /\ save.val = "blank"
    THEN {fmRec}
    ELSE {save.val} \union (IF fmFld = "change_summary" THEN {fmRec} ELSE {})

Stays == fmKind \in Settings \/ fmKind = "queue_policy" \/ (fmKind = "staff_access" /\ ~fmNew)

\* A settings form is cleared and its lists read again; queue targets are all
\* read again; the access editor stays; the other forms go to the record they
\* saved, even from a page that has been left or opened again meanwhile.
AfterSave ==
    CASE fmKind \in Settings ->
           /\ fmOpen' = fmOpen /\ fmLoad' = IF fmOpen THEN "all" ELSE "no"
           /\ fmForm' = IF ~fmOpen THEN fmForm
                        ELSE [fmForm EXCEPT !.saving = FALSE,
                                !.val = IF fmFld \in ClearedByCreate[fmKind] THEN "blank"
                                        ELSE @,
                                !.touched = @ /\ fmFld \notin ClearedByCreate[fmKind],
                                !.child = "none"]
      [] fmKind = "queue_policy" ->
           /\ fmOpen' = fmOpen /\ fmLoad' = IF fmOpen THEN "all" ELSE "no"
           /\ fmForm' = fmForm
      [] fmKind = "staff_access" /\ ~fmNew ->
           /\ fmForm' = [fmForm EXCEPT !.saving = FALSE]
           /\ UNCHANGED <<fmOpen, fmLoad>>
      [] OTHER -> fmOpen' = FALSE /\ fmLoad' = "no" /\ fmForm' = EmptyDraft

FormSaved == \E save \in fmSaves :
    /\ fmSaves' = fmSaves \ {save}
    /\ fmRec' \in IF fmNew THEN {fmRec} ELSE FormStored(save)
    /\ IF save.mine \/ ~Stays THEN AfterSave
       ELSE UNCHANGED <<fmOpen, fmLoad, fmForm>>
    /\ UNCHANGED <<fmWhat, fmSent>>

\* Refused, or stored with its answer lost: the form that sent it says so and
\* keeps its draft.
FormRefused == \E save \in fmSaves :
    /\ fmSaves' = fmSaves \ {save}
    /\ fmRec' \in {fmRec} \union (IF fmNew THEN {} ELSE FormStored(save))
    /\ fmForm' = IF save.mine THEN [fmForm EXCEPT !.saving = FALSE, !.error = TRUE]
                 ELSE fmForm
    /\ UNCHANGED <<fmWhat, fmOpen, fmLoad, fmSent>>

\* Another row of the same screen is saved, which reads everything again.
OtherRowSaved ==
    /\ \/ fmKind = "queue_policy" /\ fmOpen
       \/ fmKind \in Settings /\ OnScreen /\ ~fmForm.saving
    /\ fmLoad' = "all"
    /\ UNCHANGED <<fmWhat, fmRec, fmOpen, fmForm, fmSaves, fmSent>>

\* Only the credential form holds the user while it saves.
LeaveForm ==
    /\ fmOpen /\ (fmKind = "credential" => ~fmForm.saving)
    /\ fmOpen' = FALSE /\ fmLoad' = "no" /\ fmForm' = EmptyDraft
    /\ fmSaves' = {[save EXCEPT !.mine = FALSE] : save \in fmSaves}
    /\ UNCHANGED <<fmWhat, fmRec, fmSent>>

WorkNext == OpenForm \/ FormLoaded \/ DocumentRead \/ DocumentOptionsRead \/ FormLoadFails
              \/ Retry \/ WriteField \/ ChangeScope \/ ChooseChild \/ OptionAdded
              \/ SubmitForm \/ ChangeActive \/ FormSaved \/ FormRefused \/ OtherRowSaved
              \/ LeaveForm

WorkSpec == WorkInit /\ [][WorkNext]_fmVars

------------------------------------------------------------------------------
\* Properties.

\* Whatever loads, refusals and changes of mind came before, a request never
\* pairs a choice with a scope it does not belong to: a task list of another
\* project, a queue of another brand, a link outside the owner, a default
\* queue without access, a client on internal work, a responsibility held by
\* an inactive contact.
DependentsSentInScope ==
    \A save \in fmSaves : save.child \in {"none"} \union ChildrenOf(save.scope)

\* A field nobody wrote goes back as it was read: what a form keeps, what it
\* fills from the record and what it sends are three lists that agree.
FieldsSentBack ==
    \A save \in fmSaves : save.whole /\ ~save.touched =>
        save.val \in {save.base, "omitted"}
          \/ (fmFld \in {"secret_values", "cleared_secrets", "change_summary"}
                /\ save.val = "blank")

\* A form that may not be shown without its record never replaces the record
\* by its own defaults, however its loads fail.  (The lead, check, project,
\* client and contact forms do.)
DefaultsNotSaved ==
    fmKind \in {"credential", "document", "task", "staff_access", "queue_policy"} /\ ~fmNew
      => \A save \in fmSaves : save.whole

\* What the user wrote stays in an open form through reloads, other saves and
\* refusals, but for the three places known to replace it: queue targets when
\* any of them is saved, a check read again, and a settings form cleared once
\* its own record has been created.
DraftStays ==
    [][ fmOpen /\ fmOpen' /\ fmForm.touched
          /\ fmKind # "queue_policy" /\ (fmKind = "check" => fmNew)
          /\ (fmKind \in Settings => fmSaves' = fmSaves \/ fmForm'.error)
          => fmForm'.touched /\ fmForm'.val = "typed" ]_fmVars

\* What the user wrote in the form of a record has reached the record once the
\* save is answered: the form sends every field it lets the user write, and the
\* update takes every field the form sends.  (The summary of a document's
\* change goes to the version, when there is one.)
WrittenReachesRecord ==
    [][ FormSaved /\ ~fmNew /\ fmFld # "change_summary"
          => \E save \in fmSaves : save \notin fmSaves'
                /\ (save.touched => fmRec' = "typed") ]_fmVars
=============================================================================
