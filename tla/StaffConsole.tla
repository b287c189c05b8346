----------------------------- MODULE StaffConsole -----------------------------
(***************************************************************************)
(* The staff console, one page at a time.  csPage is the page the user has *)
(* open; only its component takes steps, and the others wait in one of     *)
(* their initial states.                                                   *)
(***************************************************************************)
EXTENDS ResourceEditing, ResourceCreation, NestedRecords, ContentEditing,
        WorkForms

VARIABLE csPage

Pages == {"resource", "register", "card", "content", "work"}

consoleVars == <<csPage, edVars, crVars, nrVars, coVars, fmVars>>

ConsoleInit ==
    /\ csPage \in Pages
    /\ EditInit /\ (csPage # "resource" => edTy = "server" /\ edFld = "name")
    /\ CreateInit /\ (csPage # "register" => crTy = "server")
    /\ NestedInit
    /\ (csPage # "card" => nrCard = "endpoint" /\ nrFld = "name"
                           /\ nrStore = Rows \ {CHOOSE r \in Rows : TRUE})
    /\ ContentInit
    /\ (csPage # "content" => coKind = "faq" /\ coFld = "question"
                              /\ coStore[CHOOSE i \in Items : TRUE] = "gone")
    /\ WorkInit
    /\ (csPage # "work" => fmKind = "client" /\ fmFld = "name" /\ ~fmNew)

Still(p) ==
    /\ csPage = p /\ csPage' = p
    /\ IF p = "resource" THEN TRUE ELSE UNCHANGED edVars
    /\ IF p = "register" THEN TRUE ELSE UNCHANGED crVars
    /\ IF p = "card" THEN TRUE ELSE UNCHANGED nrVars
    /\ IF p = "content" THEN TRUE ELSE UNCHANGED coVars
    /\ IF p = "work" THEN TRUE ELSE UNCHANGED fmVars

ConsoleNext ==
    \/ Still("resource") /\ EditNext
    \/ Still("register") /\ CreateNext
    \/ Still("card") /\ NestedNext
    \/ Still("content") /\ ContentNext
    \/ Still("work") /\ WorkNext

ConsoleSpec == ConsoleInit /\ [][ConsoleNext]_consoleVars

-----------------------------------------------------------------------------
\* Properties: what the forms of the five families promise together.

\* Every field, row, request and answer has its type on every page.
ConsoleTypeOK ==
    EditTypeOK /\ CreateTypeOK /\ NestedTypeOK /\ ContentTypeOK /\ WorkTypeOK

\* What the user did not write goes back to the server as it was read from the
\* same record, on every page that sends whole records, but for the two losses
\* that KnownLoss names.
UntouchedSentBack ==
    SentBackAsRead /\ RowsNeverMixed /\ ContentSentBack /\ FieldsSentBack

\* A form that must not be shown without its record never replaces the record
\* by the form's defaults.
RecordsNotBlanked == ComputeSavesWhatItRead /\ DefaultsNotSaved

\* A choice that belongs to one owner is never sent, or stored, for another.
ReferencesStayWithOwner ==
    HiddenReferenceNeverSent /\ ClientsStayApart /\ DependentsSentInScope

\* A content page whose requests were answered shows what the server keeps,
\* its image editor the image of its own item, and an edit the server accepted
\* is in the item as it was sent.
PageShowsServer == ContentListTrue /\ ImageIsItsOwn /\ EditReachesItem

\* What the user wrote outlives the loads, live events and answers that arrive
\* while the form is open; a save answered as done has reached the record, and
\* a content item that was created holds what its form sent.
DraftsSurvive == DraftKept /\ SaveReachesRecord /\ DraftOutlivesAnswer /\ SavedRowHolds
                   /\ DraftStays /\ WrittenReachesRecord /\ DraftBecomesItem
=============================================================================
