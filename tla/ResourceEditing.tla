--------------------------- MODULE ResourceEditing ---------------------------
(***************************************************************************)
(* Editing one infrastructure resource in the staff console: the workspace *)
(* of the resource (loads, live refreshes, its error screen), the form it  *)
(* opens (options, saved record, typing, saving) and the record the server *)
(* keeps.  One field edFld of the payload is followed; the fields of a     *)
(* form do not depend on each other.  Its value is "kept" (as first        *)
(* saved), "typed" (what the user wrote), "blank" (the form's own default) *)
(* or "moved" (an instant read back in another time zone).                 *)
(***************************************************************************)
EXTENDS Naturals, FiniteSets, ResourceRecords

CONSTANTS
    MaxLoads,   \* bound on workspace loads in flight
    MaxHints,   \* bound on re-renders of the workspace by a permission hint
    MaxSubmits  \* bound on the PUTs a run sends

ASSUME EditBounds == {MaxLoads, MaxHints, MaxSubmits} \subseteq Nat

VARIABLES
    edTy, edFld,    \* the resource's type and the field followed
    edRec,          \* the server's value of the field
    edWs, edErr,    \* workspace: loads in flight, its error screen
    edOpen,         \* isEditing
    edForm,         \* the state of the form
    edPuts,         \* PUTs in flight
    edHints, edSubmits

edResource == <<edTy, edFld>>
edPage == <<edWs, edErr>>
edVars == <<edResource, edRec, edPage, edOpen, edForm, edPuts, edHints, edSubmits>>

Values == {"kept", "typed", "blank", "moved"}

\* load: the form's own load; ready: it has its options; whole: it holds a
\* loaded record; val: its value of the field, base the value last loaded
\* (for the properties), touched: the user wrote it since; named: its name is
\* not blank; saving: isSaving.
Form == [load : {"no", "options", "detail", "both"}, ready : BOOLEAN, whole : BOOLEAN,
         val : Values, base : Values, touched : BOOLEAN, named : BOOLEAN, saving : BOOLEAN]
Put == [val : Values, base : Values, touched : BOOLEAN, whole : BOOLEAN, mine : BOOLEAN]

BlankForm == [load |-> "no", ready |-> FALSE, whole |-> FALSE, val |-> "blank",
              base |-> "blank", touched |-> FALSE, named |-> FALSE, saving |-> FALSE]

EditTypeOK ==
    /\ edTy \in ResourceTypes /\ edFld \in Sent(edTy) /\ edRec \in Values
    /\ edWs \in 0..MaxLoads /\ edErr \in BOOLEAN /\ edOpen \in BOOLEAN
    /\ edForm \in Form /\ edPuts \subseteq Put
    /\ edHints \in 0..MaxHints /\ edSubmits \in 0..MaxSubmits

EditInit ==
    /\ edTy \in ResourceTypes /\ edFld \in Sent(edTy) /\ edRec = "kept"
    /\ edWs = 0 /\ edErr = FALSE /\ edOpen = FALSE
    /\ edForm = BlankForm /\ edPuts = {} /\ edHints = 0 /\ edSubmits = 0

fam == Family(edTy)

---------------------------------------------------------------------------
\* The load of each form.

\* The data and web forms fetch the options, then the record; the others
\* fetch both and use neither before it has both.
FirstLoad == IF fam \in {"data", "web"} THEN "options" ELSE "both"
MountedForm == [BlankForm EXCEPT !.load = FirstLoad]

\* The value a form's state takes from a loaded record.
FromRecord ==
    IF edFld \notin Restored(edTy) \intersect Answered(edTy) THEN "blank"
    ELSE IF fam \in {"operational", "compute"} /\ edFld \in Instants THEN "moved"
    ELSE edRec

\* Which screen the form shows instead of its controls while it loads.
ComputeShown == edForm.ready
DataShown == edForm.ready
WebShown == edForm.ready /\ edForm.load = "no"
OperationalShown == edForm.load = "no"
CatalogueShown == edForm.load = "no"

Mounted == edOpen /\ ~edErr
Shown == /\ Mounted
         /\ CASE fam = "compute" -> ComputeShown [] fam = "data" -> DataShown
              [] fam = "web" -> WebShown [] fam = "operational" -> OperationalShown
              [] OTHER -> CatalogueShown

\* The controls of the web and operational forms stay enabled during a save.
Writable == Shown /\ (edForm.saving => fam \in {"web", "operational"})

\* A PUT goes on when the form that sent it goes.
Orphaned == {[p EXCEPT !.mine = FALSE] : p \in edPuts}

\* Mutant of Rerendered: the load effect of every form depends on the array.
EveryFormReloads == IF Mounted THEN [edForm EXCEPT !.load = FirstLoad] ELSE edForm

\* A render of the workspace passes the form a new allowedTypes array, on
\* which the load effects of the compute and web forms depend.
Rerendered == IF Mounted /\ fam \in {"compute", "web"}
              THEN [edForm EXCEPT !.load = FirstLoad] ELSE edForm

OpenEdit ==
    /\ ~edOpen /\ ~edErr
    /\ edOpen' = TRUE /\ edForm' = MountedForm
    /\ UNCHANGED <<edResource, edRec, edPage, edPuts, edHints, edSubmits>>

OptionsArrive ==
    /\ Mounted /\ edForm.load = "options"
    /\ edForm' = [edForm EXCEPT !.ready = TRUE, !.load = "detail"]
    /\ UNCHANGED <<edResource, edRec, edPage, edOpen, edPuts, edHints, edSubmits>>

RecordArrives ==
    /\ Mounted /\ edForm.load \in {"detail", "both"}
    /\ edForm' = [edForm EXCEPT !.load = "no", !.ready = TRUE, !.whole = TRUE,
                    !.val = FromRecord, !.base = edRec, !.touched = FALSE, !.named = TRUE]
    /\ UNCHANGED <<edResource, edRec, edPage, edOpen, edPuts, edHints, edSubmits>>

\* The forms that fetch both lose the options with the record.
LoadFails ==
    /\ Mounted /\ edForm.load # "no"
    /\ edForm' = [edForm EXCEPT !.load = "no"]
    /\ UNCHANGED <<edResource, edRec, edPage, edOpen, edPuts, edHints, edSubmits>>

---------------------------------------------------------------------------
\* Typing, saving, leaving.

TypeField ==
    /\ Writable
    /\ \E hosting \in {"managed", "container"} : edFld \in Controls(edTy, hosting)
    /\ edForm' = [edForm EXCEPT !.val = "typed", !.touched = TRUE,
                                !.named = edForm.named \/ edFld = "name"]
    /\ UNCHANGED <<edResource, edRec, edPage, edOpen, edPuts, edHints, edSubmits>>

TypeName ==
    /\ Writable /\ ~edForm.named /\ edFld # "name"
    /\ edForm' = [edForm EXCEPT !.named = TRUE]
    /\ UNCHANGED <<edResource, edRec, edPage, edOpen, edPuts, edHints, edSubmits>>

\* submit refuses a blank name before it sends anything.
Submit ==
    /\ edSubmits < MaxSubmits /\ edSubmits' = edSubmits + 1
    /\ Shown /\ ~edForm.saving /\ edForm.named
    /\ edForm' = [edForm EXCEPT !.saving = TRUE]
    /\ edPuts' = edPuts \union {[val |-> edForm.val, base |-> edForm.base, mine |-> TRUE,
                                 touched |-> edForm.touched, whole |-> edForm.whole]}
    /\ UNCHANGED <<edResource, edRec, edPage, edOpen, edHints>>

\* What the record holds once the server has taken a PUT.
Taken(p) == IF edFld \in Updated(edTy) THEN p.val ELSE edRec

\* The PUT replaces the record; onSaved leaves the editor and loads the page,
\* whichever form is open by then.
SaveAnswered == \E p \in edPuts :
    /\ edWs < MaxLoads
    /\ edRec' = Taken(p) /\ edPuts' = edPuts \ {p}
    /\ edOpen' = FALSE /\ edForm' = BlankForm
    /\ edWs' = edWs + 1 /\ edErr' = FALSE
    /\ UNCHANGED <<edResource, edHints, edSubmits>>

\* Refused, or accepted with its answer lost: the form that sent it shows an
\* error and keeps its state; a form that has gone shows nothing.
SaveFails == \E p \in edPuts :
    /\ edRec' \in {edRec, Taken(p)}
    /\ edPuts' = edPuts \ {p}
    /\ edForm' = [edForm EXCEPT !.saving = edForm.saving /\ ~p.mine]
    /\ UNCHANGED <<edResource, edPage, edOpen, edHints, edSubmits>>

\* Only the operational form lets the user leave during a save.
Cancel ==
    /\ Shown /\ (edForm.saving => fam = "operational")
    /\ edOpen' = FALSE /\ edForm' = BlankForm /\ edPuts' = Orphaned
    /\ UNCHANGED <<edResource, edRec, edPage, edHints, edSubmits>>

---------------------------------------------------------------------------
\* The workspace around the form.

\* A live refresh loads the page unless it is being edited; Retry loads it
\* from the error screen, which a load clears as it starts.
WorkspaceLoads ==
    /\ edWs < MaxLoads /\ (~edOpen \/ edErr)
    /\ edWs' = edWs + 1 /\ edErr' = FALSE
    /\ edForm' = IF edOpen THEN MountedForm ELSE BlankForm
    /\ UNCHANGED <<edResource, edRec, edOpen, edPuts, edHints, edSubmits>>

WorkspaceLoaded ==
    /\ edWs > 0 /\ edWs' = edWs - 1
    /\ edForm' = Rerendered
    /\ UNCHANGED <<edResource, edRec, edErr, edOpen, edPuts, edHints, edSubmits>>

\* A failed load shows the error screen in place of whatever was shown.
WorkspaceLoadFails ==
    /\ edWs > 0 /\ edWs' = edWs - 1 /\ edErr' = TRUE
    /\ edForm' = BlankForm /\ edPuts' = Orphaned
    /\ UNCHANGED <<edResource, edRec, edOpen, edHints, edSubmits>>

\* A permission hint of the live stream refreshes the current user, for which
\* every component that reads the user is rendered.
PermissionHint ==
    /\ edHints < MaxHints /\ edHints' = edHints + 1
    /\ edForm' = Rerendered
    /\ UNCHANGED <<edResource, edRec, edPage, edOpen, edPuts, edSubmits>>

EditNext == OpenEdit \/ OptionsArrive \/ RecordArrives \/ LoadFails \/ TypeField \/ TypeName
              \/ Submit \/ SaveAnswered \/ SaveFails \/ Cancel \/ WorkspaceLoads
              \/ WorkspaceLoaded \/ WorkspaceLoadFails \/ PermissionHint

EditSpec == EditInit /\ [][EditNext]_edVars

---------------------------------------------------------------------------
\* Properties.

\* What the forms are known to lose: the schedule of a scheduled job, which
\* the operational form does not restore, and the zone of an instant.
KnownLoss(val) ==
    \/ edFld = "schedule_expression" /\ val = "blank"
    \/ edFld \in Instants /\ val = "moved"

\* A field that nobody wrote is sent back as it was read, for every type and
\* every field: the three hand-written lists of each form (state, controls,
\* payload) agree, but for the two losses above.
SentBackAsRead ==
    \A p \in edPuts : p.whole /\ ~p.touched => p.val = p.base \/ KnownLoss(p.val)

\* The record of a scheduled job keeps the schedule it records when someone
\* edits another of its fields.  The code blanks it: the form reads the
\* schedule under a backup plan's key.
JobKeepsItsSchedule ==
    edFld = "schedule_expression" =>
        \A p \in edPuts : p.whole /\ ~p.touched => p.val = p.base

\* Once a data, operational or catalogue form holds its record, what the user
\* writes stays until the form itself goes.
DraftKept ==
    [][ edForm.touched /\ edForm.whole /\ edOpen /\ fam \notin {"compute", "web"}
          => \/ edForm'.touched /\ edForm'.val = edForm.val
             \/ ~edOpen' \/ edErr' ]_edVars

\* A save that is answered as done leaves in the record what its form showed:
\* the lists of the server's update cover the lists of the forms.
SaveReachesRecord ==
    [][ SaveAnswered => \E p \in edPuts : p \notin edPuts' /\ edRec' = p.val ]_edVars

\* The compute form never replaces a record it could not read.
ComputeSavesWhatItRead ==
    fam = "compute" => \A p \in edPuts : p.whole
=============================================================================
