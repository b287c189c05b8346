--------------------------- MODULE ResourceCreation ---------------------------
(***************************************************************************)
(* Creating an infrastructure resource from the register: the form chosen  *)
(* for a type, the ownership of the new resource, and one reference to an  *)
(* existing resource (its server, provider account, network or parent).    *)
(* A select offers the references the chosen owner may use; when the owner *)
(* changes, each form has its own rule for a reference chosen before.      *)
(***************************************************************************)
EXTENDS Naturals, FiniteSets, ResourceForms

CONSTANTS Clients, NoClient, NoReference, MaxPosts

\* Owners and the absence of one are told apart.
ASSUME CreateIdentities ==
    {"internal", NoReference, NoClient} \intersect Clients = {} /\ MaxPosts \in Nat

VARIABLES
    crTy,        \* the type chosen in the register
    crOpen,      \* the create form is shown
    crOwner,     \* "internal" or "client"
    crClient,    \* the client chosen
    crReference, \* the owner of the resource referred to
    crSaving,
    crPosts,     \* POSTs in flight
    crMade,      \* resources created
    crError,     \* the register shows its error screen
    crSent       \* POSTs sent

crVars == <<crTy, crOpen, crOwner, crClient, crReference, crSaving, crPosts, crMade, crError,
            crSent>>

Owners == Clients \union {"internal"}
Resource == [owner : Owners \union {NoClient}, reference : Owners \union {NoReference}]

\* A POST and whether the form that sent it is still mounted.
Post == [of : Resource, mine : BOOLEAN]

CreateTypeOK ==
    /\ crTy \in ResourceTypes /\ crOpen \in BOOLEAN /\ crOwner \in {"internal", "client"}
    /\ crClient \in Clients \union {NoClient}
    /\ crReference \in Owners \union {NoReference}
    /\ crSaving \in BOOLEAN /\ crError \in BOOLEAN
    /\ crPosts \subseteq Post /\ crMade \subseteq Resource /\ crSent \in 0..MaxPosts

CreateInit ==
    /\ crTy \in ResourceTypes
    /\ crOpen = FALSE /\ crOwner = "internal" /\ crClient = NoClient
    /\ crReference = NoReference /\ crSaving = FALSE
    /\ crPosts = {} /\ crMade = {} /\ crError = FALSE /\ crSent = 0

crForm == Family(crTy)

\* The owner the form stands for: a client form without a client has none.
Owner == IF crOwner = "internal" THEN "internal" ELSE crClient

\* What each form offers to refer to.
DataOffers == {"internal"} \union ({Owner} \intersect Clients)
WebOffers == {"internal"} \union ({Owner} \intersect Clients)
ComputeOffers == {"internal"} \union ({Owner} \intersect Clients)
OperationalOffers == {Owner} \intersect Owners

Offered == CASE crForm = "data" -> DataOffers [] crForm = "web" -> WebOffers
             [] crForm = "compute" -> ComputeOffers
             [] crForm = "operational" -> OperationalOffers
             [] OTHER -> {}

\* The reference after the owner changes: the compute form clears it where
\* the owner is chosen, the data form in an effect on the owner, the web and
\* operational forms keep it, offered or not.
ComputeKeeps == NoReference
\* Mutant of DataKeeps: no effect on the owner.
StaleReference == crReference

DataKeeps == NoReference
Kept == CASE crForm = "compute" -> ComputeKeeps [] crForm = "data" -> DataKeeps
          [] OTHER -> crReference

Editable == crOpen /\ ~crError /\ (crSaving => crForm \in {"web", "operational"})

OpenCreate ==
    /\ ~crOpen /\ ~crError
    /\ crOpen' = TRUE /\ crOwner' = "internal" /\ crClient' = NoClient
    /\ crReference' = NoReference /\ crSaving' = FALSE
    /\ UNCHANGED <<crTy, crPosts, crMade, crError, crSent>>

ChooseOwnership == \E o \in {"internal", "client"} :
    /\ Editable /\ o # crOwner
    /\ crOwner' = o
    /\ crClient' = IF o = "internal" \/ crForm \in {"compute", "catalogue"}
                   THEN NoClient ELSE crClient
    /\ crReference' = Kept
    /\ UNCHANGED <<crTy, crOpen, crSaving, crPosts, crMade, crError, crSent>>

ChooseClient == \E c \in Clients \union {NoClient} :
    /\ Editable /\ crOwner = "client" /\ c # crClient
    /\ crClient' = c /\ crReference' = Kept
    /\ UNCHANGED <<crTy, crOpen, crOwner, crSaving, crPosts, crMade, crError, crSent>>

ChooseReference == \E r \in Offered \union {NoReference} :
    /\ Editable /\ crReference' = r
    /\ UNCHANGED <<crTy, crOpen, crOwner, crClient, crSaving, crPosts, crMade, crError, crSent>>

\* Every form refuses a client-owned resource without its client.
SubmitCreate ==
    /\ crSent < MaxPosts /\ crSent' = crSent + 1
    /\ crOpen /\ ~crError /\ ~crSaving
    /\ crOwner = "client" => crClient # NoClient
    /\ crSaving' = TRUE
    /\ crPosts' = crPosts \union
         {[of |-> [owner |-> Owner, reference |-> crReference], mine |-> TRUE]}
    /\ UNCHANGED <<crTy, crOpen, crOwner, crClient, crReference, crMade, crError>>

\* The server's rule for compute, data and web resources (one function in
\* three copies): two clients' resources are never joined.  For a parent it
\* also refuses a client's under an internal child, which is left out here:
\* the model lets more through.
ValidBoundary(p) == {p.owner, p.reference} \subseteq Clients => p.owner = p.reference

\* Its rule for the operational resources.
SameScope(p) == p.owner = p.reference

Storable(p) == \/ p.reference = NoReference
               \/ crForm = "operational" /\ SameScope(p)
               \/ crForm # "operational" /\ ValidBoundary(p)

\* A request goes on when its form goes.
Orphans(posts) == {[p EXCEPT !.mine = FALSE] : p \in posts}

\* The register closes whichever form is shown and opens the new resource.
Created == \E p \in crPosts :
    /\ Storable(p.of)
    /\ crMade' = crMade \union {p.of} /\ crPosts' = Orphans(crPosts \ {p})
    /\ crOpen' = FALSE /\ crSaving' = FALSE
    /\ UNCHANGED <<crTy, crOwner, crClient, crReference, crError, crSent>>

\* Refused, or accepted with its answer lost.
CreateFails == \E p \in crPosts :
    /\ crMade' \in {crMade} \union (IF Storable(p.of) THEN {crMade \union {p.of}} ELSE {})
    /\ crPosts' = crPosts \ {p} /\ crSaving' = (crSaving /\ ~p.mine)
    /\ UNCHANGED <<crTy, crOpen, crOwner, crClient, crReference, crError, crSent>>

\* Cancel in the form, or Escape and Close in the drawer around it, which do
\* not ask whether the form is saving.
CloseCreate ==
    /\ crOpen /\ ~crError
    /\ crOpen' = FALSE /\ crSaving' = FALSE /\ crPosts' = Orphans(crPosts)
    /\ UNCHANGED <<crTy, crOwner, crClient, crReference, crMade, crError, crSent>>

\* A refresh of the register that fails takes the open form with it; a new
\* form is mounted when a retry succeeds.
RegisterFails ==
    /\ ~crError /\ crError' = TRUE
    /\ crOwner' = "internal" /\ crClient' = NoClient /\ crReference' = NoReference
    /\ crSaving' = FALSE /\ crPosts' = Orphans(crPosts)
    /\ UNCHANGED <<crTy, crOpen, crMade, crSent>>

RegisterRetried ==
    /\ crError /\ crError' = FALSE
    /\ UNCHANGED <<crTy, crOpen, crOwner, crClient, crReference, crSaving, crPosts, crMade, crSent>>

CreateNext == OpenCreate \/ ChooseOwnership \/ ChooseClient \/ ChooseReference \/ SubmitCreate
                \/ Created \/ CreateFails \/ CloseCreate \/ RegisterFails \/ RegisterRetried

CreateSpec == CreateInit /\ [][CreateNext]_crVars

---------------------------------------------------------------------------
\* Properties.

\* The compute and data forms send no reference that their select does not
\* offer for the owner they send: a reference chosen for another owner cannot
\* stay behind, hidden, and be stored.  (The web form keeps one, and the
\* server stores a client's resource under an internal one.)
HiddenReferenceNeverSent ==
    crForm \in {"compute", "data"} =>
        \A p \in crPosts : p.of.reference \in {NoReference, "internal", p.of.owner}

\* No resource of one client ever refers to another client's, whichever form
\* and whatever was chosen before.
ClientsStayApart ==
    \A p \in crMade : {p.owner, p.reference} \intersect Clients # {} =>
        Cardinality({p.owner, p.reference} \intersect Clients) = 1
=============================================================================
