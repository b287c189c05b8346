----------------------------- MODULE NestedRecords -----------------------------
(***************************************************************************)
(* The cards of a resource's workspace that edit rows below the resource:  *)
(* container services, Kubernetes records, website endpoints, DNS records, *)
(* certificate domains, network interfaces and addresses, repositories,    *)
(* tags and relationships; and the vendor catalogue, whose form is mounted  *)
(* for one vendor in a drawer.  Every card has one list, one form for a new or *)
(* an existing row, and handlers written by hand; the operators below say  *)
(* where they differ.  One field nrFld of the form is followed, and the    *)
(* user holds every permission of the card.                                *)
(***************************************************************************)
EXTENDS Naturals, FiniteSets, RowRecords

CONSTANTS Rows, New, MaxSends, MaxReads

ASSUME NestedBounds == New \notin Rows /\ {MaxSends, MaxReads} \subseteq Nat

VARIABLES
    nrCard, nrFld,  \* the card and the field followed
    nrStore,        \* the rows the server keeps
    nrHeld,         \* the rows saved hold what the user wrote in the field
    nrShown,        \* the rows the card lists
    nrReady,        \* the card has answered its first load
    nrForm,         \* its form
    nrRemoving,     \* deletingId
    nrCalls,        \* POST, PUT and DELETE in flight
    nrReads,        \* loads in flight: what the server read for them
    nrOptions,      \* the relationship card: "none", or its options "loaded"
    nrOpening,      \* calls of openRelationshipForm that wait for the options
    nrSends         \* requests sent so far

nrWhich == <<nrCard, nrFld>>
nrAsk == <<nrOptions, nrOpening>>
nrServer == <<nrStore, nrHeld>>
nrVars == <<nrWhich, nrServer, nrShown, nrReady, nrForm, nrRemoving, nrCalls, nrReads, nrAsk, nrSends>>

Cards == {"container", "service", "ingress", "helm", "volume", "endpoint", "dns", "tls",
          "interface", "address", "repository", "tag", "relationship", "provider"}
Kubernetes == {"service", "ingress", "helm", "volume"}
Networking == {"interface", "address"}

---------------------------------------------------------------------------
\* The fields of each card: those its save handler sends, those its edit
\* handler sets from the row, those its Add handler clears, and those its
\* form shows.

ContainerSent == {"name", "image", "replicas", "ports", "volumes", "healthcheck",
                  "restart_policy", "environment_notes"}
KubernetesSent ==
    [service |-> {"name", "service_type", "workload", "cluster_ip", "external_hostname", "ports"},
     ingress |-> {"name", "ingress_class", "hosts", "tls_enabled", "target_service", "notes"},
     helm |-> {"name", "chart", "chart_version", "app_version", "repository_url", "status",
               "values_summary"},
     volume |-> {"name", "storage_class", "capacity_gb", "access_modes", "volume_name",
                 "backing_storage", "notes"}]
EndpointRowSent == {"name", "url", "role", "application_environment", "domain", "certificate",
                 "redirects_to", "is_primary"}
DNSSent == {"name", "record_type", "value", "ttl", "priority", "weight", "port", "proxied",
            "provider_record_id"}
TLSSent == {"domain", "is_primary"}
NetworkingSent ==
    [interface |-> {"name", "mac", "network", "subnet", "mtu", "description"},
     address |-> {"address", "scope", "interface", "ptr", "is_primary", "description"}]
RepositoryRowSent == {"repository", "role", "path", "notes"}
TagSent == {"name", "slug", "colour"}
RelationshipSent == {"target", "type", "label", "notes"}
ProviderSent == {"name", "slug", "category", "website_url", "support_url", "status_page_url",
                 "documentation_url", "notes", "is_active"}

NestedSent(c) == CASE c = "container" -> ContainerSent [] c \in Kubernetes -> KubernetesSent[c]
    [] c = "endpoint" -> EndpointRowSent [] c = "dns" -> DNSSent [] c = "tls" -> TLSSent
    [] c \in Networking -> NetworkingSent[c] [] c = "repository" -> RepositoryRowSent
    [] c = "tag" -> TagSent [] c = "provider" -> ProviderSent [] OTHER -> RelationshipSent

ContainerEdited == {"name", "image", "replicas", "ports", "volumes", "healthcheck",
                    "restart_policy", "environment_notes"}
ServiceEdited == {"name", "service_type", "workload", "cluster_ip", "external_hostname", "ports"}
IngressEdited == {"name", "ingress_class", "hosts", "tls_enabled", "target_service", "notes"}
HelmEdited == {"name", "chart", "chart_version", "app_version", "repository_url", "status",
               "values_summary"}
VolumeEdited == {"name", "storage_class", "capacity_gb", "access_modes", "volume_name",
                 "backing_storage", "notes"}
\* Mutant of DNSEdited: the edit handler leaves the priority of the last row.
PriorityLeft == {"name", "record_type", "value", "ttl", "weight", "port", "proxied",
                 "provider_record_id"}

DNSEdited == {"name", "record_type", "value", "ttl", "priority", "weight", "port", "proxied",
              "provider_record_id"}
TLSEdited == {"domain", "is_primary"}
InterfaceEdited == {"name", "mac", "network", "subnet", "mtu", "description"}
AddressEdited == {"address", "scope", "interface", "ptr", "is_primary", "description"}
RepositoryEdited == {"repository", "role", "path", "notes"}
TagEdited == {"name", "slug", "colour"}
RelationshipEdited == {"target", "type", "label", "notes"}
ProviderEdited == {"name", "slug", "category", "website_url", "support_url", "status_page_url",
                   "documentation_url", "notes", "is_active"}

\* Endpoints cannot be edited in place.
NestedEdited(c) == CASE c = "container" -> ContainerEdited [] c = "service" -> ServiceEdited
    [] c = "ingress" -> IngressEdited [] c = "helm" -> HelmEdited [] c = "volume" -> VolumeEdited
    [] c = "dns" -> DNSEdited [] c = "tls" -> TLSEdited [] c = "interface" -> InterfaceEdited
    [] c = "address" -> AddressEdited [] c = "repository" -> RepositoryEdited
    [] c = "tag" -> TagEdited [] c = "provider" -> ProviderEdited [] c = "relationship" -> RelationshipEdited [] OTHER -> {}

ContainerCleared == {"name", "image", "replicas", "ports", "volumes", "healthcheck",
                     "restart_policy", "environment_notes"}
KubernetesCleared ==
    {"name", "service_type", "workload", "cluster_ip", "external_hostname", "ports",
     "ingress_class", "hosts", "tls_enabled", "target_service", "chart", "chart_version",
     "app_version", "repository_url", "status", "values_summary", "storage_class", "capacity_gb",
     "access_modes", "volume_name", "backing_storage", "notes"}
EndpointCleared == {"name", "url", "role", "application_environment", "domain", "certificate",
                    "redirects_to", "is_primary"}
DNSCleared == {"name", "record_type", "value", "ttl", "priority", "weight", "port", "proxied",
               "provider_record_id"}
NetworkingCleared == {"name", "mac", "network", "subnet", "mtu", "description", "address",
                      "scope", "interface", "ptr", "is_primary"}

\* The Add handlers of the certificate, repository, tag and relationship cards
\* set every field of the form; Add endpoint only shows the form.
AddClears(c) == CASE c = "container" -> ContainerCleared [] c \in Kubernetes -> KubernetesCleared
    [] c = "dns" -> DNSCleared [] c \in Networking -> NetworkingCleared
    [] c = "endpoint" -> {} [] OTHER -> NestedEdited(c)

\* What the form keeps when it is left: the cards that only hide it clear it
\* when it is opened again.
LeaveClears(c) == CASE c = "endpoint" -> EndpointCleared
    [] c \in Networking \union {"tls", "repository", "tag", "relationship"} -> {}
    [] OTHER -> AddClears(c)

ContainerFormControls == ContainerSent
ServiceFormControls == {"name", "service_type", "workload", "cluster_ip", "external_hostname",
                        "ports"}
IngressFormControls == {"name", "ingress_class", "target_service", "hosts", "tls_enabled", "notes"}
HelmFormControls == {"name", "chart", "chart_version", "app_version", "repository_url", "status",
                     "values_summary"}
VolumeFormControls == {"name", "storage_class", "capacity_gb", "volume_name", "backing_storage",
                       "access_modes", "notes"}
EndpointLinkControls == {"application_environment", "domain", "certificate"}
EndpointFormControls == {"name", "url", "role", "redirects_to", "is_primary"}
DNSFormControls == {"name", "record_type", "value", "ttl", "priority", "weight", "port",
                    "proxied", "provider_record_id"}
TLSFormControls == {"domain", "is_primary"}
InterfaceFormControls == {"name", "mac", "network", "subnet", "mtu", "description"}
AddressFormControls == {"address", "scope", "interface", "ptr", "is_primary", "description"}
RepositoryFormControls == {"repository", "role", "path", "notes"}
TagFormControls == {"name", "slug", "colour"}
RelationshipFormControls == {"type", "target", "label", "notes"}
ProviderFormControls == {"name", "slug", "category", "website_url", "support_url",
                         "status_page_url", "documentation_url", "notes", "is_active"}

FormControls(c) == CASE c = "container" -> ContainerFormControls
    [] c = "service" -> ServiceFormControls [] c = "ingress" -> IngressFormControls
    [] c = "helm" -> HelmFormControls [] c = "volume" -> VolumeFormControls
    [] c = "endpoint" -> EndpointLinkControls \union EndpointFormControls
    [] c = "dns" -> DNSFormControls [] c = "tls" -> TLSFormControls
    [] c = "interface" -> InterfaceFormControls [] c = "address" -> AddressFormControls
    [] c = "repository" -> RepositoryFormControls [] c = "tag" -> TagFormControls
    [] c = "provider" -> ProviderFormControls
    [] OTHER -> RelationshipFormControls

---------------------------------------------------------------------------
\* What stays enabled during a save: the inputs of the container and
\* Kubernetes forms; the Edit button of a row, except in the networking and
\* tag cards; the Add button, except in the tag card.

TypesWhileSaving(c) == c \in Kubernetes \union {"container"}
ContainerRowOffers == {"edit", "remove"}
KubernetesRowOffers == {"edit", "remove"}
EndpointRowOffers == {"remove"}
DNSRowOffers == {"edit", "remove"}
TLSRowOffers == {"edit", "remove"}
NetworkingRowOffers(saving) == IF saving THEN {} ELSE {"edit"}
RepositoryRowOffers == {"edit", "remove"}
TagRowOffers(saving) == IF saving THEN {} ELSE {"edit", "remove"}
RelationshipRowOffers == {"edit", "remove"}
ProviderRowOffers == {"edit"}

RowOffers(c, saving) == CASE c = "container" -> ContainerRowOffers
    [] c \in Kubernetes -> KubernetesRowOffers [] c = "endpoint" -> EndpointRowOffers
    [] c = "dns" -> DNSRowOffers [] c = "tls" -> TLSRowOffers
    [] c \in Networking -> NetworkingRowOffers(saving) [] c = "repository" -> RepositoryRowOffers
    [] c = "tag" -> TagRowOffers(saving) [] c = "provider" -> ProviderRowOffers
    [] OTHER -> RelationshipRowOffers

AddOffered(c, saving) == c = "tag" => ~saving

\* The vendor's drawer covers the list; it can be closed while it saves.
Drawer(c) == c = "provider"

---------------------------------------------------------------------------
\* State.

\* target: editingId, or New; from: the row the field's value was read from,
\* New when it is the form's default; typed: the user wrote it.
NestedForm == [open : BOOLEAN, target : Rows \union {New}, from : Rows \union {New},
               typed : BOOLEAN, saving : BOOLEAN]
Call == [op : {"save", "remove"}, target : Rows \union {New}, from : Rows \union {New},
         typed : BOOLEAN, mine : BOOLEAN]
Read == [rows : SUBSET Rows, last : BOOLEAN]

ClosedForm == [open |-> FALSE, target |-> New, from |-> New, typed |-> FALSE, saving |-> FALSE]

NestedTypeOK ==
    /\ nrCard \in Cards /\ nrFld \in NestedSent(nrCard)
    /\ nrStore \subseteq Rows /\ nrHeld \in BOOLEAN /\ nrShown \subseteq Rows /\ nrReady \in BOOLEAN
    /\ nrForm \in NestedForm /\ nrRemoving \in Rows \union {New}
    /\ nrCalls \subseteq Call /\ nrReads \subseteq Read
    /\ nrOptions \in {"none", "loaded"} /\ nrOpening \subseteq Rows \union {New} /\ nrSends \in 0..MaxSends

NestedInit ==
    /\ nrCard \in Cards /\ nrFld \in NestedSent(nrCard)
    /\ nrStore \in {R \in SUBSET Rows : Cardinality(Rows \ R) = 1}
    /\ nrHeld = TRUE /\ nrShown = {} /\ nrReady = FALSE /\ nrForm = ClosedForm /\ nrRemoving = New
    /\ nrOptions = "none" /\ nrOpening = {}
    /\ nrCalls = {} /\ nrReads = {[rows |-> nrStore, last |-> FALSE]} /\ nrSends = 0

\* The Kubernetes card shows nothing before its first load.
CardShown == nrReady \/ nrCard \notin Kubernetes

\* The load a handler waits for before it says it has finished; the tag card
\* only tells the workspace to load.
Reloading(reads, waits) ==
    reads \union {[rows |-> nrStore', last |-> waits /\ nrCard \notin {"tag", "provider"}]}

---------------------------------------------------------------------------
\* The form.

Filled(cleared) == IF nrFld \in cleared THEN [from |-> New, typed |-> FALSE]
                   ELSE [from |-> nrForm.from, typed |-> nrForm.typed]

\* The relationship form fetches its options when it is opened without them,
\* and writes the type again when they arrive: the type of the relationship it
\* was called with, whichever the form is open for by then.
Awaits(r) ==
    /\ nrOptions' = nrOptions
    /\ nrOpening' = IF nrCard = "relationship" /\ nrOptions = "none"
                    THEN nrOpening \union {r} ELSE nrOpening

RelationshipOptions == \E r \in nrOpening :
    /\ nrOptions' = "loaded" /\ nrOpening' = nrOpening \ {r}
    /\ nrForm' = IF nrFld # "type" THEN nrForm
                 ELSE [nrForm EXCEPT !.from = r, !.typed = FALSE]
    /\ UNCHANGED <<nrWhich, nrServer, nrShown, nrReady, nrRemoving, nrCalls, nrReads, nrSends>>

AddRow ==
    /\ CardShown /\ AddOffered(nrCard, nrForm.saving) /\ ~(Drawer(nrCard) /\ nrForm.open)
    /\ Awaits(New)
    /\ nrForm' = [nrForm EXCEPT !.open = TRUE, !.target = New,
                    !.from = Filled(AddClears(nrCard)).from,
                    !.typed = Filled(AddClears(nrCard)).typed]
    /\ UNCHANGED <<nrWhich, nrServer, nrShown, nrReady, nrRemoving, nrCalls, nrReads, nrSends>>

\* What Edit puts in the field: the row's value, if the list answers it.
ReadInto(r) == IF nrFld \notin NestedEdited(nrCard) THEN nrForm.from
               ELSE IF nrFld \in RowListedBy[nrCard] THEN r ELSE New

EditRow == \E r \in nrShown :
    /\ "edit" \in RowOffers(nrCard, nrForm.saving) /\ ~(Drawer(nrCard) /\ nrForm.open)
    /\ Awaits(r)
    /\ nrForm' = [nrForm EXCEPT !.open = TRUE, !.target = r, !.typed = FALSE,
                    !.from = ReadInto(r)]
    /\ UNCHANGED <<nrWhich, nrServer, nrShown, nrReady, nrRemoving, nrCalls, nrReads, nrSends>>

TypeRow ==
    /\ CardShown /\ nrForm.open /\ nrFld \in FormControls(nrCard)
    /\ (nrCard = "relationship" /\ nrFld \in {"type", "target"}) => nrOptions = "loaded"
    /\ nrForm.saving => TypesWhileSaving(nrCard)
    /\ ~nrForm.typed /\ nrForm' = [nrForm EXCEPT !.typed = TRUE]
    /\ UNCHANGED <<nrWhich, nrServer, nrShown, nrReady, nrRemoving, nrCalls, nrReads, nrAsk, nrSends>>

\* Mutant of Left: editingId is reset to a value that is no row and not New.
LeftUndefined == [nrForm EXCEPT !.open = FALSE, !.target = "undefined"]

\* The form after it is left, by the user or by a save that succeeded.  The
\* certificate, repository, network and relationship cards keep editingId; an
\* Add or an Edit sets it again before the form is shown.
Left == IF Drawer(nrCard) THEN ClosedForm ELSE
         [nrForm EXCEPT !.open = FALSE,
           !.target = IF nrCard \in Kubernetes \union {"container", "dns"} THEN New
                      ELSE nrForm.target,
           !.from = Filled(LeaveClears(nrCard)).from,
           !.typed = Filled(LeaveClears(nrCard)).typed]

Unmounted == {[c EXCEPT !.mine = FALSE] : c \in nrCalls}

CancelRow ==
    /\ CardShown /\ nrForm.open /\ (nrForm.saving => Drawer(nrCard))
    /\ nrForm' = Left
    /\ nrCalls' = IF Drawer(nrCard) THEN Unmounted ELSE nrCalls
    /\ UNCHANGED <<nrWhich, nrServer, nrShown, nrReady, nrRemoving, nrReads, nrAsk, nrSends>>

SaveRow ==
    /\ nrSends < MaxSends /\ nrSends' = nrSends + 1
    /\ CardShown /\ nrForm.open /\ ~nrForm.saving
    /\ nrForm' = [nrForm EXCEPT !.saving = TRUE]
    /\ nrCalls' = nrCalls \union {[op |-> "save", target |-> nrForm.target,
                                   from |-> nrForm.from, typed |-> nrForm.typed,
                                   mine |-> TRUE]}
    /\ UNCHANGED <<nrWhich, nrServer, nrShown, nrReady, nrRemoving, nrReads, nrAsk>>

\* The write of a call: a POST makes a row, a PUT needs its row to be there.  A
\* tag outlives its removal from the resource, and a new one may be made without
\* being attached to it.
RowAccepted(c) == IF c.target = New THEN nrStore # Rows
                  ELSE c.target \in nrStore \/ nrCard = "tag"
RowsAfter(c) == IF c.op = "remove" THEN {nrStore \ {c.target}}
            ELSE IF c.target # New THEN {nrStore}
            ELSE {nrStore \union {r} : r \in Rows \ nrStore}
                   \union (IF nrCard = "tag" THEN {nrStore} ELSE {})
RowHolds(c) == c.typed => nrFld \in IF c.target = New THEN RowMadeBy[nrCard]
                                  ELSE RowTakenBy[nrCard]

\* The answer leaves the form as it is by then, whatever it is open for.
RowSaved == \E c \in nrCalls :
    /\ c.op = "save" /\ RowAccepted(c) /\ Cardinality(nrReads) < MaxReads
    /\ nrStore' \in RowsAfter(c) /\ nrHeld' = (nrHeld /\ RowHolds(c)) /\ nrCalls' = nrCalls \ {c}
    /\ nrForm' = [Left EXCEPT !.saving = nrCard \notin {"tag", "provider"}]
    /\ nrReads' = Reloading(nrReads, TRUE)
    /\ UNCHANGED <<nrWhich, nrShown, nrReady, nrRemoving, nrAsk, nrSends>>

\* Refused, or accepted with its answer lost: the form stays.
RowSaveFails == \E c \in nrCalls :
    /\ c.op = "save" /\ nrCalls' = nrCalls \ {c}
    /\ \/ UNCHANGED nrServer
       \/ RowAccepted(c) /\ nrStore' \in RowsAfter(c) /\ nrHeld' = (nrHeld /\ RowHolds(c))
    /\ nrForm' = [nrForm EXCEPT !.saving = nrForm.saving /\ ~c.mine]
    /\ UNCHANGED <<nrWhich, nrShown, nrReady, nrRemoving, nrReads, nrAsk, nrSends>>

---------------------------------------------------------------------------
\* The rows.

\* The container, Kubernetes and DNS cards disable only the button of the row
\* that is being deleted: another may be removed, or edited, meanwhile.
RemoveRow == \E r \in nrShown :
    /\ nrSends < MaxSends /\ nrSends' = nrSends + 1
    /\ "remove" \in RowOffers(nrCard, nrForm.saving) /\ r # nrRemoving
    /\ nrRemoving' = r
    /\ nrForm' = IF nrCard = "tag" THEN [nrForm EXCEPT !.saving = TRUE] ELSE nrForm
    /\ nrCalls' = nrCalls \union {[op |-> "remove", target |-> r, from |-> New, typed |-> FALSE,
                                   mine |-> TRUE]}
    /\ UNCHANGED <<nrWhich, nrServer, nrShown, nrReady, nrReads, nrAsk>>

Removed == \E c \in nrCalls :
    /\ c.op = "remove" /\ c.target \in nrStore /\ Cardinality(nrReads) < MaxReads
    /\ nrStore' \in RowsAfter(c) /\ nrCalls' = nrCalls \ {c}
    /\ nrForm' = IF nrCard = "tag" THEN [nrForm EXCEPT !.saving = FALSE] ELSE nrForm
    /\ nrReads' = Reloading(nrReads, FALSE) /\ nrRemoving' = New
    /\ UNCHANGED <<nrWhich, nrHeld, nrShown, nrReady, nrAsk, nrSends>>

RemoveFails == \E c \in nrCalls :
    /\ c.op = "remove" /\ nrCalls' = nrCalls \ {c}
    /\ nrStore' \in {nrStore} \union RowsAfter(c) /\ nrRemoving' = New
    /\ nrForm' = IF nrCard = "tag" THEN [nrForm EXCEPT !.saving = FALSE] ELSE nrForm
    /\ UNCHANGED <<nrWhich, nrHeld, nrShown, nrReady, nrReads, nrAsk, nrSends>>

\* Loads answer in any order, and the last answer is what is listed.
RowsArrive == \E l \in nrReads :
    /\ nrShown' = l.rows /\ nrReady' = TRUE /\ nrReads' = nrReads \ {l}
    /\ nrForm' = [nrForm EXCEPT !.saving = nrForm.saving /\ ~l.last]
    /\ UNCHANGED <<nrWhich, nrServer, nrRemoving, nrCalls, nrAsk, nrSends>>

\* A load catches its own error, so its handler finishes too.
RowsFail == \E l \in nrReads :
    /\ nrReads' = nrReads \ {l}
    /\ nrForm' = [nrForm EXCEPT !.saving = nrForm.saving /\ ~l.last]
    /\ UNCHANGED <<nrWhich, nrServer, nrShown, nrReady, nrRemoving, nrCalls, nrAsk, nrSends>>

\* The repository and vendor lists reload on a live event; the Kubernetes card when the
\* user, hence the resource its panel holds, is refreshed; tags and
\* relationships with the workspace.
LiveReload ==
    /\ nrCard \in Kubernetes \union {"repository", "tag", "relationship", "provider"}
    /\ Cardinality(nrReads) < MaxReads
    /\ nrReads' = nrReads \union {[rows |-> nrStore, last |-> FALSE]}
    /\ UNCHANGED <<nrWhich, nrServer, nrShown, nrReady, nrForm, nrRemoving, nrCalls, nrAsk, nrSends>>

NestedNext == AddRow \/ EditRow \/ TypeRow \/ CancelRow \/ SaveRow \/ RowSaved \/ RowSaveFails
                \/ RemoveRow \/ Removed \/ RemoveFails \/ RowsArrive \/ RowsFail \/ LiveReload
                \/ RelationshipOptions

NestedSpec == NestedInit /\ [][NestedNext]_nrVars

---------------------------------------------------------------------------
\* Properties.

\* A save to a row carries, in a field the user did not write, what was read
\* from that row, and a new row carries nothing of another: no order of Add,
\* Edit, Cancel, saves, answers and reloads mixes two rows.  The three lists of
\* fields that every card keeps by hand agree.  (The type of a relationship
\* can be mixed: the options that one opening waited for may arrive last.)
RowsNeverMixed ==
    (nrCard = "relationship" => nrFld # "type") =>
        \A c \in nrCalls : c.op = "save" /\ ~c.typed => c.from = c.target

\* In the endpoint and tag cards an answer never clears a form that it is not
\* the answer of: what the user wrote after the save was sent stays.
DraftOutlivesAnswer ==
    [][ nrForm.typed /\ nrForm.open /\ ~nrForm.saving /\ nrCard \in {"endpoint", "tag"}
          /\ nrCalls' # nrCalls => nrForm'.typed /\ nrForm'.open ]_nrVars

\* A row whose save was accepted, whether or not it was answered, was given what
\* the user wrote in any field of the card's form: what the card sends, the
\* create and the update of the row both take, whatever else is under way.
SavedRowHolds == []nrHeld

=============================================================================
