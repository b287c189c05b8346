-------------------------- MODULE StaffConsole_proofs --------------------------
(***************************************************************************)
(* Proofs about the forms of the staff console, for any rows, items and    *)
(* clients, every type, field and kind of form, and any bounds on what is  *)
(* in flight: ResourceEditing, ResourceCreation, NestedRecords,            *)
(* ContentEditing and WorkForms one after the other, each as a             *)
(* specification of its own, then all of them as ConsoleSpec composes them.*)
(***************************************************************************)
EXTENDS StaffConsole, FiniteSetTheorems, TLAPS

-----------------------------------------------------------------------------
(* Editing a resource.                                                     *)

LEMMA EditNumbers == MaxLoads \in Nat /\ MaxHints \in Nat /\ MaxSubmits \in Nat
BY EditBounds

LEMMA FamilyNamed ==
  fam \in {"compute", "data", "web", "operational", "catalogue"}
BY DEF fam, Family

(* A form that is mounted, in any family, starts empty.                    *)
LEMMA FormsTyped == BlankForm \in Form /\ MountedForm \in Form
BY DEF BlankForm, MountedForm, FirstLoad, Form, Values

LEMMA EditTypesStep == EditTypeOK /\ [EditNext]_edVars => EditTypeOK'
<1> SUFFICES ASSUME EditTypeOK, [EditNext]_edVars PROVE EditTypeOK'
  OBVIOUS
<1> USE EditNumbers, FormsTyped DEF EditTypeOK, edResource, edPage, Values
<1>1. CASE OpenEdit
  BY <1>1 DEF OpenEdit
<1>2. CASE OptionsArrive \/ LoadFails \/ TypeField \/ TypeName
  <2>1. edForm' \in Form
    <3>1. CASE OptionsArrive \/ LoadFails
      BY <3>1 DEF OptionsArrive, LoadFails, Form
    <3>2. CASE TypeField \/ TypeName
      BY <3>2 DEF TypeField, TypeName, Form
    <3>3. QED
      BY <1>2, <3>1, <3>2
  <2>2. UNCHANGED <<edResource, edRec, edPage, edOpen, edPuts, edHints, edSubmits>>
    BY <1>2 DEF OptionsArrive, LoadFails, TypeField, TypeName
  <2>3. QED
    BY <2>1, <2>2
<1>3. CASE RecordArrives
  <2>1. FromRecord \in Values
    BY DEF FromRecord
  <2>2. edForm' \in Form
    BY <1>3, <2>1 DEF RecordArrives, Form
  <2>3. QED
    BY <1>3, <2>2 DEF RecordArrives
<1>4. CASE Submit
  <2>1. edForm' \in Form
    BY <1>4 DEF Submit, Form
  <2>2. [val |-> edForm.val, base |-> edForm.base, mine |-> TRUE,
         touched |-> edForm.touched, whole |-> edForm.whole] \in Put
    BY DEF Form, Put
  <2>3. edSubmits' \in 0..MaxSubmits
    BY <1>4 DEF Submit
  <2>4. QED
    BY <1>4, <2>1, <2>2, <2>3 DEF Submit
<1>5. CASE SaveAnswered
  <2>1. edWs' \in 0..MaxLoads
    BY <1>5 DEF SaveAnswered
  <2>2. QED
    BY <1>5, <2>1 DEF SaveAnswered, Taken, Put
<1>6. CASE SaveFails
  <2>1. edForm' \in Form
    BY <1>6 DEF SaveFails, Form
  <2>2. edRec' \in Values /\ edPuts' \subseteq Put
    BY <1>6 DEF SaveFails, Taken, Put
  <2>3. QED
    BY <1>6, <2>1, <2>2 DEF SaveFails
<1>7. Orphaned \subseteq Put
  BY DEF Orphaned, Put
<1>8. CASE Cancel
  BY <1>7, <1>8 DEF Cancel
<1>9. CASE WorkspaceLoads
  <2>1. edWs' \in 0..MaxLoads
    BY <1>9 DEF WorkspaceLoads
  <2>2. QED
    BY <1>9, <2>1 DEF WorkspaceLoads
<1>10. Rerendered \in Form
  BY DEF Rerendered, FirstLoad, Form
<1>11. CASE WorkspaceLoaded \/ PermissionHint
  BY <1>10, <1>11 DEF WorkspaceLoaded, PermissionHint
<1>12. CASE WorkspaceLoadFails
  BY <1>7, <1>12 DEF WorkspaceLoadFails
<1>13. CASE UNCHANGED edVars
  BY <1>13 DEF edVars
<1>14. QED
  BY <1>1, <1>2, <1>3, <1>4, <1>5, <1>6, <1>8, <1>9, <1>11, <1>12, <1>13 DEF EditNext

LEMMA EditTypesInit == EditInit => EditTypeOK
<1>1. EditInit => edWs \in 0..MaxLoads /\ edHints \in 0..MaxHints /\ edSubmits \in 0..MaxSubmits
  BY EditNumbers DEF EditInit
<1>2. QED
  BY <1>1, FormsTyped DEF EditInit, EditTypeOK, Values

(* What the family's lists leave out of a record: only the schedule of a    *)
(* scheduled job is sent without being restored.                           *)
LEMMA RestoredButTheSchedule ==
  \A t \in ResourceTypes : Sent(t) \ Restored(t) \subseteq {"schedule_expression"}
<1> USE DEF Sent, Restored, Family
<1>1. ASSUME NEW t \in ComputeTypes PROVE Sent(t) \subseteq Restored(t)
  BY <1>1 DEF ComputeTypes, ComputeRestored, ServerSent, NetworkSent, SubnetSent
<1>2. ASSUME NEW t \in DataTypes PROVE Sent(t) \subseteq Restored(t)
  <2>1. Restored(t) = DataRestored
    BY DEF ComputeTypes, DataTypes
  <2>2. QED
    BY <2>1 DEF DataTypes, DataRestored, DatabaseInstanceSent, LogicalDatabaseSent,
       ApplicationSent, EnvironmentSent, RepositorySent
<1>3. ASSUME NEW t \in WebTypes PROVE Sent(t) \subseteq Restored(t)
  <2>1. Restored(t) = WebRestored
    BY DEF ComputeTypes, DataTypes, WebTypes
  <2>2. QED
    BY <2>1 DEF WebTypes, WebRestored, WebsiteSent, EndpointSent, DomainSent, ZoneSent,
       CertificateSent
<1>4. ASSUME NEW t \in OperationalTypes
      PROVE  Sent(t) \ Restored(t) \subseteq {"schedule_expression"}
  <2>1. Restored(t) = OperationalRestored
    BY DEF ComputeTypes, DataTypes, WebTypes, OperationalTypes
  <2>2. QED
    BY <2>1 DEF OperationalTypes, OperationalRestored, StorageSent, BackupSent, StackSent,
       ClusterSent, NamespaceSent, WorkloadSent, ServiceSent, JobSent
<1>5. ASSUME NEW t \in CatalogueTypes PROVE Sent(t) \subseteq Restored(t)
  <2>1. Restored(t) = CatalogueRestored
    BY DEF ComputeTypes, DataTypes, WebTypes, OperationalTypes, CatalogueTypes, BasicTypes
  <2>2. QED
    BY <2>1 DEF CatalogueTypes, BasicTypes, CatalogueRestored, AccountSent
<1>6. QED
  BY <1>1, <1>2, <1>3, <1>4, <1>5 DEF ResourceTypes

(* The server's two lists of every type cover the fields its form sends.     *)
LEMMA ServerCoversForms ==
  \A t \in ResourceTypes : Sent(t) \subseteq Updated(t) \intersect Answered(t)
<1> USE DEF Sent, Updated, Answered, Identity, ResourceStored, ResourceAnswered
<1>1. ASSUME NEW t \in ComputeTypes PROVE Sent(t) \subseteq Updated(t) \intersect Answered(t)
  BY <1>1 DEF ComputeTypes, ServerSent, NetworkSent, SubnetSent, ServerStored,
     ServerReferences, NetworkStored, NetworkReferences, SubnetStored, ServerAnswered,
     NetworkAnswered, SubnetAnswered
<1>2. ASSUME NEW t \in DataTypes PROVE Sent(t) \subseteq Updated(t) \intersect Answered(t)
  BY <1>2 DEF DataTypes, DatabaseInstanceSent, LogicalDatabaseSent, ApplicationSent,
     EnvironmentSent, RepositorySent, InstanceStored, InstanceReferences, DatabaseStored,
     ApplicationStored, EnvironmentStored, EnvironmentReferences, RepositoryStored,
     RepositoryReferences, InstanceAnswered, DatabaseAnswered, ApplicationAnswered,
     EnvironmentAnswered, RepositoryAnswered
<1>3. ASSUME NEW t \in WebTypes PROVE Sent(t) \subseteq Updated(t) \intersect Answered(t)
  BY <1>3 DEF WebTypes, WebsiteSent, EndpointSent, DomainSent, ZoneSent, CertificateSent,
     WebsiteStored, WebsiteReferences, EndpointStored, EndpointReferences, DomainStored,
     DomainReferences, ZoneStored, ZoneReferences, CertificateStored, CertificateReferences,
     WebsiteAnswered, EndpointAnswered, DomainAnswered, ZoneAnswered, CertificateAnswered
<1>4. ASSUME NEW t \in OperationalTypes
      PROVE  Sent(t) \subseteq Updated(t) \intersect Answered(t)
  BY <1>4 DEF OperationalTypes, StorageSent, BackupSent, StackSent, ClusterSent,
     NamespaceSent, WorkloadSent, ServiceSent, JobSent, StorageStored, BackupStored,
     SourcesStored, StackStored, ClusterStored, NamespaceStored, WorkloadStored,
     ServiceStored, JobStored, StorageAnswered, BackupAnswered, StackAnswered,
     ClusterAnswered, NamespaceAnswered, WorkloadAnswered, ServiceAnswered, JobAnswered
<1>5. ASSUME NEW t \in CatalogueTypes PROVE Sent(t) \subseteq Updated(t) \intersect Answered(t)
  BY <1>5 DEF CatalogueTypes, BasicTypes, AccountSent, AccountStored, AccountAnswered
<1>6. QED
  BY <1>1, <1>2, <1>3, <1>4, <1>5 DEF ResourceTypes

(* A form that holds a record the user has not written in shows the value   *)
(* it read, but for the two known losses; what the user wrote is "typed"; a *)
(* form behind the error screen holds nothing.                              *)
Survives(form) == form.val = form.base \/ KnownLoss(form.val)

FormHoldsWhatItRead ==
  /\ edForm.whole /\ ~edForm.touched => Survives(edForm)
  /\ edForm.touched => edForm.val = "typed"
  /\ edErr => ~edForm.whole

(* The forms that never reload hold a record only once they are done        *)
(* loading; the compute form never waits for its options alone, so it is    *)
(* not shown without its record.                                            *)
LoadsInOrder ==
  /\ edForm.whole /\ fam \notin {"compute", "web"} => edForm.load = "no"
  /\ fam = "compute" => /\ edForm.load \notin {"options", "detail"}
                        /\ edForm.ready => edForm.whole

EditInv == EditTypeOK /\ FormHoldsWhatItRead /\ LoadsInOrder /\ SentBackAsRead
             /\ ComputeSavesWhatItRead

LEMMA EditInvInit == EditInit => EditInv
<1> SUFFICES ASSUME EditInit PROVE EditInv
  OBVIOUS
<1>1. EditTypeOK
  BY EditTypesInit
<1>2. QED
  BY <1>1 DEF EditInit, EditInv, FormHoldsWhatItRead, LoadsInOrder, SentBackAsRead,
     ComputeSavesWhatItRead, BlankForm

LEMMA EditInvStep == EditInv /\ [EditNext]_edVars => EditInv'
<1> SUFFICES ASSUME EditInv, [EditNext]_edVars PROVE EditInv'
  OBVIOUS
<1>t. EditTypeOK'
  BY EditTypesStep DEF EditInv
<1>r. UNCHANGED <<edTy, edFld, fam>>
  BY DEF EditNext, OpenEdit, OptionsArrive, RecordArrives, LoadFails, TypeField, TypeName, Submit,
     SaveAnswered, SaveFails, Cancel, WorkspaceLoads, WorkspaceLoaded, WorkspaceLoadFails,
     PermissionHint, edResource, edVars, fam
<1>f. edForm \in Form
  BY DEF EditInv, EditTypeOK
<1>m. /\ ~MountedForm.whole /\ ~MountedForm.touched /\ ~MountedForm.ready
      /\ fam = "compute" => MountedForm.load = "both"
  BY DEF MountedForm, BlankForm, FirstLoad
<1>b. ~BlankForm.whole /\ ~BlankForm.touched /\ ~BlankForm.ready /\ BlankForm.load = "no"
  BY DEF BlankForm
<1> USE <1>t, <1>r, <1>f, FamilyNamed
    DEF EditInv, FormHoldsWhatItRead, LoadsInOrder, SentBackAsRead, ComputeSavesWhatItRead,
        Survives, KnownLoss, Form
<1>1. CASE OpenEdit
  BY <1>1, <1>m DEF OpenEdit
<1>2. CASE OptionsArrive \/ LoadFails
  <2>1. ~edErr /\ ~edErr'
    BY <1>2 DEF OptionsArrive, LoadFails, Mounted, edPage
  <2>2. QED
    BY <1>2, <2>1 DEF OptionsArrive, LoadFails
<1>2a. CASE TypeField \/ TypeName
  <2>1. ~edErr /\ ~edErr'
    BY <1>2a DEF TypeField, TypeName, Writable, Shown, Mounted, edPage
  <2>2. QED
    BY <1>2a, <2>1 DEF TypeField, TypeName
<1>3. CASE RecordArrives
  <2>1. FromRecord = edRec \/ KnownLoss(FromRecord)
    <3>1. edFld \notin Restored(edTy) => edFld = "schedule_expression"
      BY RestoredButTheSchedule DEF EditTypeOK
    <3>2. edFld \in Answered(edTy)
      BY ServerCoversForms DEF EditTypeOK
    <3>3. QED
      BY <3>1, <3>2 DEF FromRecord
  <2>2. QED
    BY <1>3, <2>1 DEF RecordArrives, Mounted, edPage
<1>4. CASE Submit
  BY <1>4 DEF Submit, Shown, ComputeShown, Mounted, edPage
<1>5. CASE SaveAnswered
  BY <1>5, <1>b DEF SaveAnswered
<1>6. CASE SaveFails
  BY <1>6 DEF SaveFails, edPage
<1>7. \A p \in Orphaned : \E q \in edPuts : p = [q EXCEPT !.mine = FALSE]
  BY DEF Orphaned
<1>8. edPuts' = Orphaned => SentBackAsRead' /\ ComputeSavesWhatItRead'
  BY <1>7 DEF EditTypeOK, Put
<1>9. CASE Cancel
  BY <1>8, <1>9, <1>b DEF Cancel
<1>10. CASE WorkspaceLoads
  BY <1>10, <1>b, <1>m DEF WorkspaceLoads
<1>11. CASE WorkspaceLoaded \/ PermissionHint
  BY <1>11 DEF WorkspaceLoaded, PermissionHint, Rerendered, FirstLoad, Mounted, edPage
<1>12. CASE WorkspaceLoadFails
  BY <1>8, <1>12, <1>b DEF WorkspaceLoadFails
<1>13. CASE UNCHANGED edVars
  BY <1>13 DEF edVars, edPage
<1>14. QED
  BY <1>1, <1>2, <1>2a, <1>3, <1>4, <1>5, <1>6, <1>9, <1>10, <1>11, <1>12, <1>13 DEF EditNext

LEMMA EditInvariant == EditSpec => []EditInv
BY EditInvInit, EditInvStep, PTL DEF EditSpec

(* A save that is answered leaves in the record what its form sent, since   *)
(* the server's update sets every field that a form sends.                  *)
LEMMA SavesReach == EditSpec => SaveReachesRecord
<1>1. EditInv /\ [EditNext]_edVars =>
        (SaveAnswered => \E p \in edPuts : p \notin edPuts' /\ edRec' = p.val)
  <2> SUFFICES ASSUME EditInv, SaveAnswered
               PROVE  \E p \in edPuts : p \notin edPuts' /\ edRec' = p.val
    OBVIOUS
  <2>1. edFld \in Updated(edTy)
    BY ServerCoversForms DEF EditInv, EditTypeOK
  <2>2. QED
    BY <2>1 DEF SaveAnswered, Taken
<1>2. QED
  BY <1>1, EditInvariant, PTL DEF EditSpec, SaveReachesRecord

(* Whatever reloads, errors, hints and refused saves come between, what     *)
(* the user wrote in a data, operational or catalogue form stays in it.     *)
LEMMA DraftStaysInForm == EditSpec => DraftKept
<1>1. EditInv /\ [EditNext]_edVars =>
        (edForm.touched /\ edForm.whole /\ edOpen /\ fam \notin {"compute", "web"}
          => \/ edForm'.touched /\ edForm'.val = edForm.val
             \/ ~edOpen' \/ edErr')
  <2> SUFFICES ASSUME EditInv, [EditNext]_edVars, edForm.touched, edForm.whole, edOpen,
                      fam \notin {"compute", "web"}
               PROVE  \/ edForm'.touched /\ edForm'.val = edForm.val
                      \/ ~edOpen' \/ edErr'
    OBVIOUS
  <2>1. edForm \in Form /\ edForm.val = "typed" /\ edForm.load = "no" /\ ~edErr
    BY DEF EditInv, EditTypeOK, FormHoldsWhatItRead, LoadsInOrder
  <2>2. CASE OpenEdit \/ OptionsArrive \/ RecordArrives \/ LoadFails \/ WorkspaceLoads
    BY <2>1, <2>2 DEF OpenEdit, OptionsArrive, RecordArrives, LoadFails, WorkspaceLoads
  <2>3. CASE TypeField \/ TypeName \/ Submit \/ SaveFails
    BY <2>1, <2>3 DEF TypeField, TypeName, Submit, SaveFails, Form
  <2>4. CASE SaveAnswered \/ Cancel \/ WorkspaceLoadFails
    BY <2>4 DEF SaveAnswered, Cancel, WorkspaceLoadFails
  <2>5. CASE WorkspaceLoaded \/ PermissionHint \/ UNCHANGED edVars
    BY <2>5 DEF WorkspaceLoaded, PermissionHint, Rerendered, edVars
  <2>6. QED
    BY <2>2, <2>3, <2>4, <2>5 DEF EditNext
<1>2. QED
  BY <1>1, EditInvariant, PTL DEF EditSpec, DraftKept

-----------------------------------------------------------------------------
(* Creating a resource.                                                    *)

LEMMA CreateFormNamed ==
  crForm \in {"compute", "data", "web", "operational", "catalogue"}
BY DEF crForm, Family

LEMMA CreateTypesStep == CreateTypeOK /\ [CreateNext]_crVars => CreateTypeOK'
<1> SUFFICES ASSUME CreateTypeOK, [CreateNext]_crVars PROVE CreateTypeOK'
  OBVIOUS
<1> USE CreateIdentities DEF CreateTypeOK, Owners
<1>1. CASE OpenCreate \/ RegisterRetried
  BY <1>1 DEF OpenCreate, RegisterRetried
<1>2. Kept \in Owners \union {NoReference}
  BY DEF Kept, ComputeKeeps, DataKeeps
<1>3. CASE ChooseOwnership \/ ChooseClient
  BY <1>2, <1>3 DEF ChooseOwnership, ChooseClient
<1>4. CASE ChooseReference
  <2>1. Offered \subseteq Owners
    BY CreateFormNamed DEF Offered, DataOffers, WebOffers, ComputeOffers, OperationalOffers
  <2>2. QED
    BY <1>4, <2>1 DEF ChooseReference
<1>5. CASE SubmitCreate
  <2>1. [of |-> [owner |-> Owner, reference |-> crReference], mine |-> TRUE] \in Post
    BY DEF Owner, Post, Resource
  <2>2. crSent' \in 0..MaxPosts
    BY <1>5 DEF SubmitCreate
  <2>3. QED
    BY <1>5, <2>1, <2>2 DEF SubmitCreate
<1>6. \A p \in Post : p.of \in Resource /\ p.mine \in BOOLEAN
  BY DEF Post
<1>7. \A posts : posts \subseteq Post => Orphans(posts) \subseteq Post
  BY DEF Orphans, Post
<1>8. CASE Created
  <2>1. PICK p \in crPosts : /\ crMade' = crMade \union {p.of}
                            /\ crPosts' = Orphans(crPosts \ {p})
    BY <1>8 DEF Created
  <2>2. crMade' \subseteq Resource /\ crPosts' \subseteq Post
    BY <1>6, <1>7, <2>1
  <2>3. QED
    BY <1>8, <2>2 DEF Created
<1>8a. CASE CreateFails
  <2>1. PICK p \in crPosts : /\ crMade' = crMade \/ crMade' = crMade \union {p.of}
                            /\ crPosts' = crPosts \ {p}
    BY <1>8a DEF CreateFails
  <2>2. crMade' \subseteq Resource /\ crPosts' \subseteq Post
    BY <1>6, <2>1
  <2>3. QED
    BY <1>8a, <2>2 DEF CreateFails
<1>9. CASE CloseCreate \/ RegisterFails
  BY <1>7, <1>9 DEF CloseCreate, RegisterFails
<1>10. CASE UNCHANGED crVars
  BY <1>10 DEF crVars
<1>11. QED
  BY <1>1, <1>3, <1>4, <1>5, <1>8, <1>8a, <1>9, <1>10 DEF CreateNext

(* What a compute or data form holds it may send: the owner's changes clear *)
(* a reference before another owner's request can carry it.                 *)
ReferenceFollowsOwner ==
  crForm \in {"compute", "data"} => crReference \in {NoReference, "internal", Owner}

\* The server keeps nothing it would refuse.
OnlyStorableMade == \A p \in crMade : Storable(p)

CreateInv ==
  CreateTypeOK /\ ReferenceFollowsOwner /\ OnlyStorableMade /\ HiddenReferenceNeverSent

LEMMA CreateInvInit == CreateInit => CreateInv
<1>1. CreateInit => crSent \in 0..MaxPosts
  BY CreateIdentities DEF CreateInit
<1>2. QED
  BY <1>1 DEF CreateInit, CreateInv, CreateTypeOK, ReferenceFollowsOwner, OnlyStorableMade,
     HiddenReferenceNeverSent, Owners

LEMMA CreateInvStep == CreateInv /\ [CreateNext]_crVars => CreateInv'
<1> SUFFICES ASSUME CreateInv, [CreateNext]_crVars PROVE CreateInv'
  OBVIOUS
<1>t. CreateTypeOK /\ CreateTypeOK'
  BY CreateTypesStep DEF CreateInv
<1>f. crForm' = crForm
  BY DEF CreateNext, OpenCreate, ChooseOwnership, ChooseClient, ChooseReference, SubmitCreate,
     Created, CreateFails, CloseCreate, RegisterFails, RegisterRetried, crVars, crForm
<1>1. ReferenceFollowsOwner'
  <2> SUFFICES ASSUME crForm \in {"compute", "data"}
               PROVE  crReference' \in {NoReference, "internal", Owner'}
    BY <1>f DEF ReferenceFollowsOwner
  <2>1. CASE OpenCreate \/ RegisterFails
    BY <2>1 DEF OpenCreate, RegisterFails
  <2>2. CASE ChooseOwnership \/ ChooseClient
    BY <2>2 DEF ChooseOwnership, ChooseClient, Kept, ComputeKeeps, DataKeeps
  <2>3. CASE ChooseReference
    BY <2>3 DEF ChooseReference, Offered, ComputeOffers, DataOffers, Owner
  <2>4. CASE SubmitCreate \/ Created \/ CreateFails \/ CloseCreate \/ RegisterRetried
              \/ UNCHANGED crVars
    BY <2>4 DEF SubmitCreate, Created, CreateFails, CloseCreate, RegisterRetried, crVars, Owner,
       CreateInv, ReferenceFollowsOwner
  <2>5. QED
    BY <2>1, <2>2, <2>3, <2>4 DEF CreateNext
<1>2. OnlyStorableMade'
  <2>1. \A p : Storable(p) => Storable(p)'
    BY <1>f DEF Storable, ValidBoundary, SameScope
  <2>2. \A p \in crMade' : p \in crMade \/ Storable(p)
    BY DEF CreateNext, OpenCreate, ChooseOwnership, ChooseClient, ChooseReference, SubmitCreate,
       Created, CreateFails, CloseCreate, RegisterFails, RegisterRetried, crVars
  <2>3. QED
    BY <2>1, <2>2 DEF CreateInv, OnlyStorableMade
<1>3. HiddenReferenceNeverSent'
  <2> SUFFICES ASSUME crForm \in {"compute", "data"}, NEW p \in crPosts'
               PROVE  p.of.reference \in {NoReference, "internal", p.of.owner}
    BY <1>f DEF HiddenReferenceNeverSent
  <2>1. \A q \in crPosts : q.of.reference \in {NoReference, "internal", q.of.owner}
    BY DEF CreateInv, HiddenReferenceNeverSent
  <2>2. \A posts : posts \subseteq crPosts =>
          \A r \in Orphans(posts) : \E q \in crPosts : r.of = q.of
    BY <1>t DEF Orphans, CreateTypeOK, Post
  <2>3. CASE SubmitCreate
    BY <2>1, <2>3 DEF SubmitCreate, CreateInv, ReferenceFollowsOwner
  <2>3a. CASE Created
    <3>1. PICK q \in crPosts : crPosts' = Orphans(crPosts \ {q})
      BY <2>3a DEF Created
    <3>2. QED
      BY <2>1, <2>2, <3>1
  <2>4. CASE CreateFails \/ CloseCreate \/ RegisterFails
    BY <2>1, <2>2, <2>4 DEF CreateFails, CloseCreate, RegisterFails
  <2>5. CASE OpenCreate \/ ChooseOwnership \/ ChooseClient \/ ChooseReference
              \/ RegisterRetried \/ UNCHANGED crVars
    BY <2>1, <2>5 DEF OpenCreate, ChooseOwnership, ChooseClient, ChooseReference,
       RegisterRetried, crVars
  <2>6. QED
    BY <2>3, <2>3a, <2>4, <2>5 DEF CreateNext
<1>4. QED
  BY <1>t, <1>1, <1>2, <1>3 DEF CreateInv

(* A storable resource names one client at most.                           *)
LEMMA StorableNamesOneClient == CreateInv => ClientsStayApart
<1> SUFFICES ASSUME CreateInv, NEW p \in crMade,
                    {p.owner, p.reference} \intersect Clients # {}
             PROVE  Cardinality({p.owner, p.reference} \intersect Clients) = 1
  BY DEF ClientsStayApart
<1>1. Storable(p)
  BY DEF CreateInv, OnlyStorableMade
<1>2. \E c : {p.owner, p.reference} \intersect Clients = {c}
  BY <1>1, CreateIdentities DEF Storable, ValidBoundary, SameScope
<1>3. QED
  BY <1>2, FS_Singleton

LEMMA CreateInvariant == CreateSpec => [](CreateInv /\ ClientsStayApart)
BY CreateInvInit, CreateInvStep, StorableNamesOneClient, PTL DEF CreateSpec

-----------------------------------------------------------------------------
(* Editing the rows of a card.                                             *)

LEMMA NestedNumbers == MaxSends \in Nat /\ MaxReads \in Nat
BY NestedBounds

(* The three lists of fields that every card keeps by hand agree: what it   *)
(* sends, its Add handler clears and its Edit handler sets.  The endpoint   *)
(* card clears when it is left and cannot be edited in place.               *)
LEMMA ListsOfFieldsAgree ==
  \A c \in Cards \ {"endpoint"} :
     NestedSent(c) \subseteq AddClears(c) \intersect NestedEdited(c)
<1> USE DEF NestedSent, AddClears, NestedEdited, Kubernetes, Networking
<1>1. ASSUME NEW c \in Kubernetes
      PROVE  NestedSent(c) \subseteq AddClears(c) \intersect NestedEdited(c)
  BY <1>1 DEF KubernetesSent, KubernetesCleared, ServiceEdited, IngressEdited, HelmEdited,
     VolumeEdited
<1>2. ASSUME NEW c \in Networking
      PROVE  NestedSent(c) \subseteq AddClears(c) \intersect NestedEdited(c)
  BY <1>2 DEF NetworkingSent, NetworkingCleared, InterfaceEdited, AddressEdited
<1>3. ASSUME NEW c \in {"container", "dns", "tls", "repository", "tag", "relationship", "provider"}
      PROVE  NestedSent(c) \subseteq AddClears(c) \intersect NestedEdited(c)
  BY <1>3 DEF ContainerSent, ContainerCleared, ContainerEdited, DNSSent, DNSCleared, DNSEdited,
     TLSSent, TLSEdited, RepositoryRowSent, RepositoryEdited, TagSent, TagEdited,
     RelationshipSent, RelationshipEdited, ProviderSent, ProviderEdited
<1>4. QED
  BY <1>1, <1>2, <1>3 DEF Cards

(* What a card sends, its rows are made with, changed by and listed with.   *)
LEMMA RowsTakeWhatIsSent ==
  \A c \in Cards :
     NestedSent(c) \subseteq RowMadeBy[c] \intersect RowTakenBy[c] \intersect RowListedBy[c]
<1> USE DEF NestedSent, RowMadeBy, RowTakenBy, RowListedBy, Kubernetes, Networking
<1>1. ASSUME NEW c \in {"service", "ingress"}
      PROVE  NestedSent(c) \subseteq RowMadeBy[c] \intersect RowTakenBy[c] \intersect RowListedBy[c]
  BY <1>1 DEF KubernetesSent, ServiceMade, ServiceTaken, ServiceListed, IngressMade,
     IngressTaken, IngressListed
<1>2. ASSUME NEW c \in {"helm", "volume"}
      PROVE  NestedSent(c) \subseteq RowMadeBy[c] \intersect RowTakenBy[c] \intersect RowListedBy[c]
  BY <1>2 DEF KubernetesSent, HelmMade, HelmTaken, HelmListed, VolumeMade, VolumeTaken,
     VolumeListed
<1>3. ASSUME NEW c \in Networking
      PROVE  NestedSent(c) \subseteq RowMadeBy[c] \intersect RowTakenBy[c] \intersect RowListedBy[c]
  BY <1>3 DEF NetworkingSent, InterfaceMade, InterfaceTaken, InterfaceListed, AddressMade,
     AddressTaken, AddressListed
<1>4. ASSUME NEW c \in {"container", "endpoint", "dns"}
      PROVE  NestedSent(c) \subseteq RowMadeBy[c] \intersect RowTakenBy[c] \intersect RowListedBy[c]
  BY <1>4 DEF ContainerSent, ContainerMade, ContainerTaken, ContainerListed, EndpointRowSent,
     EndpointSet, EndpointMade, EndpointTaken, EndpointListed, DNSSent, DNSSet, DNSMade,
     DNSTaken, DNSListed
<1>5. ASSUME NEW c \in {"tls", "repository", "tag", "relationship", "provider"}
      PROVE  NestedSent(c) \subseteq RowMadeBy[c] \intersect RowTakenBy[c] \intersect RowListedBy[c]
  BY <1>5 DEF TLSSent, TLSMade, TLSTaken, TLSListed, RepositoryRowSent, LinkMade, LinkTaken,
     LinkListed, TagSent, TagRowMade, TagRowTaken, TagRowListed, RelationshipSent,
     RelationshipMade, RelationshipTaken, RelationshipListed, ProviderSent, ProviderSchema,
     ProviderMade, ProviderTaken, ProviderListed
<1>6. QED
  BY <1>1, <1>2, <1>3, <1>4, <1>5 DEF Cards

LEMMA EndpointsNotEdited ==
  nrCard = "endpoint" => "edit" \notin RowOffers(nrCard, nrForm.saving)
BY DEF RowOffers, EndpointRowOffers, ContainerRowOffers, KubernetesRowOffers, DNSRowOffers,
   TLSRowOffers, NetworkingRowOffers, RepositoryRowOffers, TagRowOffers, ProviderRowOffers,
   RelationshipRowOffers, Kubernetes, Networking

(* What a handler reads again, and whether it waits for it.                *)
LEMMA LoadsTyped ==
  \A rows \in SUBSET Rows, last \in BOOLEAN : [rows |-> rows, last |-> last] \in Read
BY DEF Read

LEMMA NestedFormsTyped ==
  NestedTypeOK => ClosedForm \in NestedForm /\ Left \in NestedForm
BY DEF NestedTypeOK, ClosedForm, Left, Filled, NestedForm

LEMMA NestedTypesStep == NestedTypeOK /\ [NestedNext]_nrVars => NestedTypeOK'
<1> SUFFICES ASSUME NestedTypeOK, [NestedNext]_nrVars PROVE NestedTypeOK'
  OBVIOUS
<1> USE NestedNumbers DEF NestedTypeOK, nrWhich, nrAsk, nrServer
<1>f. Left \in NestedForm
  BY NestedFormsTyped
<1>1. CASE AddRow \/ EditRow
  <2>1. nrForm' \in NestedForm
    BY <1>1 DEF AddRow, EditRow, Filled, ReadInto, NestedForm
  <2>2. nrOptions' = nrOptions /\ nrOpening' \subseteq Rows \union {New}
    BY <1>1 DEF AddRow, EditRow, Awaits
  <2>3. UNCHANGED <<nrWhich, nrServer, nrShown, nrReady, nrRemoving, nrCalls, nrReads, nrSends>>
    BY <1>1 DEF AddRow, EditRow
  <2>4. QED
    BY <2>1, <2>2, <2>3
<1>2. CASE TypeRow
  BY <1>2 DEF TypeRow, NestedForm
<1>3. CASE CancelRow
  <2>1. Unmounted \subseteq Call
    <3>1. \A c \in Call : [c EXCEPT !.mine = FALSE] \in Call
      BY DEF Call
    <3>2. QED
      BY <3>1 DEF Unmounted
  <2>2. QED
    BY <1>3, <1>f, <2>1 DEF CancelRow
<1>4. CASE SaveRow
  <2>1. nrSends' \in 0..MaxSends
    BY <1>4 DEF SaveRow
  <2>2. [op |-> "save", target |-> nrForm.target, from |-> nrForm.from,
         typed |-> nrForm.typed, mine |-> TRUE] \in Call
    BY DEF NestedForm, Call
  <2>3. QED
    BY <1>4, <2>1, <2>2 DEF SaveRow, NestedForm
<1>5. \A c \in Call : RowsAfter(c) \subseteq SUBSET Rows
  BY DEF RowsAfter
<1>6. nrStore' \subseteq Rows =>
         Reloading(nrReads, TRUE) \subseteq Read /\ Reloading(nrReads, FALSE) \subseteq Read
  BY LoadsTyped DEF Reloading
<1>h. \A c \in Call : RowHolds(c) \in BOOLEAN
  BY DEF RowHolds
<1>7. CASE RowSaved
  <2>1. nrStore' \subseteq Rows /\ nrHeld' \in BOOLEAN
    BY <1>5, <1>7, <1>h DEF RowSaved
  <2>2. nrForm' \in NestedForm
    BY <1>7, <1>f DEF RowSaved, NestedForm
  <2>3. QED
    BY <1>6, <1>7, <2>1, <2>2 DEF RowSaved
<1>8. CASE RowSaveFails
  <2>1. nrStore' \subseteq Rows /\ nrHeld' \in BOOLEAN
    BY <1>5, <1>8, <1>h DEF RowSaveFails
  <2>2. nrForm' \in NestedForm
    BY <1>8 DEF RowSaveFails, NestedForm, Call
  <2>3. QED
    BY <1>8, <2>1, <2>2 DEF RowSaveFails
<1>9. CASE RemoveRow
  <2>1. nrSends' \in 0..MaxSends
    BY <1>9 DEF RemoveRow
  <2>2. nrForm' \in NestedForm
    BY <1>9 DEF RemoveRow, NestedForm
  <2>3. \A r \in Rows : [op |-> "remove", target |-> r, from |-> New, typed |-> FALSE,
                         mine |-> TRUE] \in Call
    BY DEF Call
  <2>3a. nrRemoving' \in Rows /\ nrCalls' \subseteq Call
    BY <1>9, <2>3 DEF RemoveRow
  <2>4. QED
    BY <1>9, <2>1, <2>2, <2>3a DEF RemoveRow
<1>10. CASE Removed \/ RemoveFails
  <2>1. nrStore' \subseteq Rows
    BY <1>5, <1>10 DEF Removed, RemoveFails
  <2>2. nrForm' \in NestedForm
    BY <1>10 DEF Removed, RemoveFails, NestedForm
  <2>3. nrReads' \subseteq Read
    BY <1>6, <1>10, <2>1 DEF Removed, RemoveFails
  <2>4. nrCalls' \subseteq Call /\ nrRemoving' = New
    BY <1>10 DEF Removed, RemoveFails
  <2>5. QED
    BY <1>10, <2>1, <2>2, <2>3, <2>4 DEF Removed, RemoveFails
<1>11. CASE RowsArrive \/ RowsFail
  BY <1>11 DEF RowsArrive, RowsFail, NestedForm, Read
<1>12. CASE LiveReload
  BY LoadsTyped, <1>12 DEF LiveReload
<1>13. CASE RelationshipOptions
  BY <1>13 DEF RelationshipOptions, NestedForm
<1>14. CASE UNCHANGED nrVars
  BY <1>14 DEF nrVars
<1>15. QED
  BY <1>1, <1>2, <1>3, <1>4, <1>7, <1>8, <1>9, <1>10, <1>11, <1>12, <1>13, <1>14 DEF NestedNext

(* An open form holds, in a field the user did not write, what was read     *)
(* from the row it edits; the endpoint card never leaves the new row.       *)
FormOfOneRow ==
  /\ nrCard = "endpoint" => nrForm.target = New /\ nrForm.from = New
  /\ (nrCard = "relationship" => nrFld # "type") =>
        (nrForm.open /\ ~nrForm.typed => nrForm.from = nrForm.target)

\* Only the relationship form waits for options.
OnlyRelationshipsAsk == nrCard # "relationship" => nrOpening = {}

(* In the cards whose answers leave a form to its user, what holds a save   *)
(* back is there once: a call, or the load its handler waits for.           *)
Held(c) == c.op = "save" \/ nrCard = "tag"
OneSaveAtATime ==
  nrCard \in {"endpoint", "tag"} =>
    /\ \A c \in nrCalls : Held(c) => nrForm.saving
    /\ \A l \in nrReads : l.last => nrForm.saving /\ nrCard = "endpoint"
    /\ \A c, d \in nrCalls : Held(c) /\ Held(d) => c = d
    /\ \A l, m \in nrReads : l.last /\ m.last => l = m
    /\ \A c \in nrCalls, l \in nrReads : ~(Held(c) /\ l.last)

NestedInv ==
  NestedTypeOK /\ FormOfOneRow /\ OnlyRelationshipsAsk /\ RowsNeverMixed /\ OneSaveAtATime

LEMMA NestedInvInit == NestedInit => NestedInv
<1> SUFFICES ASSUME NestedInit PROVE NestedInv
  OBVIOUS
<1>1. nrSends \in 0..MaxSends
  BY NestedNumbers DEF NestedInit
<1>2. NestedTypeOK
  <2>1. nrStore \in SUBSET Rows /\ nrForm \in NestedForm
    BY DEF NestedInit, ClosedForm, NestedForm
  <2>2. nrReads \subseteq Read
    BY <2>1, LoadsTyped DEF NestedInit
  <2>3. QED
    BY <1>1, <2>1, <2>2 DEF NestedInit, NestedTypeOK
<1>3. QED
  BY <1>2 DEF NestedInit, NestedInv, ClosedForm, FormOfOneRow, OnlyRelationshipsAsk,
     RowsNeverMixed, OneSaveAtATime

LEMMA FormOfOneRowStep == NestedInv /\ [NestedNext]_nrVars => FormOfOneRow'
<1> SUFFICES ASSUME NestedInv, [NestedNext]_nrVars PROVE FormOfOneRow'
  OBVIOUS
<1>f. nrForm \in NestedForm /\ nrCard \in Cards /\ nrFld \in NestedSent(nrCard)
  BY DEF NestedInv, NestedTypeOK
<1>a. nrCard # "endpoint" => nrFld \in AddClears(nrCard) /\ nrFld \in NestedEdited(nrCard)
  BY <1>f, ListsOfFieldsAgree
<1>b. nrFld \in RowListedBy[nrCard]
  BY <1>f, RowsTakeWhatIsSent
<1> USE <1>f DEF NestedInv, FormOfOneRow, nrWhich, NestedForm
<1>1. CASE AddRow
  BY <1>1, <1>a DEF AddRow, Filled
<1>2. CASE EditRow
  BY <1>2, <1>a, <1>b, EndpointsNotEdited DEF EditRow, ReadInto
<1>3. ~Left.open /\ (nrCard = "endpoint" => Left.target = New /\ Left.from = New)
  BY DEF Left, ClosedForm, Filled, Drawer, Kubernetes
<1>4. CASE CancelRow
  BY <1>3, <1>4 DEF CancelRow
<1>5. CASE RowSaved
  <2>1. Left \in NestedForm
    BY NestedFormsTyped
  <2>2. QED
    BY <1>3, <1>5, <2>1 DEF RowSaved
<1>6. CASE RelationshipOptions
  BY <1>6 DEF RelationshipOptions, OnlyRelationshipsAsk
<1>7. CASE TypeRow \/ SaveRow \/ RowSaveFails
  BY <1>7 DEF TypeRow, SaveRow, RowSaveFails
<1>8. CASE RemoveRow \/ Removed \/ RemoveFails \/ RowsArrive \/ RowsFail \/ LiveReload
  BY <1>8 DEF RemoveRow, Removed, RemoveFails, RowsArrive, RowsFail, LiveReload
<1>9. CASE UNCHANGED nrVars
  BY <1>9 DEF nrVars
<1>10. QED
  BY <1>1, <1>2, <1>4, <1>5, <1>6, <1>7, <1>8, <1>9 DEF NestedNext

LEMMA RowsNeverMixedStep ==
  NestedInv /\ [NestedNext]_nrVars => OnlyRelationshipsAsk' /\ RowsNeverMixed'
<1> SUFFICES ASSUME NestedInv, [NestedNext]_nrVars
             PROVE  OnlyRelationshipsAsk' /\ RowsNeverMixed'
  OBVIOUS
<1> USE DEF NestedInv, OnlyRelationshipsAsk, RowsNeverMixed, nrWhich, nrAsk
<1>1. CASE AddRow \/ EditRow
  BY <1>1 DEF AddRow, EditRow, Awaits
<1>2. CASE SaveRow
  BY <1>2 DEF SaveRow, FormOfOneRow
<1>3. CASE CancelRow
  <2>1. \A c \in Unmounted : \E d \in nrCalls : c = [d EXCEPT !.mine = FALSE]
    BY DEF Unmounted
  <2>2. QED
    BY <1>3, <2>1 DEF CancelRow, NestedTypeOK, Call
<1>4. CASE RemoveRow
  BY <1>4 DEF RemoveRow
<1>5. CASE TypeRow \/ RowSaved \/ RowSaveFails \/ Removed \/ RemoveFails \/ RowsArrive \/ RowsFail
              \/ LiveReload \/ RelationshipOptions \/ UNCHANGED nrVars
  BY <1>5 DEF TypeRow, RowSaved, RowSaveFails, Removed, RemoveFails, RowsArrive, RowsFail,
     LiveReload, RelationshipOptions, nrVars
<1>6. QED
  BY <1>1, <1>2, <1>3, <1>4, <1>5 DEF NestedNext

(* The endpoint card waits for its reload after a save, the tag card for    *)
(* none, and no card for the reload after a deletion.                      *)
LEMMA ReloadingWaits ==
  /\ nrCard = "endpoint" =>
       Reloading(nrReads, TRUE) = nrReads \union {[rows |-> nrStore', last |-> TRUE]}
  /\ nrCard = "tag" =>
       Reloading(nrReads, TRUE) = nrReads \union {[rows |-> nrStore', last |-> FALSE]}
  /\ Reloading(nrReads, FALSE) = nrReads \union {[rows |-> nrStore', last |-> FALSE]}
BY DEF Reloading

LEMMA OneSaveStep == NestedInv /\ [NestedNext]_nrVars => OneSaveAtATime'
<1> SUFFICES ASSUME NestedInv, [NestedNext]_nrVars, nrCard \in {"endpoint", "tag"}
             PROVE  OneSaveAtATime'
  BY DEF NestedNext, AddRow, EditRow, TypeRow, CancelRow, SaveRow, RowSaved, RowSaveFails,
     RemoveRow, Removed, RemoveFails, RowsArrive, RowsFail, LiveReload, RelationshipOptions,
     nrVars, nrWhich, OneSaveAtATime
<1>f. nrForm \in NestedForm
  BY DEF NestedInv, NestedTypeOK
<1>r. nrCard # "relationship" /\ ~Drawer(nrCard)
  BY DEF Drawer
<1>o. nrCard = "tag" /\ "remove" \in RowOffers(nrCard, nrForm.saving) => ~nrForm.saving
  BY DEF RowOffers, TagRowOffers, Kubernetes, Networking
<1> USE <1>f, <1>r DEF NestedInv, OneSaveAtATime, Held, nrWhich, NestedForm
<1>1. CASE AddRow \/ EditRow
  BY <1>1 DEF AddRow, EditRow
<1>2. CASE TypeRow
  BY <1>2 DEF TypeRow
<1>3. CASE CancelRow
  BY <1>3 DEF CancelRow
<1>4. CASE SaveRow
  BY <1>4 DEF SaveRow
<1>5. CASE RowSaved
  <2>1. PICK c \in nrCalls : /\ c.op = "save" /\ nrCalls' = nrCalls \ {c}
                             /\ nrForm' = [Left EXCEPT !.saving = nrCard \notin {"tag", "provider"}]
                             /\ nrReads' = Reloading(nrReads, TRUE)
                             /\ UNCHANGED nrWhich
    BY <1>5 DEF RowSaved
  <2>2. Left \in NestedForm
    BY NestedFormsTyped
  <2>3. nrForm'.saving = (nrCard = "endpoint")
    BY <2>1, <2>2
  <2>4. \A d \in nrCalls' : ~Held(d)
    BY <2>1
  <2>5. \A l \in nrReads : ~l.last
    BY <2>1
  <2>6. CASE nrCard = "endpoint"
    <3>1. nrReads' = nrReads \union {[rows |-> nrStore', last |-> TRUE]}
      BY <2>1, <2>6, ReloadingWaits
    <3>2. QED
      BY <2>1, <2>3, <2>4, <2>5, <2>6, <3>1
  <2>7. CASE nrCard = "tag"
    <3>1. nrReads' = nrReads \union {[rows |-> nrStore', last |-> FALSE]}
      BY <2>1, <2>7, ReloadingWaits
    <3>2. \A l \in nrReads' : ~l.last
      BY <2>5, <3>1
    <3>3. QED
      BY <2>1, <2>3, <2>4, <2>7, <3>2
  <2>8. QED
    BY <2>6, <2>7
<1>6. CASE RowSaveFails
  BY <1>6 DEF RowSaveFails
<1>7. CASE RemoveRow
  <2>1. CASE nrCard = "tag"
    BY <1>7, <1>o, <2>1 DEF RemoveRow
  <2>2. CASE nrCard = "endpoint"
    BY <1>7, <2>2 DEF RemoveRow
  <2>3. QED
    BY <2>1, <2>2
<1>8. CASE Removed
  <2>1. nrReads' = nrReads \union {[rows |-> nrStore', last |-> FALSE]}
    BY <1>8, ReloadingWaits DEF Removed
  <2>2. \A l \in nrReads' : l \in nrReads \/ ~l.last
    BY <2>1
  <2>3. QED
    BY <1>8, <2>2 DEF Removed
<1>9. CASE RemoveFails
  BY <1>9 DEF RemoveFails
<1>10. CASE RowsArrive \/ RowsFail
  BY <1>10 DEF RowsArrive, RowsFail
<1>11. CASE LiveReload
  BY <1>11 DEF LiveReload
<1>12. CASE RelationshipOptions
  BY <1>12 DEF RelationshipOptions, OnlyRelationshipsAsk
<1>13. CASE UNCHANGED nrVars
  BY <1>13 DEF nrVars
<1>14. QED
  BY <1>1, <1>2, <1>3, <1>4, <1>5, <1>6, <1>7, <1>8, <1>9, <1>10, <1>11, <1>12, <1>13
     DEF NestedNext

LEMMA NestedInvStep == NestedInv /\ [NestedNext]_nrVars => NestedInv'
BY NestedTypesStep, FormOfOneRowStep, RowsNeverMixedStep, OneSaveStep DEF NestedInv

LEMMA NestedInvariant == NestedSpec => []NestedInv
BY NestedInvInit, NestedInvStep, PTL DEF NestedSpec

(* An answer to an endpoint or tag card leaves the form the user went on    *)
(* writing in: while the form can be written in, no save is in flight.      *)
LEMMA DraftOutlives == NestedSpec => DraftOutlivesAnswer
<1>1. NestedInv /\ [NestedNext]_nrVars =>
        (nrForm.typed /\ nrForm.open /\ ~nrForm.saving /\ nrCard \in {"endpoint", "tag"}
           /\ nrCalls' # nrCalls => nrForm'.typed /\ nrForm'.open)
  <2> SUFFICES ASSUME NestedInv, [NestedNext]_nrVars, nrForm.typed, nrForm.open, ~nrForm.saving,
                      nrCard \in {"endpoint", "tag"}, nrCalls' # nrCalls
               PROVE  nrForm'.typed /\ nrForm'.open
    OBVIOUS
  <2>1. nrForm \in NestedForm
    BY DEF NestedInv, NestedTypeOK
  <2>2. ~RowSaved /\ ~CancelRow
    BY DEF RowSaved, CancelRow, Drawer, NestedInv, OneSaveAtATime, Held
  <2>3. CASE SaveRow \/ RowSaveFails \/ RemoveRow \/ Removed \/ RemoveFails
    BY <2>1, <2>3 DEF SaveRow, RowSaveFails, RemoveRow, Removed, RemoveFails, NestedForm
  <2>4. SaveRow \/ RowSaveFails \/ RemoveRow \/ Removed \/ RemoveFails
    BY <2>2 DEF NestedNext, AddRow, EditRow, TypeRow, RowsArrive, RowsFail, LiveReload,
       RelationshipOptions, nrVars
  <2>5. QED
    BY <2>3, <2>4
<1>2. QED
  BY <1>1, NestedInvariant, PTL DEF NestedSpec, DraftOutlivesAnswer

(* A row whose save was accepted was given what the user wrote: the call    *)
(* carried a field its card sends, and the server takes every such field.   *)
LEMMA SavedRows == NestedSpec => SavedRowHolds
<1>1. NestedInit => nrHeld
  BY DEF NestedInit
<1>2. NestedInv /\ nrHeld /\ [NestedNext]_nrVars => nrHeld'
  <2> SUFFICES ASSUME NestedInv, nrHeld, [NestedNext]_nrVars PROVE nrHeld'
    OBVIOUS
  <2>1. nrFld \in RowMadeBy[nrCard] /\ nrFld \in RowTakenBy[nrCard]
    BY RowsTakeWhatIsSent DEF NestedInv, NestedTypeOK
  <2>2. \A c : RowHolds(c)
    BY <2>1 DEF RowHolds
  <2>3. CASE RowSaved \/ RowSaveFails
    BY <2>2, <2>3 DEF RowSaved, RowSaveFails, nrServer
  <2>4. CASE ~RowSaved /\ ~RowSaveFails
    BY <2>4 DEF NestedNext, nrVars, nrServer, AddRow, EditRow, TypeRow, CancelRow, SaveRow,
       RemoveRow, Removed, RemoveFails, RowsArrive, RowsFail, LiveReload, RelationshipOptions
  <2>5. QED
    BY <2>3, <2>4
<1>3. QED
  BY <1>1, <1>2, NestedInvariant, PTL DEF NestedSpec, SavedRowHolds

-----------------------------------------------------------------------------
(* Editing the website's content.                                          *)

(* What a content form sends, its Edit button fills from the row.          *)
LEMMA SentIsFilled == \A k \in ContentKinds : ContentSent(k) \subseteq ContentFilled(k)
BY DEF ContentKinds, ContentSent, ContentFilled, PostFields, CategoryFields, TagFields, FAQFields,
   FAQCategoryFields, PortfolioFields, TestimonialFields, PostFilled, CategoryFilled, TagFilled,
   FAQFilled, FAQCategoryFilled, PortfolioFilled, TestimonialFilled

(* Each kind's POST, PUT and answer cover what its form sends.              *)
LEMMA SentIsStoredAndAnswered ==
  \A k \in ContentKinds : /\ ContentSent(k) \subseteq MadeBy[k]
                          /\ ContentSent(k) \subseteq PutBy[k]
                          /\ ContentSent(k) \subseteq ListedBy[k]
<1>1. \A k \in ContentKinds : ContentSent(k) \subseteq MadeBy[k]
  BY DEF ContentKinds, ContentSent, PostFields, CategoryFields, TagFields, FAQFields,
     FAQCategoryFields, PortfolioFields, TestimonialFields, MadeBy, PostMade, CategoryMade,
     TagMade, FAQMade, FAQCategoryMade, PortfolioMade, TestimonialMade
<1>2. \A k \in ContentKinds : ContentSent(k) \subseteq PutBy[k]
  BY DEF ContentKinds, ContentSent, PostFields, CategoryFields, TagFields, FAQFields,
     FAQCategoryFields, PortfolioFields, TestimonialFields, PutBy, PostTaken, CategoryTaken,
     TagTaken, FAQTaken, FAQCategoryTaken, PortfolioTaken, TestimonialTaken
<1>3. \A k \in ContentKinds : ContentSent(k) \subseteq ListedBy[k]
  BY DEF ContentKinds, ContentSent, PostFields, CategoryFields, TagFields, FAQFields,
     FAQCategoryFields, PortfolioFields, TestimonialFields, ListedBy, PostAnswered,
     CategoryAnswered, TagAnswered, FAQAnswered, FAQCategoryAnswered, PortfolioAnswered,
     TestimonialAnswered
<1>4. QED
  BY <1>1, <1>2, <1>3

LEMMA AnswersCarryTheField == ContentTypeOK => \A v : InAnswer(v) = v
BY SentIsStoredAndAnswered DEF ContentTypeOK, InAnswer

ContentEdit == [target : Items \union {NoItem}, from : Items \union {NoItem},
                val : ContentValues, base : ContentValues, touched : BOOLEAN]

LEMMA ContentFormsTyped ==
  ContentTypeOK =>
    /\ NoEdit \in ContentEdit /\ Typed \subseteq ContentValues
    /\ Unanswered \subseteq ContentCall
    /\ \A i \in Items \union {NoItem} : Remounted(i) \subseteq ContentCall
    /\ \A i \in Items : coShown[i] # "gone" =>
          FromItem(i) \in ContentValues /\ coShown[i] \in ContentValues
<1> SUFFICES ASSUME ContentTypeOK PROVE
       /\ NoEdit \in ContentEdit /\ Typed \subseteq ContentValues
       /\ Unanswered \subseteq ContentCall
       /\ \A i \in Items \union {NoItem} : Remounted(i) \subseteq ContentCall
       /\ \A i \in Items : coShown[i] # "gone" =>
             FromItem(i) \in ContentValues /\ coShown[i] \in ContentValues
  OBVIOUS
<1>1. NoEdit \in ContentEdit /\ Typed \subseteq ContentValues
  BY DEF NoEdit, ContentEdit, Typed, ContentValues
<1>2. Unanswered \subseteq ContentCall
  <2>1. \A c \in ContentCall : [c EXCEPT !.mine = FALSE] \in ContentCall
    BY DEF ContentCall
  <2>2. QED
    BY <2>1 DEF ContentTypeOK, Unanswered
<1>3. \A i \in Items \union {NoItem} : Remounted(i) \subseteq ContentCall
  BY <1>2 DEF ContentTypeOK, Remounted
<1>4. \A i \in Items : coShown[i] # "gone" => coShown[i] \in ContentValues
  BY DEF ContentTypeOK
<1>5. \A i \in Items : coShown[i] # "gone" => FromItem(i) \in ContentValues
  BY <1>4 DEF FromItem, ContentValues
<1>6. QED
  BY <1>1, <1>2, <1>3, <1>4, <1>5

(* What a save, or an image request, leaves in an item is a value.          *)
LEMMA LeftTyped ==
  ContentTypeOK => \A c \in ContentCall :
    c.op = "post" \/ (c.op \in {"put", "image"} /\ c.target \in Items) =>
      LeftBy(c) \subseteq ContentValues
<1> SUFFICES ASSUME ContentTypeOK, NEW c \in ContentCall,
                    c.op = "post" \/ (c.op \in {"put", "image"} /\ c.target \in Items)
             PROVE  LeftBy(c) \subseteq ContentValues
  OBVIOUS
<1>1. c.val \in ContentValues /\ c.held \in ContentValues
  BY DEF ContentCall
<1>2. "default" \in ContentValues /\ "blank" \in ContentValues
  BY DEF ContentValues
<1>3. Sets(c) \subseteq ContentValues
  BY <1>1, <1>2 DEF Sets, PublishedAt
<1>4. CASE c.op = "post"
  BY <1>2, <1>3, <1>4 DEF LeftBy
<1>5. CASE c.op = "put"
  BY <1>1, <1>3, <1>5 DEF LeftBy
<1>6. CASE c.op = "image" /\ c.target \in Items
  <2>1. coStore[c.target] \in ContentValues \union {"gone"}
    BY <1>6 DEF ContentTypeOK
  <2>2. QED
    BY <1>1, <1>2, <1>6, <2>1 DEF LeftBy
<1>7. QED
  BY <1>4, <1>5, <1>6

(* A call to an item that is there is a call to one of the page's items.    *)
LEMMA StoredTyped ==
  ContentTypeOK => \A c \in ContentCall, i \in Items :
    (c.op = "post" \/ (c.op \in {"put", "image"} /\ c.target \in Items)) /\ Stored(c, i) =>
      coStore' \in [Items -> ContentValues \union {"gone"}] /\ coStore'[i] \in ContentValues
<1> SUFFICES ASSUME ContentTypeOK, NEW c \in ContentCall, NEW i \in Items, Stored(c, i),
                    c.op = "post" \/ (c.op \in {"put", "image"} /\ c.target \in Items)
             PROVE  /\ coStore' \in [Items -> ContentValues \union {"gone"}]
                    /\ coStore'[i] \in ContentValues
  OBVIOUS
<1>1. PICK v \in LeftBy(c) : coStore' = [coStore EXCEPT ![i] = v]
  BY DEF Stored
<1>2. v \in ContentValues
  BY LeftTyped
<1>3. QED
  BY <1>1, <1>2 DEF ContentTypeOK

(* What the server holds of what a save sent.                               *)
LEMMA SavesAreHeld ==
  ContentTypeOK /\ coFld # "image" =>
    \A c \in ContentCall : c.op \in {"post", "put"} => \A v \in LeftBy(c) : Holds(c.val, v)
<1> SUFFICES ASSUME ContentTypeOK, coFld # "image", NEW c \in ContentCall,
                    c.op \in {"post", "put"}, NEW v \in LeftBy(c)
             PROVE  Holds(c.val, v)
  OBVIOUS
<1>1. coFld \in MadeBy[coKind] /\ coFld \in PutBy[coKind]
  BY SentIsStoredAndAnswered DEF ContentTypeOK
<1>2. v \in Sets(c)
  BY <1>1 DEF LeftBy
<1>3. QED
  BY <1>2 DEF Holds, Sets, PublishedAt

\* Only a new item is named by no item.
CallsNameItems ==
  \A c \in coCalls : /\ c.op # "post" => c.target \in Items
                     /\ c.op = "post" => c.at = "sent"

LEMMA ContentTypesStep ==
  ContentTypeOK /\ CallsNameItems /\ [ContentNext]_coVars => ContentTypeOK'
<1> SUFFICES ASSUME ContentTypeOK, CallsNameItems, [ContentNext]_coVars PROVE ContentTypeOK'
  OBVIOUS
<1>f. /\ NoEdit \in ContentEdit /\ Typed \subseteq ContentValues
      /\ \A i \in Items \union {NoItem} : Remounted(i) \subseteq ContentCall
      /\ \A i \in Items : coShown[i] # "gone" =>
            FromItem(i) \in ContentValues /\ coShown[i] \in ContentValues
  BY ContentFormsTyped
<1>e. coEdit \in ContentEdit
  BY DEF ContentTypeOK, ContentEdit
<1>s. (coEdit' \in ContentEdit) <=>
        (coEdit' \in [target : Items \union {NoItem}, from : Items \union {NoItem},
                     val : ContentValues, base : ContentValues, touched : BOOLEAN])
  BY DEF ContentEdit
<1>n. ASSUME NEW call, Sends(call), call \in ContentCall
      PROVE  coRequests' \in 0..MaxRequests /\ coCalls' \subseteq ContentCall
  <2>1. coRequests' \in 0..MaxRequests
    BY <1>n, ContentBounds DEF Sends, ContentTypeOK
  <2>2. QED
    BY <1>n, <2>1 DEF Sends, ContentTypeOK
<1> USE <1>f, <1>e, <1>s DEF ContentTypeOK, coWhich
<1>1. CASE ContentLoaded \/ ContentLoadFails
  <2>1. \A i \in Items : InAnswer(coStore[i]) = coStore[i]
    BY AnswersCarryTheField
  <2>2. coShown' \in [Items -> ContentValues \union {"gone"}]
    BY <1>1, <2>1 DEF ContentLoaded, ContentLoadFails
  <2>3. QED
    BY <1>1, <2>2 DEF ContentLoaded, ContentLoadFails
<1>2. CASE TypeNew
  BY <1>2 DEF TypeNew
<1>3. CASE EditItem
  <2>1. coEdit' \in ContentEdit
    BY <1>3 DEF EditItem, ContentEdit
  <2>2. QED
    BY <1>3, <2>1 DEF EditItem
<1>4. CASE TypeEdit
  <2>1. coEdit' \in ContentEdit
    BY <1>4 DEF TypeEdit, ContentEdit
  <2>2. QED
    BY <1>4, <2>1 DEF TypeEdit
<1>5. CASE CancelEdit
  BY <1>5 DEF CancelEdit
<1>6. CASE SaveNew
  <2>1. [op |-> "post", target |-> NoItem, from |-> NoItem, val |-> coNew, base |-> "blank",
         touched |-> TRUE, mine |-> TRUE, at |-> "sent", held |-> "blank"] \in ContentCall
    BY DEF ContentCall, ContentValues
  <2>2. QED
    BY <1>n, <1>6, <2>1 DEF SaveNew
<1>7. CASE SaveEdit
  <2>1. [op |-> "put", target |-> coEdit.target, from |-> coEdit.from, val |-> coEdit.val,
         base |-> coEdit.base, touched |-> coEdit.touched, mine |-> TRUE, at |-> "sent",
         held |-> "blank"] \in ContentCall
    BY DEF ContentCall, ContentEdit, ContentValues
  <2>2. QED
    BY <1>n, <1>7, <2>1 DEF SaveEdit
<1>8. CASE Posted
  <2>1. coStore' \in [Items -> ContentValues \union {"gone"}]
    <3>1. PICK c \in coCalls, i \in Items : c.op = "post" /\ Stored(c, i)
      BY <1>8 DEF Posted
    <3>2. QED
      BY <3>1, StoredTyped
  <2>2. coShown' \in [Items -> ContentValues \union {"gone"}]
    <3>1. PICK i \in Items : coShown' = [coShown EXCEPT ![i] = InAnswer(coStore'[i])]
      BY <1>8 DEF Posted
    <3>2. InAnswer(coStore'[i]) = coStore'[i]
      BY AnswersCarryTheField
    <3>3. QED
      BY <2>1, <3>1, <3>2
  <2>3. coNew' \in ContentValues /\ coSaving' \in BOOLEAN /\ coCalls' \subseteq ContentCall
    BY <1>8 DEF Posted, ContentValues
  <2>4. UNCHANGED <<coWhich, coLoad, coEdit, coRequests, coLost>>
    BY <1>8 DEF Posted
  <2>5. QED
    BY <2>1, <2>2, <2>3, <2>4
<1>9. CASE PutStored
  <2>1. PICK c \in coCalls : /\ c.op = "put" /\ Stored(c, c.target) /\ coLost' = Revived(c)
                             /\ coCalls' = (coCalls \ {c})
                                  \union {[c EXCEPT !.at = "saved",
                                                    !.held = InAnswer(coStore'[c.target])]}
                             /\ UNCHANGED <<coWhich, coShown, coLoad, coNew, coEdit, coSaving,
                                            coRequests>>
    BY <1>9 DEF PutStored
  <2>2. /\ coStore' \in [Items -> ContentValues \union {"gone"}] /\ c.target \in Items
        /\ coStore'[c.target] \in ContentValues
    BY <2>1, StoredTyped DEF CallsNameItems
  <2>3. InAnswer(coStore'[c.target]) \in ContentValues
    BY <2>2, AnswersCarryTheField
  <2>4. [c EXCEPT !.at = "saved", !.held = InAnswer(coStore'[c.target])] \in ContentCall
    <3>1. \A d \in ContentCall, v \in ContentValues :
            [d EXCEPT !.at = "saved", !.held = v] \in ContentCall
      BY DEF ContentCall
    <3>2. QED
      BY <2>1, <2>3, <3>1
  <2>5. coLost' \subseteq {"answer", "row"}
    BY <2>1 DEF Revived
  <2>6. QED
    BY <2>1, <2>2, <2>4, <2>5
<1>9a. CASE ServerReads
  <2>1. PICK c \in coCalls : /\ coStore[c.target] # "gone" /\ c.target \in Items
                             /\ coCalls' = (coCalls \ {c})
                                  \union {[c EXCEPT !.at = "read", !.held = coStore[c.target]]}
                             /\ UNCHANGED <<coWhich, coStore, coShown, coLoad, coNew, coEdit,
                                            coSaving, coRequests, coLost>>
    BY <1>9a DEF ServerReads, CallsNameItems
  <2>2. coStore[c.target] \in ContentValues
    BY <2>1
  <2>3. [c EXCEPT !.at = "read", !.held = coStore[c.target]] \in ContentCall
    <3>1. \A d \in ContentCall, v \in ContentValues :
            [d EXCEPT !.at = "read", !.held = v] \in ContentCall
      BY DEF ContentCall
    <3>2. QED
      BY <2>1, <2>2, <3>1
  <2>4. QED
    BY <2>1, <2>3
<1>10. CASE PutAnswered
  <2>1. \A c \in coCalls : Put1(c) \in [Items -> ContentValues \union {"gone"}]
    BY DEF Put1, ContentCall, CallsNameItems
  <2>2. coCalls' \subseteq Remounted(NoItem)
    BY <1>10 DEF PutAnswered
  <2>3. coShown' \in [Items -> ContentValues \union {"gone"}] /\ coCalls' \subseteq ContentCall
    BY <1>10, <2>1, <2>2 DEF PutAnswered
  <2>4. /\ coEdit' = NoEdit /\ coSaving' = FALSE
        /\ UNCHANGED <<coWhich, coStore, coLoad, coNew, coRequests, coLost>>
    BY <1>10 DEF PutAnswered
  <2>5. QED
    BY <2>3, <2>4
<1>11. CASE SaveRefused
  <2>1. coStore' \in [Items -> ContentValues \union {"gone"}]
    <3>1. \/ coStore' = coStore
          \/ \E c \in coCalls, i \in Items : c.op = "post" /\ Stored(c, i)
      BY <1>11 DEF SaveRefused
    <3>2. QED
      BY <3>1, StoredTyped
  <2>2. coLost' \subseteq {"answer", "row"}
    BY <1>11 DEF SaveRefused
  <2>3. coSaving' \in BOOLEAN /\ coCalls' \subseteq ContentCall
    BY <1>11 DEF SaveRefused
  <2>4. QED
    BY <1>11, <2>1, <2>2, <2>3 DEF SaveRefused
<1>12. CASE DeleteItem
  <2>1. \A i \in Items :
          [op |-> "delete", target |-> i, from |-> i, val |-> "blank", base |-> "blank",
           touched |-> TRUE, mine |-> TRUE, at |-> "sent", held |-> "blank"]
             \in ContentCall
    BY DEF ContentCall, ContentValues
  <2>2. QED
    BY <1>n, <1>12, <2>1 DEF DeleteItem
<1>13. CASE Deleted
  BY <1>13 DEF Deleted, Deletes
<1>14. CASE DeleteFails
  <2>1. coStore' \in [Items -> ContentValues \union {"gone"}]
    BY <1>14 DEF DeleteFails, Deletes
  <2>2. coLost' \subseteq {"answer", "row"} /\ coCalls' \subseteq ContentCall
    BY <1>14 DEF DeleteFails
  <2>3. QED
    BY <1>14, <2>1, <2>2 DEF DeleteFails
<1>15. CASE ChangeImage
  <2>1. \A v \in {"typed", "blank"} :
          [op |-> "image", target |-> coEdit.target, from |-> coEdit.target, val |-> v,
           base |-> "blank", touched |-> TRUE, mine |-> TRUE, at |-> "sent",
           held |-> "blank"] \in ContentCall
    BY DEF ContentCall, ContentValues, ContentEdit
  <2>2. QED
    BY <1>n, <1>15, <2>1 DEF ChangeImage
<1>16. CASE ImageChanged \/ ImageRefused
  <2>1. PICK c \in coCalls : /\ c.op = "image" /\ coCalls' = coCalls \ {c}
                             /\ UNCHANGED <<coStore, coLost>> \/ ImageSaved(c)
                             /\ coEdit' \in {[coEdit EXCEPT !.val = c.val, !.from = c.target],
                                             coEdit}
                             /\ UNCHANGED <<coWhich, coShown, coLoad, coNew, coSaving, coRequests>>
    BY <1>16 DEF ImageChanged, ImageRefused
  <2>2. c.target \in Items /\ c.val \in ContentValues
    BY <2>1 DEF CallsNameItems, ContentCall
  <2>3. coStore' \in [Items -> ContentValues \union {"gone"}]
    BY <2>1, <2>2, StoredTyped DEF ImageSaved
  <2>4. coLost' \subseteq {"answer", "row"}
    BY <2>1 DEF ImageSaved, Revived
  <2>5. coEdit' \in ContentEdit
    <3>1. \A v \in ContentValues, i \in Items \union {NoItem} :
            [coEdit EXCEPT !.val = v, !.from = i] \in ContentEdit
      BY DEF ContentEdit
    <3>2. QED
      BY <2>1, <2>2, <3>1
  <2>6. QED
    BY <2>1, <2>3, <2>4, <2>5
<1>18. CASE UNCHANGED coVars
  BY <1>18 DEF coVars
<1>19. QED
  BY <1>1, <1>2, <1>3, <1>4, <1>5, <1>6, <1>7, <1>8, <1>9, <1>9a, <1>10, <1>11, <1>12, <1>13,
     <1>14, <1>15, <1>16, <1>18 DEF ContentNext

(* A PUT of the edit form carries its own item's value; the image editor    *)
(* and the images it asks to change are its item's.                         *)
EditHoldsItsItem ==
  /\ ImageIsItsOwn
  /\ coEdit.target # NoItem /\ ~coEdit.touched =>
        coEdit.val = coEdit.base \/ coEdit.base = "late" \/ coFld = "image"
  /\ \A c \in coCalls : c.op = "image" /\ coFld = "image" /\ c.mine => coEdit.target = c.target

(* While nothing was lost, the list differs from the server only by the     *)
(* answer under way of the one save the page allows; what a deletion took   *)
(* meanwhile is gone from both.                                             *)
Saving(c) == c.op \in {"post", "put"}
OneSaveForThePage ==
  /\ \A c \in coCalls : Saving(c) => coSaving
  /\ \A c, d \in coCalls : Saving(c) /\ Saving(d) => c = d

NothingBeforeTheLoad ==
  coLoad = "loading" => /\ coCalls = {} /\ coEdit.target = NoItem
                        /\ \A i \in Items : coShown[i] = "gone"

AnswerIsHeld ==
  "row" \notin coLost => \A c \in coCalls : c.op = "put" /\ c.at = "saved" =>
    \/ coStore[c.target] = "gone"
    \/ coStore[c.target] = c.held /\ Holds(c.val, c.held)

OnlyTheAnswerIsMissing ==
  coLoad = "loaded" /\ coLost = {} =>
    /\ \A c \in coCalls : c.op = "put" /\ c.at = "saved" =>
         \/ coStore[c.target] = c.held /\ coShown[c.target] # "gone"
         \/ coStore[c.target] = "gone" /\ coShown[c.target] = "gone"
    /\ \A i \in Items : \/ coShown[i] = coStore[i]
                        \/ \E c \in coCalls : c.op = "put" /\ c.at = "saved" /\ c.target = i

PageFollowsServer ==
  coFld # "image" => /\ OneSaveForThePage /\ NothingBeforeTheLoad
                     /\ AnswerIsHeld /\ OnlyTheAnswerIsMissing

ContentInv ==
  ContentTypeOK /\ CallsNameItems /\ EditHoldsItsItem /\ ContentSentBack /\ PageFollowsServer

LEMMA ContentInvInit == ContentInit => ContentInv
<1> SUFFICES ASSUME ContentInit PROVE ContentInv
  OBVIOUS
<1>1. coRequests \in 0..MaxRequests
  BY ContentBounds DEF ContentInit
<1>2. NoEdit \in ContentEdit
  BY DEF NoEdit, ContentEdit, ContentValues
<1>3. coStore \in [Items -> ContentValues \union {"gone"}]
  BY DEF ContentInit, ContentValues
<1>4. ContentTypeOK
  BY <1>1, <1>2, <1>3 DEF ContentInit, ContentTypeOK, ContentEdit, ContentValues
<1>5. QED
  BY <1>4 DEF ContentInit, ContentInv, CallsNameItems, EditHoldsItsItem, ImageIsItsOwn,
     ContentSentBack, PageFollowsServer, OneSaveForThePage, NothingBeforeTheLoad,
     AnswerIsHeld, OnlyTheAnswerIsMissing, NoEdit

LEMMA EditHoldsItsItemStep ==
  ContentInv /\ [ContentNext]_coVars => CallsNameItems' /\ EditHoldsItsItem' /\ ContentSentBack'
<1> SUFFICES ASSUME ContentInv, [ContentNext]_coVars
             PROVE  CallsNameItems' /\ EditHoldsItsItem' /\ ContentSentBack'
  OBVIOUS
<1>e. coEdit \in ContentEdit /\ coCalls \subseteq ContentCall
  BY DEF ContentInv, ContentTypeOK, ContentEdit
<1>n. NoItem \notin Items /\ NoEdit.target = NoItem
  BY ContentBounds DEF NoEdit
<1>k. coFld \in ContentFilled(coKind) \union {"image"}
  BY SentIsFilled DEF ContentInv, ContentTypeOK
<1>m. \A i : /\ \A c \in Remounted(i) :
                  \/ c \in coCalls /\ (coFld = "image" => i = coEdit.target)
                  \/ \E d \in coCalls : c = [d EXCEPT !.mine = FALSE]
             /\ coFld # "image" => Remounted(i) = coCalls
  BY DEF Remounted, Unanswered
<1> USE <1>e, <1>n
    DEF ContentInv, CallsNameItems, EditHoldsItsItem, ImageIsItsOwn, ContentSentBack, coWhich,
        ContentCall, ContentEdit
<1>1. CASE ContentLoaded \/ ContentLoadFails \/ TypeNew
  BY <1>1 DEF ContentLoaded, ContentLoadFails, TypeNew
<1>3. CASE EditItem
  BY <1>3, <1>m, <1>k DEF EditItem, FromItem
<1>4. CASE TypeEdit
  BY <1>4 DEF TypeEdit
<1>5. CASE CancelEdit
  BY <1>5, <1>m DEF CancelEdit
<1>6. CASE SaveNew
  BY <1>6 DEF SaveNew, Sends
<1>7. CASE SaveEdit
  BY <1>7 DEF SaveEdit, Sends
<1>8. CASE Posted \/ SaveRefused \/ Deleted \/ DeleteFails \/ ImageRefused
  BY <1>8 DEF Posted, SaveRefused, Deleted, DeleteFails, ImageRefused
<1>9. CASE ServerReads
  <2>1. PICK c \in coCalls : /\ c.op \in {"put", "image"} /\ UNCHANGED <<coFld, coEdit>>
                             /\ coCalls' = (coCalls \ {c})
                                  \union {[c EXCEPT !.at = "read", !.held = coStore[c.target]]}
    BY <1>9 DEF ServerReads
  <2> DEFINE done == [c EXCEPT !.at = "read", !.held = coStore[c.target]]
  <2>2. /\ done.op = c.op /\ done.target = c.target /\ done.from = c.from
        /\ done.val = c.val /\ done.base = c.base /\ done.touched = c.touched
        /\ done.mine = c.mine /\ done.at # "sent"
    BY <2>1
  <2>3. \A d \in coCalls' : d = done \/ d \in coCalls
    BY <2>1
  <2> HIDE DEF done
  <2>4. QED
    BY <2>1, <2>2, <2>3
<1>9a. CASE PutStored
  <2>1. PICK c \in coCalls : /\ c.op \in {"put", "image"} /\ UNCHANGED <<coFld, coEdit>>
                             /\ coCalls' = (coCalls \ {c})
                                  \union {[c EXCEPT !.at = "saved",
                                                    !.held = InAnswer(coStore'[c.target])]}
    BY <1>9a DEF PutStored
  <2> DEFINE done == [c EXCEPT !.at = "saved", !.held = InAnswer(coStore'[c.target])]
  <2>2. /\ done.op = c.op /\ done.target = c.target /\ done.from = c.from
        /\ done.val = c.val /\ done.base = c.base /\ done.touched = c.touched
        /\ done.mine = c.mine /\ done.at # "sent"
    BY <2>1
  <2>3. \A d \in coCalls' : d = done \/ d \in coCalls
    BY <2>1
  <2> HIDE DEF done
  <2>4. QED
    BY <2>1, <2>2, <2>3
<1>10. CASE PutAnswered
  BY <1>10, <1>m DEF PutAnswered
<1>12. CASE DeleteItem
  BY <1>12 DEF DeleteItem, Sends
<1>15. CASE ChangeImage
  BY <1>15 DEF ChangeImage, Sends
<1>16. CASE ImageChanged
  BY <1>16 DEF ImageChanged
<1>18. CASE UNCHANGED coVars
  BY <1>18 DEF coVars
<1>19. QED
  BY <1>1, <1>3, <1>4, <1>5, <1>6, <1>7, <1>8, <1>9, <1>9a, <1>10, <1>12, <1>15, <1>16, <1>18
     DEF ContentNext

LEMMA PageFollowsStep == ContentInv /\ [ContentNext]_coVars => PageFollowsServer'
<1> SUFFICES ASSUME ContentInv, [ContentNext]_coVars, coFld # "image"
             PROVE  PageFollowsServer'
  BY DEF ContentNext, ContentLoaded, ContentLoadFails, TypeNew, EditItem, TypeEdit, CancelEdit,
     SaveNew, SaveEdit, Posted, ServerReads, PutStored, PutAnswered, SaveRefused, DeleteItem,
     Deleted, DeleteFails, ChangeImage, ImageChanged, ImageRefused, coWhich, coVars,
     PageFollowsServer
<1>e. /\ coEdit \in ContentEdit /\ coCalls \subseteq ContentCall
      /\ coStore \in [Items -> ContentValues \union {"gone"}]
      /\ coShown \in [Items -> ContentValues \union {"gone"}]
  BY DEF ContentInv, ContentTypeOK, ContentEdit
<1>n. NoItem \notin Items /\ NoEdit.target = NoItem
  BY ContentBounds DEF NoEdit
<1>m. \A i : Remounted(i) = coCalls
  BY DEF Remounted
<1>w. coFld' = coFld
  BY DEF ContentNext, ContentLoaded, ContentLoadFails, TypeNew, EditItem, TypeEdit, CancelEdit,
     SaveNew, SaveEdit, Posted, ServerReads, PutStored, PutAnswered, SaveRefused, DeleteItem,
     Deleted, DeleteFails, ChangeImage, ImageChanged, ImageRefused, coWhich, coVars
<1>i. \A v : InAnswer(v) = v
  BY AnswersCarryTheField DEF ContentInv
<1>s. \A c \in coCalls, i \in Items :
        /\ c.op \in {"post", "put", "image"} /\ Stored(c, i) =>
             \E v \in LeftBy(c) : /\ v # "gone" /\ coStore' = [coStore EXCEPT ![i] = v]
                                  /\ c.op # "image" => Holds(c.val, v)
  <2>1. \A c \in coCalls : c.op \in {"post", "put", "image"} =>
          \A v \in LeftBy(c) : v # "gone" /\ (c.op # "image" => Holds(c.val, v))
    <3>1. "gone" \notin ContentValues
      BY DEF ContentValues
    <3>2. \A c \in coCalls : c.op \in {"post", "put", "image"} => LeftBy(c) \subseteq ContentValues
      BY <1>e, LeftTyped DEF ContentInv, CallsNameItems
    <3>3. \A c \in coCalls : c.op \in {"post", "put"} => \A v \in LeftBy(c) : Holds(c.val, v)
      BY <1>e, SavesAreHeld DEF ContentInv
    <3>4. QED
      BY <3>1, <3>2, <3>3
  <2>2. QED
    BY <2>1 DEF Stored
<1>v. \A c \in coCalls : c.held \in ContentValues /\ c.held # "gone"
  BY <1>e DEF ContentCall, ContentValues
<1> USE <1>e, <1>n, <1>v
    DEF ContentInv, CallsNameItems, PageFollowsServer, OneSaveForThePage, NothingBeforeTheLoad,
        Saving, coWhich, ContentCall, ContentEdit
<1>1. CASE ContentLoaded \/ ContentLoadFails \/ TypeNew
  <2>1. UNCHANGED <<coStore, coEdit, coSaving, coCalls, coLost>>
    BY <1>1 DEF ContentLoaded, ContentLoadFails, TypeNew
  <2>2. AnswerIsHeld'
    BY <1>w, <2>1 DEF AnswerIsHeld, Holds
  <2>3. CASE ContentLoaded
    <3>1. \A i \in Items : coShown'[i] = coStore'[i]
      BY <1>i, <2>1, <2>3 DEF ContentLoaded
    <3>2. QED
      BY <2>1, <2>2, <2>3, <3>1 DEF ContentLoaded, OnlyTheAnswerIsMissing
  <2>4. CASE ContentLoadFails \/ TypeNew
    BY <2>1, <2>2, <2>4 DEF ContentLoadFails, TypeNew, OnlyTheAnswerIsMissing
  <2>5. QED
    BY <1>1, <2>3, <2>4
<1>3. CASE EditItem \/ TypeEdit \/ CancelEdit
  <2>1. coLoad # "loading"
    BY <1>3 DEF EditItem, TypeEdit, CancelEdit
  <2>2. UNCHANGED <<coStore, coShown, coLoad, coSaving, coCalls, coLost>>
    BY <1>3, <1>m DEF EditItem, TypeEdit, CancelEdit
  <2>3. QED
    BY <1>w, <2>1, <2>2 DEF OnlyTheAnswerIsMissing, AnswerIsHeld, Holds
<1>6. CASE SaveNew \/ SaveEdit
  <2>1. PICK call : /\ ~coSaving /\ coSaving' = TRUE /\ call.at = "sent"
                    /\ coCalls' = coCalls \union {call} /\ coLoad # "loading"
                    /\ UNCHANGED <<coStore, coShown, coLoad, coEdit, coLost>>
    BY <1>6 DEF SaveNew, SaveEdit, Sends
  <2>1a. \A c \in coCalls : ~Saving(c)
    BY <2>1
  <2>1b. OneSaveForThePage'
    BY <2>1, <2>1a
  <2>2. NothingBeforeTheLoad'
    BY <2>1
  <2>3. OnlyTheAnswerIsMissing'
    BY <2>1 DEF OnlyTheAnswerIsMissing
  <2>4. AnswerIsHeld'
    BY <1>w, <2>1 DEF AnswerIsHeld, Holds
  <2>5. QED
    BY <2>1b, <2>2, <2>3, <2>4
<1>7. CASE DeleteItem \/ ChangeImage
  <2>1. PICK call : /\ ~Saving(call) /\ coLoad # "loading"
                    /\ coCalls' = coCalls \union {call}
                    /\ UNCHANGED <<coStore, coShown, coLoad, coEdit, coSaving, coLost>>
    BY <1>7 DEF DeleteItem, ChangeImage, Sends
  <2>2. OneSaveForThePage' /\ NothingBeforeTheLoad'
    BY <2>1
  <2>3. OnlyTheAnswerIsMissing'
    BY <2>1 DEF OnlyTheAnswerIsMissing
  <2>4. AnswerIsHeld'
    BY <1>w, <2>1 DEF AnswerIsHeld, Holds
  <2>5. QED
    BY <2>2, <2>3, <2>4
<1>8. CASE Posted
  <2>1a. PICK c \in coCalls, i \in Items :
           /\ c.op = "post" /\ coCalls' = coCalls \ {c} /\ coSaving' = FALSE
           /\ Stored(c, i) /\ coShown' = [coShown EXCEPT ![i] = InAnswer(coStore'[i])]
           /\ UNCHANGED <<coLoad, coEdit, coLost>>
    BY <1>8 DEF Posted
  <2>1b. PICK v : v # "gone" /\ coStore' = [coStore EXCEPT ![i] = v]
    BY <1>s, <2>1a
  <2>1. /\ c.op = "post" /\ coCalls' = coCalls \ {c} /\ coSaving' = FALSE
        /\ coShown' = [coShown EXCEPT ![i] = v]
        /\ UNCHANGED <<coLoad, coEdit, coLost>>
    BY <1>i, <2>1a, <2>1b
  <2>2. OneSaveForThePage' /\ NothingBeforeTheLoad'
    BY <2>1
  <2>3. OnlyTheAnswerIsMissing'
    BY <2>1, <2>1b DEF OnlyTheAnswerIsMissing
  <2>4. AnswerIsHeld'
    BY <2>1 DEF AnswerIsHeld
  <2>5. QED
    BY <2>2, <2>3, <2>4
<1>9a. CASE ServerReads
  <2>1. PICK c \in coCalls :
          /\ c.op \in {"put", "image"} /\ c.at = "sent"
          /\ coCalls' = (coCalls \ {c})
               \union {[c EXCEPT !.at = "read", !.held = coStore[c.target]]}
          /\ UNCHANGED <<coStore, coShown, coLoad, coEdit, coSaving, coLost>>
    BY <1>9a DEF ServerReads
  <2> DEFINE done == [c EXCEPT !.at = "read", !.held = coStore[c.target]]
  <2>2. done.op = c.op /\ done.at = "read"
    BY <2>1
  <2>3. done \in coCalls' /\ \A d \in coCalls' : d = done \/ d \in coCalls \ {c}
    BY <2>1
  <2>4. \A d \in coCalls : d # c => d \in coCalls'
    BY <2>1
  <2> HIDE DEF done
  <2>5. OneSaveForThePage' /\ NothingBeforeTheLoad'
    BY <2>1, <2>2, <2>3
  <2>6. OnlyTheAnswerIsMissing'
    BY <2>1, <2>2, <2>3, <2>4 DEF OnlyTheAnswerIsMissing
  <2>7. AnswerIsHeld'
    BY <1>w, <2>1, <2>2, <2>3 DEF AnswerIsHeld, Holds
  <2>8. QED
    BY <2>5, <2>6, <2>7
<1>9. CASE PutStored
  <2>1a. PICK c \in coCalls :
          /\ c.op = "put" /\ c.at = "read" /\ Stored(c, c.target) /\ coLost' = Revived(c)
          /\ coCalls' = (coCalls \ {c})
               \union {[c EXCEPT !.at = "saved", !.held = InAnswer(coStore'[c.target])]}
          /\ UNCHANGED <<coShown, coLoad, coEdit, coSaving>>
    BY <1>9 DEF PutStored
  <2>5. c.target \in Items
    BY <2>1a
  <2>1b. PICK v : /\ v # "gone" /\ Holds(c.val, v)
                  /\ coStore' = [coStore EXCEPT ![c.target] = v]
    BY <1>s, <2>1a, <2>5
  <2> DEFINE done == [c EXCEPT !.at = "saved", !.held = InAnswer(coStore'[c.target])]
  <2>6. /\ done.op = "put" /\ done.at = "saved" /\ done.target = c.target /\ done.val = c.val
        /\ done.held = v
    BY <1>i, <2>1a, <2>1b, <2>5
  <2>7. done \in coCalls' /\ \A d \in coCalls' : d = done \/ d \in coCalls \ {c}
    BY <2>1a
  <2> HIDE DEF done
  <2>8. \A d \in coCalls : d.op = "put" => d.at # "saved"
    BY <2>1a
  <2>2. OneSaveForThePage' /\ NothingBeforeTheLoad'
    BY <2>1a, <2>6, <2>7
  <2>3. ASSUME coLoad = "loaded", coLost' = {} PROVE OnlyTheAnswerIsMissing'
    <3>0. coLost = {} /\ coStore[c.target] # "gone"
      BY <2>1a, <2>3 DEF Revived
    <3>1. \A i \in Items : coShown[i] = coStore[i]
      BY <2>3, <2>8, <3>0 DEF OnlyTheAnswerIsMissing
    <3>2. /\ coStore'[c.target] = v /\ coShown'[c.target] # "gone"
          /\ \A i \in Items : i # c.target => coShown'[i] = coStore'[i]
      BY <2>1a, <2>1b, <2>5, <3>0, <3>1
    <3>3. QED
      BY <2>6, <2>7, <2>8, <3>2 DEF OnlyTheAnswerIsMissing
  <2>4. AnswerIsHeld'
    <3>1. coStore'[c.target] = v
      BY <2>1b, <2>5
    <3>2. QED
      BY <1>w, <2>1b, <2>6, <2>7, <2>8, <3>1 DEF AnswerIsHeld, Holds
  <2>9. QED
    BY <2>1a, <2>2, <2>3, <2>4 DEF OnlyTheAnswerIsMissing
<1>10. CASE PutAnswered
  BY <1>w, <1>10, <1>m DEF PutAnswered, Put1, OnlyTheAnswerIsMissing, AnswerIsHeld, Holds
<1>11. CASE SaveRefused
  <2>1. PICK c \in coCalls : /\ Saving(c) /\ coCalls' = coCalls \ {c} /\ coSaving' = FALSE
                             /\ \/ coLost' # {}
                                \/ c.at # "saved" /\ UNCHANGED <<coStore, coLost>>
                             /\ UNCHANGED <<coShown, coLoad, coEdit>>
    BY <1>11 DEF SaveRefused
  <2>2. \A d \in coCalls' : ~Saving(d)
    BY <2>1
  <2>3. OnlyTheAnswerIsMissing'
    BY <2>1 DEF OnlyTheAnswerIsMissing
  <2>4. QED
    BY <2>1, <2>2, <2>3 DEF AnswerIsHeld
<1>13. CASE Deleted \/ DeleteFails
  <2>1. PICK c \in coCalls :
          /\ c.op = "delete" /\ coCalls' = coCalls \ {c} /\ c.target \in Items
          /\ \/ UNCHANGED <<coStore, coShown, coLost>>
             \/ /\ Deletes(c) /\ UNCHANGED coLost
                /\ coShown' = [coShown EXCEPT ![c.target] = "gone"]
             \/ Deletes(c) /\ coLost' = coLost \union {"answer"} /\ UNCHANGED coShown
          /\ UNCHANGED <<coLoad, coEdit, coSaving>>
    BY <1>13 DEF Deleted, DeleteFails
  <2>2. coStore' = coStore \/ coStore' = [coStore EXCEPT ![c.target] = "gone"]
    BY <2>1 DEF Deletes
  <2>3. OneSaveForThePage' /\ NothingBeforeTheLoad'
    BY <2>1
  <2>4. OnlyTheAnswerIsMissing'
    BY <2>1 DEF OnlyTheAnswerIsMissing, Deletes
  <2>5. AnswerIsHeld'
    BY <1>w, <2>1, <2>2 DEF AnswerIsHeld, Holds
  <2>6. QED
    BY <2>3, <2>4, <2>5
<1>15. CASE ImageChanged \/ ImageRefused
  <2>1. PICK c \in coCalls : /\ c.op = "image" /\ coCalls' = coCalls \ {c}
                             /\ UNCHANGED <<coStore, coLost>> \/ ImageSaved(c)
                             /\ UNCHANGED <<coShown, coLoad, coSaving, coEdit>>
    BY <1>15 DEF ImageChanged, ImageRefused
  <2>2. UNCHANGED <<coStore, coLost>> \/ "row" \in coLost'
    BY <2>1 DEF ImageSaved, Revived
  <2>3. OneSaveForThePage' /\ NothingBeforeTheLoad'
    BY <2>1
  <2>4. OnlyTheAnswerIsMissing'
    BY <2>1, <2>2 DEF OnlyTheAnswerIsMissing
  <2>5. AnswerIsHeld'
    BY <1>w, <2>1, <2>2 DEF AnswerIsHeld, Holds
  <2>6. QED
    BY <2>3, <2>4, <2>5
<1>18. CASE UNCHANGED coVars
  BY <1>w, <1>18 DEF coVars, OnlyTheAnswerIsMissing, AnswerIsHeld, Holds
<1>19. QED
  BY <1>1, <1>3, <1>6, <1>7, <1>8, <1>9, <1>9a, <1>10, <1>11, <1>13, <1>15, <1>18
     DEF ContentNext

LEMMA ContentInvStep == ContentInv /\ [ContentNext]_coVars => ContentInv'
BY ContentTypesStep, EditHoldsItsItemStep, PageFollowsStep DEF ContentInv

LEMMA AnswersReach == ContentInv => EditReachesItem
BY DEF ContentInv, PageFollowsServer, AnswerIsHeld, EditReachesItem

LEMMA ContentAnswered == ContentInv => ContentListTrue
<1> SUFFICES ASSUME ContentInv, coCalls = {}, coLoad = "loaded", coLost = {}, coFld # "image"
             PROVE  coShown = coStore
  BY DEF ContentListTrue
<1>1. \A i \in Items : coShown[i] = coStore[i]
  BY DEF ContentInv, PageFollowsServer, OnlyTheAnswerIsMissing
<1>2. QED
  BY <1>1 DEF ContentInv, ContentTypeOK

LEMMA ContentInvariant == ContentSpec => [](ContentInv /\ ContentListTrue /\ EditReachesItem)
BY ContentInvInit, ContentInvStep, ContentAnswered, AnswersReach, PTL DEF ContentSpec

(* Only an accepted POST makes an item, of what it sent, or a request that   *)
(* writes a deleted row back.                                               *)
CreatedOfDraft ==
  \A i \in Items : coStore[i] = "gone" /\ coStore'[i] # "gone" =>
    \/ "row" \in coLost'
    \/ \E c \in coCalls : c.op = "post" /\ (coFld = "image" \/ Holds(c.val, coStore'[i]))

LEMMA CreatedOfDraftStep == ContentInv /\ [ContentNext]_coVars => CreatedOfDraft
<1> SUFFICES ASSUME ContentInv, [ContentNext]_coVars, NEW i \in Items,
                    coStore[i] = "gone", coStore'[i] # "gone", "row" \notin coLost'
             PROVE  \E c \in coCalls :
                      c.op = "post" /\ (coFld = "image" \/ Holds(c.val, coStore'[i]))
  BY DEF CreatedOfDraft
<1>1. /\ ContentTypeOK /\ coCalls \subseteq ContentCall
      /\ coStore \in [Items -> ContentValues \union {"gone"}]
      /\ \A c \in coCalls : c.op # "post" => c.target \in Items
  BY DEF ContentInv, ContentTypeOK, CallsNameItems
<1>2. coStore' # coStore
  OBVIOUS
<1>3. \/ \E c \in coCalls, j \in Items : c.op = "post" /\ Stored(c, j)
      \/ \E c \in coCalls : c.op # "post" /\ Deletes(c)
      \/ \E c \in coCalls : c.op # "post" /\ Stored(c, c.target) /\ coLost' = Revived(c)
  BY <1>2 DEF ContentNext, ContentLoaded, ContentLoadFails, TypeNew, EditItem, TypeEdit,
     CancelEdit, SaveNew, SaveEdit, Posted, ServerReads, PutStored, PutAnswered, SaveRefused,
     DeleteItem, Deleted, DeleteFails, ChangeImage, ImageChanged, ImageRefused, ImageSaved, coVars
<1>4. ~\E c \in coCalls : c.op # "post" /\ Deletes(c)
  BY <1>1 DEF Deletes
<1>5. ~\E c \in coCalls : c.op # "post" /\ Stored(c, c.target) /\ coLost' = Revived(c)
  BY <1>1 DEF Stored, Revived
<1>6. PICK c \in coCalls, j \in Items : c.op = "post" /\ Stored(c, j)
  BY <1>3, <1>4, <1>5
<1>7. PICK v \in LeftBy(c) : coStore' = [coStore EXCEPT ![j] = v]
  BY <1>6 DEF Stored
<1>8. j = i /\ coStore'[i] = v
  BY <1>1, <1>7
<1>9. coFld # "image" => Holds(c.val, v)
  BY <1>1, <1>6, <1>7, SavesAreHeld
<1>10. QED
  BY <1>6, <1>8, <1>9

LEMMA DraftBecomes == ContentSpec => DraftBecomesItem
<1>1. ContentInv /\ [ContentNext]_coVars => [CreatedOfDraft]_coVars
  BY CreatedOfDraftStep
<1>2. QED
  BY <1>1, ContentInvariant, PTL DEF ContentSpec, DraftBecomesItem, CreatedOfDraft

-----------------------------------------------------------------------------
(* The forms of work, CRM and settings.                                    *)

LEMMA FormKindsNamed ==
  FormKinds = {"credential", "document", "lead", "check", "task", "project", "client", "contact",
               "vendor", "vendor_rule", "mailbox", "queue_policy", "staff_access"}
BY DEF FormKinds, WorkForms

(* Every form starts with the fields it sends.                             *)
LEMMA SentIsHeld == fmKind \in FormKinds => ThisForm.sends \subseteq ThisForm.state
<1> SUFFICES ASSUME fmKind \in FormKinds PROVE ThisForm.sends \subseteq ThisForm.state
  OBVIOUS
<1> USE FormKindsNamed DEF ThisForm, WorkForms, WorkForm
<1>1. CASE fmKind = "credential"
  BY <1>1 DEF CredentialState, CredentialCreates, CredentialUpdates
<1>2. CASE fmKind = "document"
  BY <1>2 DEF DocumentState, DocumentCreates, DocumentUpdates
<1>3. CASE fmKind = "check"
  BY <1>3 DEF CheckState, CheckSends
<1>4. CASE fmKind \in {"lead", "task", "project", "client", "contact", "queue_policy",
                       "staff_access"}
  BY <1>4 DEF LeadSends, TaskSends, ProjectSends, ClientSends, ContactSends, PolicySends,
     AccessSends, LeadState, TaskState, ProjectState, ClientState, ContactState, PolicyState
<1>5. CASE fmKind \in {"vendor", "vendor_rule", "mailbox"}
  BY <1>5
<1>6. QED
  BY <1>1, <1>2, <1>3, <1>4, <1>5

(* A form of an existing record sends only fields that the update takes,    *)
(* and fills them from the answer of the GET, but for the secrets of a      *)
(* credential and the summary of a document's change.                      *)
ClearedForUser == {"secret_values", "cleared_secrets", "change_summary"}

LEMMA SentIsTakenAndRestored ==
  fmKind \in FormKinds \ Settings /\ ~fmNew =>
    /\ ThisForm.sends \subseteq TakenBy[fmKind]
    /\ ThisForm.sends \ (ThisForm.restores \cap AnsweredBy[fmKind]) \subseteq ClearedForUser
<1> SUFFICES ASSUME fmKind \in FormKinds \ Settings, ~fmNew
             PROVE  /\ ThisForm.sends \subseteq TakenBy[fmKind]
                    /\ ThisForm.sends \ (ThisForm.restores \cap AnsweredBy[fmKind])
                         \subseteq ClearedForUser
  OBVIOUS
<1> USE FormKindsNamed DEF ThisForm, WorkForms, WorkForm, ClearedForUser, TakenBy, AnsweredBy
<1>1. CASE fmKind = "credential"
  BY <1>1 DEF CredentialState, CredentialUpdates, CredentialRestores, CredentialTaken,
     CredentialIdentityTaken, CredentialValuesTaken, CredentialSummary, CredentialAnswered
<1>2. CASE fmKind = "document"
  BY <1>2 DEF DocumentState, DocumentUpdates, DocumentRestores, DocumentTaken,
     DocumentTextTaken, DocumentLinksTaken, DocumentSummary, DocumentAnswered
<1>3. CASE fmKind = "check"
  BY <1>3 DEF CheckState, CheckSends, CheckRestores, CheckTaken, CheckAnswered
<1>4. CASE fmKind = "lead"
  BY <1>4 DEF LeadState, LeadSends, LeadRestores, LeadTaken, LeadAnswered
<1>5. CASE fmKind = "task"
  BY <1>5 DEF TaskState, TaskSends, TaskRestores, TaskTaken, TaskSummary, TaskAnswered
<1>6. CASE fmKind = "project"
  BY <1>6 DEF ProjectState, ProjectSends, ProjectRestores, ProjectTaken, ProjectAnswered
<1>7. CASE fmKind = "client"
  BY <1>7 DEF ClientState, ClientSends, ClientRestores, ClientTaken, ClientAnswered
<1>8. CASE fmKind = "contact"
  BY <1>8 DEF ContactState, ContactSends, ContactRestores, ContactTaken, ContactAnswered
<1>9. CASE fmKind = "queue_policy"
  BY <1>9 DEF PolicyState, PolicySends, PolicyRestores, PolicyTaken, PolicyAnswered
<1>10. CASE fmKind = "staff_access"
  BY <1>10 DEF AccessSends, AccessState, AccessRestores, AccessTaken, AccessAnswered
<1>11. QED
  BY <1>1, <1>2, <1>3, <1>4, <1>5, <1>6, <1>7, <1>8, <1>9, <1>10 DEF Settings

(* Which form is open, and on what, no step changes.                       *)
LEMMA SameForm ==
  [WorkNext]_fmVars => UNCHANGED <<fmKind, fmFld, fmNew>> /\ UNCHANGED fmWhat
BY DEF WorkNext, OpenForm, FormLoaded, DocumentRead, DocumentOptionsRead, FormLoadFails, Retry,
   WriteField, ChangeScope, ChooseChild, OptionAdded, SubmitForm, ChangeActive, FormSaved,
   FormRefused, OtherRowSaved, LeaveForm, fmVars, fmWhat

LEMMA SameFields == UNCHANGED <<fmKind, fmFld, fmNew>> => ThisForm' = ThisForm
BY DEF ThisForm, WorkForms, CredentialOffers, CredentialIdentity, DocumentOffers, DocumentContent,
   CheckSends, CheckInputs, CheckIdentity, AccessState, AccessSends, AccessOffers, AccessIdentity

(* The choices offered for a scope are its own kind's.                     *)
LEMMA ChoicesTyped ==
  /\ \A s \in ScopeValues : ChildrenOf(s) \subseteq ScopeValues
  /\ LoadedScopes \subseteq ScopeValues \X ChildValues
  /\ StartScopes \subseteq ScopeValues \X ChildValues
  /\ \A sc \in LoadedScopes \union StartScopes : sc[2] \in {"none"} \union ChildrenOf(sc[1])
<1>1. \A s \in ScopeValues : ChildrenOf(s) \subseteq ScopeValues
  BY DEF ChildrenOf, TaskListsFor, QueuesOf, LinkableTo, AccessibleQueues, SectionsOf, ClientsOf,
     ResponsibilitiesOf, ScopeValues
<1>2. /\ LoadedScopes \subseteq ScopeValues \X ChildValues
      /\ \A sc \in LoadedScopes : sc[2] \in {"none"} \union ChildrenOf(sc[1])
  BY DEF LoadedScopes, ScopeValues, ChildValues
<1>3. /\ StartScopes \subseteq ScopeValues \X ChildValues
      /\ \A sc \in StartScopes : sc[2] \in {"none"} \union ChildrenOf(sc[1])
  BY <1>2 DEF StartScopes, ScopeValues, ChildValues
<1>4. QED
  BY <1>1, <1>2, <1>3

(* What a change of scope leaves of the choice belongs to the new scope.    *)
LEMMA KeptInScope ==
  ASSUME ScopeOffered, NEW s \in ScopeValues, NEW t \in ScopeValues,
         NEW child \in {"none"} \union ChildrenOf(t)
  PROVE  ChildKept(child, s) \in {"none"} \union ChildrenOf(s)
BY DEF ScopeOffered, ChildKept, ChildrenOf, TaskListKept, MailboxQueueKept, CredentialLinkKept,
   DefaultQueueKept, ProjectClientKept, LinkableTo, AccessibleQueues, ClientsOf, ScopeValues

LEMMA EmptyDraftTyped ==
  fmKind \in FormKinds /\ fmFld \in ThisForm.sends => EmptyDraft \in Drafts
BY SentIsHeld DEF EmptyDraft, Drafts, FieldValues, ScopeValues, ChildValues

LEMMA SendTyped ==
  ASSUME WorkTypeOK, NEW draft \in Drafts, Send(draft)
  PROVE  fmForm' \in Drafts /\ fmSaves' \subseteq Saves /\ fmSent' \in 0..MaxSaves
<1>1. fmSent' \in 0..MaxSaves
  BY FormBounds DEF Send, WorkTypeOK
<1>2. fmForm' \in Drafts
  BY DEF Send, Drafts
<1>3. SentValue \in FieldValues \union {"omitted"} /\ SentChild \in ChildValues
  BY DEF SentValue, SentChild, WorkTypeOK, Drafts, ChildValues
<1>4. [val |-> SentValue, base |-> draft.base, whole |-> draft.whole, touched |-> draft.touched,
       scope |-> draft.scope,
       child |-> IF draft.child = fmForm.child THEN SentChild ELSE draft.child,
       mine |-> TRUE] \in Saves
  BY <1>3 DEF Drafts, Saves
<1>5. QED
  BY <1>1, <1>2, <1>4 DEF Send, WorkTypeOK

LEMMA FilledTyped ==
  ASSUME WorkTypeOK, NEW draft \in Drafts
  PROVE  /\ Fills(draft) => fmForm' \in Drafts
         /\ Starts(draft) => fmForm' \in Drafts
BY ChoicesTyped DEF WorkTypeOK, Fills, Starts, FilledField, Drafts, FieldValues

LEMMA WorkTypesStep == WorkTypeOK /\ [WorkNext]_fmVars => WorkTypeOK'
<1> SUFFICES ASSUME WorkTypeOK, [WorkNext]_fmVars PROVE WorkTypeOK'
  OBVIOUS
<1>w. UNCHANGED <<fmKind, fmFld, fmNew>> /\ ThisForm' = ThisForm /\ FormKinds' = FormKinds
  BY SameForm, SameFields, FormKindsNamed DEF FormKinds, WorkForms
<1>e. EmptyDraft \in Drafts
  BY EmptyDraftTyped DEF WorkTypeOK
<1>f. fmForm \in Drafts
  BY DEF WorkTypeOK
<1>o. [fmForm EXCEPT !.options = TRUE] \in Drafts
  BY <1>f DEF Drafts
<1>t. WorkTypeOK' <=> /\ fmRec' \in FieldValues /\ fmOpen' \in BOOLEAN
                      /\ fmLoad' \in {"no", "all", "record", "options", "failed"}
                      /\ fmForm' \in Drafts /\ fmSaves' \subseteq Saves /\ fmSent' \in 0..MaxSaves
  BY <1>w DEF WorkTypeOK
<1> USE <1>t, <1>e, <1>f DEF WorkTypeOK
<1>1. CASE OpenForm
  BY <1>1 DEF OpenForm, FirstFetch
<1>2. CASE FormLoaded
  <2>1. fmForm' \in Drafts
    BY <1>2, <1>o, FilledTyped DEF FormLoaded, SettingsLoaded
  <2>2. QED
    BY <1>2, <2>1 DEF FormLoaded
<1>3. CASE DocumentRead
  BY <1>3, FilledTyped DEF DocumentRead
<1>4. CASE DocumentOptionsRead
  <2>1. fmForm' \in Drafts
    BY <1>4, <1>o, FilledTyped DEF DocumentOptionsRead
  <2>2. QED
    BY <1>4, <2>1 DEF DocumentOptionsRead
<1>5. CASE FormLoadFails \/ Retry \/ OtherRowSaved
  <2>1. fmForm' \in Drafts
    BY <1>5 DEF FormLoadFails, Retry, OtherRowSaved, Drafts
  <2>2. QED
    BY <1>5, <2>1 DEF FormLoadFails, Retry, OtherRowSaved
<1>6. CASE WriteField \/ OptionAdded
  <2>1. fmForm' \in Drafts
    BY <1>6 DEF WriteField, OptionAdded, Drafts, FieldValues
  <2>2. QED
    BY <1>6, <2>1 DEF WriteField, OptionAdded
<1>7. CASE ChangeScope
  <2>1. \A s \in ScopeValues, c \in ChildValues : ChildKept(c, s) \in ChildValues
    BY DEF ChildKept, TaskListKept, MailboxQueueKept, CredentialLinkKept, DefaultQueueKept,
       ProjectClientKept, ChildValues
  <2>2. fmForm' \in Drafts
    <3>1. PICK s \in ScopeValues :
            fmForm' = [fmForm EXCEPT !.scope = s, !.child = ChildKept(fmForm.child, s)]
      BY <1>7 DEF ChangeScope
    <3>2. ChildKept(fmForm.child, s) \in ChildValues
      BY <2>1 DEF Drafts
    <3>3. QED
      BY <3>1, <3>2 DEF Drafts
  <2>3. QED
    BY <1>7, <2>2 DEF ChangeScope
<1>8. CASE ChooseChild
  <2>1. fmForm' \in Drafts
    BY <1>8, ChoicesTyped DEF ChooseChild, Drafts, ChildValues
  <2>2. QED
    BY <1>8, <2>1 DEF ChooseChild
<1>9. CASE SubmitForm
  BY <1>9, SendTyped DEF SubmitForm
<1>10. CASE ChangeActive
  <2>1. PICK s \in ScopeValues :
          /\ Send([fmForm EXCEPT !.scope = s, !.child = IF s = "q" THEN "none" ELSE fmForm.child])
          /\ UNCHANGED <<fmRec, fmOpen, fmLoad>>
    BY <1>10 DEF ChangeActive
  <2>2. [fmForm EXCEPT !.scope = s, !.child = IF s = "q" THEN "none" ELSE fmForm.child] \in Drafts
    BY DEF Drafts, ChildValues
  <2>3. QED
    BY <2>1, <2>2, SendTyped
<1>11. \A save \in fmSaves : FormStored(save) \subseteq FieldValues
  BY DEF FormStored, Saves
<1>12. CASE FormSaved
  <2>1. fmForm' \in Drafts
    BY <1>12 DEF FormSaved, AfterSave, Drafts, FieldValues, ChildValues
  <2>2. /\ fmOpen' \in BOOLEAN /\ fmLoad' \in {"no", "all", "record", "options", "failed"}
    BY <1>12 DEF FormSaved, AfterSave
  <2>3. fmRec' \in FieldValues /\ fmSaves' \subseteq Saves
    BY <1>11, <1>12 DEF FormSaved
  <2>4. QED
    BY <1>12, <2>1, <2>2, <2>3 DEF FormSaved
<1>13. CASE FormRefused
  <2>1. fmForm' \in Drafts
    BY <1>13 DEF FormRefused, Drafts
  <2>2. fmRec' \in FieldValues /\ fmSaves' \subseteq Saves
    BY <1>11, <1>13 DEF FormRefused
  <2>3. QED
    BY <1>13, <2>1, <2>2 DEF FormRefused
<1>14. CASE LeaveForm
  <2>1. \A save \in Saves : [save EXCEPT !.mine = FALSE] \in Saves
    BY DEF Saves
  <2>2. QED
    BY <1>14, <2>1 DEF LeaveForm
<1>15. CASE UNCHANGED fmVars
  BY <1>15 DEF fmVars
<1>16. QED
  BY <1>1, <1>2, <1>3, <1>4, <1>5, <1>6, <1>7, <1>8, <1>9, <1>10, <1>12, <1>13, <1>14, <1>15
     DEF WorkNext

(* The draft's choice belongs to its scope; a form without a record, a      *)
(* settings form for instance, never holds one.                            *)
ChoiceInScope == fmForm.child \in {"none"} \union ChildrenOf(fmForm.scope)

FormsByKind ==
  /\ (fmKind \in Settings => fmNew) /\ (fmKind = "queue_policy" => ~fmNew)
  /\ fmLoad \in {"record", "options"} => fmKind = "document"
  /\ fmLoad = "record" => ~fmNew
  /\ fmForm.whole => ~fmNew

(* What the user left alone is as it was read, or cleared for the user.     *)
DraftHoldsRecord ==
  fmForm.whole /\ ~fmForm.touched =>
    fmForm.val = fmForm.base \/ (fmFld \in ClearedForUser /\ fmForm.val = "blank")

(* The forms that may not be shown without their record have their options  *)
(* only together with it, or, the document form, after it.                 *)
RecordBeforeOptions ==
  ~fmNew =>
    /\ fmKind \in {"credential", "task", "staff_access", "document"} /\ fmForm.options
          => fmForm.whole
    /\ fmKind = "document" /\ (fmForm.child # "none" \/ fmLoad = "options") => fmForm.whole

WorkInv == WorkTypeOK /\ ChoiceInScope /\ FormsByKind /\ DraftHoldsRecord /\ RecordBeforeOptions
             /\ DependentsSentInScope /\ FieldsSentBack /\ DefaultsNotSaved

LEMMA WorkInvInit == WorkInit => WorkInv
<1> SUFFICES ASSUME WorkInit PROVE WorkInv
  OBVIOUS
<1>1. EmptyDraft \in Drafts
  BY EmptyDraftTyped DEF WorkInit
<1>2. fmSent \in 0..MaxSaves
  BY FormBounds DEF WorkInit
<1>3. fmRec \in FieldValues
  BY DEF WorkInit, FieldValues
<1>4. WorkTypeOK
  BY <1>1, <1>2, <1>3 DEF WorkInit, WorkTypeOK
<1>5. QED
  BY <1>4 DEF WorkInit, WorkInv, EmptyDraft, ChoiceInScope, FormsByKind, DraftHoldsRecord,
     RecordBeforeOptions, DependentsSentInScope, FieldsSentBack, DefaultsNotSaved, Settings

(* Who can write and save: no form while it reads, the forms that need      *)
(* their record only with their options, or with the record itself.        *)
LEMMA OnScreenAfterReading ==
  OnScreen /\ fmKind \in FormKinds =>
    /\ fmKind \in {"credential", "task", "staff_access"} => fmForm.options
    /\ fmKind = "queue_policy" => fmForm.whole
    /\ fmKind \notin {"credential", "task", "staff_access", "queue_policy"} => ~Reading
BY FormKindsNamed DEF OnScreen, CredentialShown, TaskShown, AccessShown, PolicyShown, SettingsShown,
   DocumentShown, LeadShown, CheckShown, ProjectShown, ClientShown, ContactShown

(* What Send puts in flight is the draft, with a choice of its scope.       *)
LEMMA SentFromDraft ==
  ASSUME WorkTypeOK, NEW draft \in Drafts, Send(draft),
         draft.child \in {"none"} \union ChildrenOf(draft.scope)
  PROVE  \E new : /\ fmSaves' = fmSaves \union {new}
                  /\ new.val \in {draft.val, "omitted"} \/ new.val = fmForm.val
                  /\ new.base = draft.base /\ new.whole = draft.whole
                  /\ new.touched = draft.touched /\ new.mine = TRUE
                  /\ new.child \in {"none"} \union ChildrenOf(new.scope)
<1> DEFINE new == [val |-> SentValue, base |-> draft.base, whole |-> draft.whole,
                   touched |-> draft.touched, scope |-> draft.scope,
                   child |-> IF draft.child = fmForm.child THEN SentChild ELSE draft.child,
                   mine |-> TRUE]
<1>1. fmSaves' = fmSaves \union {new}
  BY DEF Send
<1>2. SentValue \in {"omitted", fmForm.val}
  BY DEF SentValue
<1>3. new.child \in {"none"} \union ChildrenOf(new.scope)
  BY DEF SentChild
<1>4. QED
  BY <1>1, <1>2, <1>3

LEMMA DraftStep ==
  WorkInv /\ [WorkNext]_fmVars =>
    ChoiceInScope' /\ FormsByKind' /\ DraftHoldsRecord' /\ RecordBeforeOptions'
<1> SUFFICES ASSUME WorkInv, [WorkNext]_fmVars
             PROVE  ChoiceInScope' /\ FormsByKind' /\ DraftHoldsRecord' /\ RecordBeforeOptions'
  OBVIOUS
<1>w. UNCHANGED <<fmKind, fmFld, fmNew>>
  BY SameForm
<1>f. fmForm \in Drafts /\ fmKind \in FormKinds /\ fmFld \in ThisForm.sends
  BY DEF WorkInv, WorkTypeOK
<1>e. /\ EmptyDraft.child = "none" /\ ~EmptyDraft.whole /\ ~EmptyDraft.options
      /\ ~EmptyDraft.touched
  BY DEF EmptyDraft
<1>c. \A s : ChildrenOf(s)' = ChildrenOf(s)
  BY <1>w DEF ChildrenOf, TaskListsFor, QueuesOf, LinkableTo, AccessibleQueues, SectionsOf,
     ClientsOf, ResponsibilitiesOf
<1>s. fmKind = "document" => fmKind \notin Settings
  BY DEF Settings
<1>r. ASSUME NEW draft \in Drafts, Fills(draft), ~fmNew, fmKind \notin Settings
      PROVE  /\ fmForm'.whole /\ ~fmForm'.touched /\ fmForm'.options = draft.options
             /\ \/ fmForm'.val = fmForm'.base
                \/ fmFld \in ClearedForUser /\ fmForm'.val = "blank"
             /\ fmForm'.child \in {"none"} \union ChildrenOf(fmForm'.scope)
  BY <1>r, <1>f, ChoicesTyped, SentIsTakenAndRestored DEF Fills, FilledField, Drafts
<1>b. ASSUME NEW draft \in Drafts, Starts(draft)
      PROVE  /\ fmForm'.whole = draft.whole /\ fmForm'.options = draft.options
             /\ fmForm'.child \in {"none"} \union ChildrenOf(fmForm'.scope)
  BY <1>b, ChoicesTyped DEF Starts, Drafts
<1>o. [fmForm EXCEPT !.options = TRUE] \in Drafts
  BY <1>f DEF Drafts
<1> USE <1>w, <1>f, <1>c, <1>s
    DEF WorkInv, ChoiceInScope, FormsByKind, DraftHoldsRecord, RecordBeforeOptions, Drafts
<1>1. CASE OpenForm
  BY <1>1, <1>e DEF OpenForm, FirstFetch
<1>2. CASE FormLoaded
  BY <1>2, <1>r, <1>b, <1>o DEF FormLoaded, SettingsLoaded
<1>3. CASE DocumentRead
  BY <1>3, <1>r DEF DocumentRead
<1>4. CASE DocumentOptionsRead
  BY <1>4, <1>b, <1>o DEF DocumentOptionsRead
<1>5. CASE FormLoadFails \/ Retry \/ OtherRowSaved
  BY <1>5, <1>e DEF FormLoadFails, Retry, OtherRowSaved
<1>6. CASE WriteField \/ OptionAdded
  BY <1>6 DEF WriteField, OptionAdded
<1>7. CASE ChangeScope
  BY <1>7, KeptInScope DEF ChangeScope, ScopeOffered
<1>8. CASE ChooseChild
  BY <1>8 DEF ChooseChild
<1>9. CASE SubmitForm
  BY <1>9 DEF SubmitForm, Send
<1>10. CASE ChangeActive
  BY <1>10 DEF ChangeActive, Send, ChildrenOf, ResponsibilitiesOf, ScopeValues
<1>12. CASE FormSaved
  BY <1>12, <1>e DEF FormSaved, AfterSave
<1>13. CASE FormRefused
  BY <1>13 DEF FormRefused
<1>14. CASE LeaveForm
  BY <1>14, <1>e DEF LeaveForm
<1>15. CASE UNCHANGED fmVars
  BY <1>15 DEF fmVars
<1>16. QED
  BY <1>1, <1>2, <1>3, <1>4, <1>5, <1>6, <1>7, <1>8, <1>9, <1>10, <1>12, <1>13, <1>14, <1>15
     DEF WorkNext

LEMMA RequestsStep ==
  WorkInv /\ [WorkNext]_fmVars =>
    DependentsSentInScope' /\ FieldsSentBack' /\ DefaultsNotSaved'
<1> SUFFICES ASSUME WorkInv, [WorkNext]_fmVars
             PROVE  DependentsSentInScope' /\ FieldsSentBack' /\ DefaultsNotSaved'
  OBVIOUS
<1>w. UNCHANGED <<fmKind, fmFld, fmNew>>
  BY SameForm
<1>f. fmForm \in Drafts /\ fmKind \in FormKinds /\ fmSaves \subseteq Saves
  BY DEF WorkInv, WorkTypeOK
<1>c. \A s : ChildrenOf(s)' = ChildrenOf(s)
  BY <1>w DEF ChildrenOf, TaskListsFor, QueuesOf, LinkableTo, AccessibleQueues, SectionsOf,
     ClientsOf, ResponsibilitiesOf
<1> USE <1>w, <1>f, <1>c
    DEF WorkInv, DependentsSentInScope, FieldsSentBack, DefaultsNotSaved, ClearedForUser
<1>1. CASE fmSaves' \subseteq fmSaves
  BY <1>1
<1>2. CASE LeaveForm
  BY <1>2 DEF LeaveForm, Saves
<1>3. CASE SubmitForm
  <2>1. PICK new : /\ fmSaves' = fmSaves \union {new}
                   /\ new.val \in {fmForm.val, "omitted"}
                   /\ new.base = fmForm.base /\ new.whole = fmForm.whole
                   /\ new.touched = fmForm.touched
                   /\ new.child \in {"none"} \union ChildrenOf(new.scope)
    BY <1>3, SentFromDraft DEF SubmitForm, ChoiceInScope
  <2>2. fmKind \in {"credential", "document", "task", "staff_access", "queue_policy"} /\ ~fmNew
          => fmForm.whole
    BY <1>3, OnScreenAfterReading DEF SubmitForm, Complete, DocumentComplete, RecordBeforeOptions
  <2>3. QED
    BY <2>1, <2>2 DEF DraftHoldsRecord
<1>4. CASE ChangeActive
  <2>1. PICK s \in ScopeValues :
          Send([fmForm EXCEPT !.scope = s, !.child = IF s = "q" THEN "none" ELSE fmForm.child])
    BY <1>4 DEF ChangeActive
  <2> DEFINE draft == [fmForm EXCEPT !.scope = s,
                         !.child = IF s = "q" THEN "none" ELSE fmForm.child]
  <2>2. /\ draft \in Drafts /\ draft.val = fmForm.val /\ draft.base = fmForm.base
        /\ draft.whole = fmForm.whole /\ draft.touched = fmForm.touched
    BY DEF Drafts, ChildValues
  <2>3. draft.child \in {"none"} \union ChildrenOf(draft.scope)
    BY <1>4 DEF ChangeActive, ChoiceInScope, ChildrenOf, ResponsibilitiesOf, ScopeValues, Drafts
  <2> HIDE DEF draft
  <2>4. Send(draft)
    BY <2>1 DEF draft
  <2>5. PICK new : /\ fmSaves' = fmSaves \union {new}
                   /\ new.val \in {fmForm.val, "omitted"}
                   /\ new.base = fmForm.base /\ new.whole = fmForm.whole
                   /\ new.touched = fmForm.touched
                   /\ new.child \in {"none"} \union ChildrenOf(new.scope)
    BY <2>2, <2>3, <2>4, SentFromDraft
  <2>6. fmKind = "contact"
    BY <1>4 DEF ChangeActive
  <2>7. QED
    BY <2>5, <2>6 DEF DraftHoldsRecord
<1>5. QED
  BY <1>1, <1>2, <1>3, <1>4 DEF WorkNext, OpenForm, FormLoaded, DocumentRead, DocumentOptionsRead,
     FormLoadFails, Retry, WriteField, ChangeScope, ChooseChild, OptionAdded, FormSaved,
     FormRefused, OtherRowSaved, fmVars

LEMMA WorkInvStep == WorkInv /\ [WorkNext]_fmVars => WorkInv'
BY WorkTypesStep, DraftStep, RequestsStep DEF WorkInv

LEMMA WorkInvariant == WorkSpec => []WorkInv
BY WorkInvInit, WorkInvStep, PTL DEF WorkSpec

(* What the user wrote is "typed", in a form that has done reading; and a   *)
(* settings form that waits for its own save shows no error and reads       *)
(* nothing, so only that save can clear it.                                *)
LoadsOnce == fmKind \notin Settings \union {"queue_policy", "check"}
TouchedIsTyped ==
  /\ fmForm.touched => fmForm.val = "typed"
  /\ LoadsOnce /\ fmForm.touched => ~Reading
  /\ fmKind \in {"credential", "task", "staff_access"} =>
       /\ fmForm.touched => fmForm.options
       /\ fmForm.options => ~Reading
  /\ fmKind = "document" /\ fmFld \in DocumentLinks /\ fmForm.touched => fmForm.options

SettingsWaitForTheirSave ==
  fmKind \in Settings =>
    /\ \A save \in fmSaves : save.mine => fmForm.saving /\ ~fmForm.error /\ ~Reading /\ fmOpen
    /\ \A save, other \in fmSaves : save.mine /\ other.mine => save = other

(* What a save in flight carries of a field the user wrote.                 *)
WrittenIsSent == \A save \in fmSaves : save.touched => save.val = "typed"

WrittenInv == WorkInv /\ TouchedIsTyped /\ SettingsWaitForTheirSave /\ WrittenIsSent

LEMMA WrittenInvInit == WorkInit => WrittenInv
<1> SUFFICES ASSUME WorkInit PROVE WrittenInv
  OBVIOUS
<1>1. WorkInv
  BY WorkInvInit
<1>2. QED
  BY <1>1 DEF WorkInit, WrittenInv, EmptyDraft, TouchedIsTyped, SettingsWaitForTheirSave,
     WrittenIsSent

LEMMA TouchedIsTypedStep == WrittenInv /\ [WorkNext]_fmVars => TouchedIsTyped'
<1> SUFFICES ASSUME WrittenInv, [WorkNext]_fmVars PROVE TouchedIsTyped'
  OBVIOUS
<1>w. UNCHANGED <<fmKind, fmFld, fmNew>>
  BY SameForm
<1>f. fmForm \in Drafts /\ fmKind \in FormKinds
  BY DEF WrittenInv, WorkInv, WorkTypeOK
<1>e. ~EmptyDraft.options /\ ~EmptyDraft.touched
  BY DEF EmptyDraft
<1>k. fmKind \in {"credential", "task", "staff_access"} => LoadsOnce
  BY DEF LoadsOnce, Settings
<1>l. LoadsOnce' = LoadsOnce /\ (Reading' <=> fmLoad' \in {"all", "record", "options"})
  BY <1>w DEF LoadsOnce, Reading
<1>o. \A draft \in Drafts :
         /\ Fills(draft) => ~fmForm'.touched
         /\ Starts(draft) => /\ fmForm'.touched = draft.touched /\ fmForm'.val = draft.val
                             /\ fmForm'.options = draft.options
  BY DEF Fills, Starts, Drafts
<1>p. LET draft == [fmForm EXCEPT !.options = TRUE]
      IN  /\ draft \in Drafts /\ draft.touched = fmForm.touched /\ draft.val = fmForm.val
          /\ draft.options
  BY <1>f DEF Drafts
<1> USE <1>w, <1>f, <1>k, <1>l DEF WrittenInv, TouchedIsTyped, Reading, Drafts
<1>1. CASE OpenForm \/ LeaveForm
  BY <1>1, <1>e DEF OpenForm, LeaveForm
<1>2. CASE FormLoaded
  BY <1>2, <1>o, <1>p DEF FormLoaded, SettingsLoaded
<1>3. CASE DocumentRead
  BY <1>3, <1>o DEF DocumentRead, WorkInv, FormsByKind
<1>4. CASE DocumentOptionsRead
  BY <1>4, <1>o, <1>p DEF DocumentOptionsRead
<1>5. CASE FormLoadFails
  BY <1>5, <1>e DEF FormLoadFails
<1>5a. CASE Retry \/ OtherRowSaved
  BY <1>5a DEF Retry, OtherRowSaved, LoadsOnce, Settings
<1>6. CASE WriteField \/ OptionAdded
  BY <1>6, OnScreenAfterReading DEF WriteField, OptionAdded, FormEditable, LoadsOnce
<1>7. CASE ChangeScope \/ ChooseChild
  BY <1>7 DEF ChangeScope, ChooseChild
<1>9. CASE SubmitForm
  BY <1>9 DEF SubmitForm, Send
<1>10. CASE ChangeActive
  BY <1>10 DEF ChangeActive, Send
<1>12. CASE FormSaved
  BY <1>12, <1>e DEF FormSaved, AfterSave, LoadsOnce
<1>13. CASE FormRefused
  BY <1>13 DEF FormRefused
<1>15. CASE UNCHANGED fmVars
  BY <1>15 DEF fmVars
<1>16. QED
  BY <1>1, <1>2, <1>3, <1>4, <1>5, <1>5a, <1>6, <1>7, <1>9, <1>10, <1>12, <1>13, <1>15 DEF WorkNext

LEMMA SettingsWaitStep == WrittenInv /\ [WorkNext]_fmVars => SettingsWaitForTheirSave'
<1> SUFFICES ASSUME WrittenInv, [WorkNext]_fmVars, fmKind \in Settings
             PROVE  SettingsWaitForTheirSave'
  BY SameForm DEF SettingsWaitForTheirSave
<1>w. UNCHANGED <<fmKind, fmFld, fmNew>> /\ fmNew
  BY SameForm DEF WrittenInv, WorkInv, FormsByKind
<1>f. fmForm \in Drafts /\ fmKind \in FormKinds /\ fmSaves \subseteq Saves
  BY DEF WrittenInv, WorkInv, WorkTypeOK
<1>l. Reading' <=> fmLoad' \in {"all", "record", "options"}
  BY DEF Reading
<1>k. fmKind \notin {"queue_policy", "contact", "credential", "task", "staff_access"}
  BY DEF Settings
<1> USE <1>w, <1>f, <1>l, <1>k DEF WrittenInv, SettingsWaitForTheirSave, Reading, Drafts
<1>1. CASE OpenForm
  BY <1>1 DEF OpenForm
<1>2. CASE FormLoaded \/ DocumentRead \/ DocumentOptionsRead \/ FormLoadFails \/ Retry
             \/ OtherRowSaved
  <2>1. fmSaves' = fmSaves /\ \A save \in fmSaves : ~save.mine
    BY <1>2 DEF FormLoaded, DocumentRead, DocumentOptionsRead, FormLoadFails, Retry, OtherRowSaved
  <2>2. QED
    BY <2>1
<1>3. CASE WriteField \/ OptionAdded \/ ChangeScope \/ ChooseChild
  <2>1. fmForm'.saving = fmForm.saving /\ fmForm'.error = fmForm.error
    BY <1>3 DEF WriteField, OptionAdded, ChangeScope, ChooseChild
  <2>2. UNCHANGED <<fmOpen, fmLoad, fmSaves>>
    BY <1>3 DEF WriteField, OptionAdded, ChangeScope, ChooseChild
  <2>3. QED
    BY <2>1, <2>2
<1>4. CASE SubmitForm
  <2>1. ~Reading /\ fmOpen
    BY <1>4, OnScreenAfterReading DEF SubmitForm, OnScreen
  <2>2. /\ \A save \in fmSaves : ~save.mine
        /\ fmForm'.saving /\ ~fmForm'.error /\ UNCHANGED <<fmOpen, fmLoad>>
    BY <1>4 DEF SubmitForm, Send
  <2>3. \E new : fmSaves' = fmSaves \union {new}
    BY <1>4 DEF SubmitForm, Send
  <2>4. QED
    BY <2>1, <2>2, <2>3
<1>5. ~ChangeActive
  BY DEF ChangeActive
<1>6. CASE FormSaved
  BY <1>6 DEF FormSaved, AfterSave, Stays
<1>7. CASE FormRefused
  BY <1>7 DEF FormRefused
<1>8. CASE LeaveForm
  BY <1>8 DEF LeaveForm, Saves
<1>9. CASE UNCHANGED fmVars
  BY <1>9 DEF fmVars
<1>10. QED
  BY <1>1, <1>2, <1>3, <1>4, <1>5, <1>6, <1>7, <1>8, <1>9 DEF WorkNext

LEMMA WrittenIsSentStep == WrittenInv /\ [WorkNext]_fmVars => WrittenIsSent'
<1> SUFFICES ASSUME WrittenInv, [WorkNext]_fmVars PROVE WrittenIsSent'
  OBVIOUS
<1> USE DEF WrittenInv, WrittenIsSent
<1>s. ASSUME NEW draft, Send(draft), draft.touched = fmForm.touched PROVE WrittenIsSent'
  <2>1. \A save \in fmSaves' :
          save \in fmSaves \/ (save.touched = draft.touched /\ save.val = SentValue)
    BY <1>s DEF Send
  <2>2. fmForm.touched => SentValue = "typed"
    BY DEF SentValue, TouchedIsTyped
  <2>3. QED
    BY <1>s, <2>1, <2>2
<1>1. CASE SubmitForm
  BY <1>1, <1>s DEF SubmitForm
<1>2. CASE ChangeActive
  <2>1. PICK s \in ScopeValues :
          Send([fmForm EXCEPT !.scope = s, !.child = IF s = "q" THEN "none" ELSE fmForm.child])
    BY <1>2 DEF ChangeActive
  <2>2. QED
    BY <2>1, <1>s DEF WorkInv, WorkTypeOK, Drafts
<1>3. CASE FormSaved \/ FormRefused
  BY <1>3 DEF FormSaved, FormRefused
<1>4. CASE LeaveForm
  BY <1>4 DEF LeaveForm, WorkInv, WorkTypeOK, Saves
<1>5. CASE UNCHANGED fmSaves
  BY <1>5
<1>6. QED
  BY <1>1, <1>2, <1>3, <1>4, <1>5 DEF WorkNext, OpenForm, FormLoaded, DocumentRead,
     DocumentOptionsRead, FormLoadFails, Retry, WriteField, ChangeScope, ChooseChild,
     OptionAdded, OtherRowSaved, fmVars

LEMMA WrittenInvariant == WorkSpec => []WrittenInv
<1>1. WrittenInv /\ [WorkNext]_fmVars => WrittenInv'
  BY WorkInvStep, TouchedIsTypedStep, SettingsWaitStep, WrittenIsSentStep DEF WrittenInv
<1>2. QED
  BY <1>1, WrittenInvInit, PTL DEF WorkSpec

(* Reloads, other saves and refusals leave what the user wrote.            *)
LEMMA DraftStaysOpen == WorkSpec => DraftStays
<1>1. WrittenInv /\ [WorkNext]_fmVars =>
        (fmOpen /\ fmOpen' /\ fmForm.touched
           /\ fmKind # "queue_policy" /\ (fmKind = "check" => fmNew)
           /\ (fmKind \in Settings => fmSaves' = fmSaves \/ fmForm'.error)
           => fmForm'.touched /\ fmForm'.val = "typed")
  <2> SUFFICES ASSUME WrittenInv, [WorkNext]_fmVars, fmOpen, fmOpen', fmForm.touched,
                      fmKind # "queue_policy", fmKind = "check" => fmNew,
                      fmKind \in Settings => fmSaves' = fmSaves \/ fmForm'.error
               PROVE  fmForm'.touched /\ fmForm'.val = "typed"
    OBVIOUS
  <2>f. fmForm \in Drafts /\ fmForm.val = "typed"
    BY DEF WrittenInv, WorkInv, WorkTypeOK, TouchedIsTyped
  <2> USE <2>f DEF Drafts
  <2>1. ~OpenForm /\ ~LeaveForm
    BY DEF OpenForm, LeaveForm
  <2>2. CASE FormLoaded
    <3>1. fmKind \in Settings \/ fmNew
      BY <2>2 DEF FormLoaded, WrittenInv, TouchedIsTyped, LoadsOnce, Reading
    <3>2. CASE fmKind \in Settings
      <4>1. fmNew /\ fmKind # "check"
        BY <3>2 DEF WrittenInv, WorkInv, FormsByKind, Settings
      <4>2. SettingsLoaded
        BY <2>2, <3>2, <4>1 DEF FormLoaded
      <4>3. QED
        BY <4>2 DEF SettingsLoaded
    <3>2a. CASE fmKind = "check" /\ fmKind \notin Settings
      <4>1. fmForm' = [fmForm EXCEPT !.options = TRUE]
        BY <2>2, <3>2a DEF FormLoaded
      <4>2. QED
        BY <4>1
    <3>3. CASE fmNew /\ fmKind \notin Settings \union {"check"}
      <4>1. Starts([fmForm EXCEPT !.options = TRUE])
        BY <2>2, <3>3 DEF FormLoaded
      <4>2. QED
        BY <4>1 DEF Starts
    <3>4. QED
      BY <3>1, <3>2, <3>2a, <3>3
  <2>3. ~DocumentRead
    BY DEF DocumentRead, WrittenInv, TouchedIsTyped, WorkInv, FormsByKind, LoadsOnce, Reading,
       Settings
  <2>4. CASE DocumentOptionsRead
    BY <2>4 DEF DocumentOptionsRead, Starts
  <2>5. CASE FormLoadFails \/ Retry \/ OtherRowSaved
    BY <2>5 DEF FormLoadFails, Retry, OtherRowSaved
  <2>6. CASE WriteField \/ OptionAdded \/ ChangeScope \/ ChooseChild
    BY <2>6 DEF WriteField, OptionAdded, ChangeScope, ChooseChild
  <2>7. CASE SubmitForm \/ ChangeActive
    BY <2>7 DEF SubmitForm, ChangeActive, Send
  <2>8. CASE FormSaved
    <3>1. PICK save \in fmSaves :
            /\ fmSaves' = fmSaves \ {save}
            /\ IF save.mine \/ ~Stays THEN AfterSave ELSE UNCHANGED <<fmOpen, fmLoad, fmForm>>
      BY <2>8 DEF FormSaved
    <3>2. CASE ~(save.mine \/ ~Stays)
      BY <3>1, <3>2
    <3>3. CASE fmKind \in Settings /\ save.mine
      <4>1. fmForm'.error /\ ~fmForm.error
        BY <3>1, <3>3 DEF WrittenInv, SettingsWaitForTheirSave
      <4>2. fmForm'.error = fmForm.error
        BY <3>1, <3>3 DEF AfterSave
      <4>3. QED
        BY <4>1, <4>2
    <3>4. CASE fmKind \notin Settings /\ (save.mine \/ ~Stays)
      BY <3>1, <3>4 DEF AfterSave
    <3>5. QED
      BY <3>2, <3>3, <3>4 DEF Stays
  <2>9. CASE FormRefused
    BY <2>9 DEF FormRefused
  <2>10. CASE UNCHANGED fmVars
    BY <2>10 DEF fmVars
  <2>11. QED
    BY <2>1, <2>2, <2>3, <2>4, <2>5, <2>6, <2>7, <2>8, <2>9, <2>10 DEF WorkNext
<1>2. QED
  BY <1>1, WrittenInvariant, PTL DEF WorkSpec, DraftStays

(* An answered save leaves in the record what the user wrote: the form sent *)
(* it, and the update takes every field the form sends.                    *)
LEMMA WrittenReaches == WorkSpec => WrittenReachesRecord
<1>1. WrittenInv /\ [WorkNext]_fmVars =>
        (FormSaved /\ ~fmNew /\ fmFld # "change_summary"
           => \E save \in fmSaves : save \notin fmSaves' /\ (save.touched => fmRec' = "typed"))
  <2> SUFFICES ASSUME WrittenInv, FormSaved, ~fmNew, fmFld # "change_summary"
               PROVE  \E save \in fmSaves :
                        save \notin fmSaves' /\ (save.touched => fmRec' = "typed")
    OBVIOUS
  <2>1. fmFld \in TakenBy[fmKind]
    BY SentIsTakenAndRestored DEF WrittenInv, WorkInv, WorkTypeOK, FormsByKind
  <2>2. PICK save \in fmSaves : fmSaves' = fmSaves \ {save} /\ fmRec' \in FormStored(save)
    BY DEF FormSaved
  <2>3. save.touched => FormStored(save) = {"typed"}
    BY <2>1 DEF FormStored, WrittenInv, WrittenIsSent
  <2>4. QED
    BY <2>2, <2>3
<1>2. QED
  BY <1>1, WrittenInvariant, PTL DEF WorkSpec, WrittenReachesRecord

-----------------------------------------------------------------------------
(* The console.  It steps one page at a time, and no page without its       *)
(* component, so each component of it runs as specified.                   *)

LEMMA ConsoleFollowsEach ==
  ConsoleSpec => EditSpec /\ CreateSpec /\ NestedSpec /\ ContentSpec /\ WorkSpec
<1>1. ConsoleInit => EditInit /\ CreateInit /\ NestedInit /\ ContentInit /\ WorkInit
  BY DEF ConsoleInit
<1>2. [ConsoleNext]_consoleVars =>
        /\ [EditNext]_edVars /\ [CreateNext]_crVars /\ [NestedNext]_nrVars
        /\ [ContentNext]_coVars /\ [WorkNext]_fmVars
  BY DEF ConsoleNext, Still, consoleVars
<1>3. QED
  BY <1>1, <1>2, PTL DEF ConsoleSpec, EditSpec, CreateSpec, NestedSpec, ContentSpec, WorkSpec

(* On every page of the console, with any number of rows, items and clients *)
(* and of requests in flight: every field, row, request and answer has its  *)
(* type.                                                                   *)
THEOREM ConsoleTyped == ConsoleSpec => []ConsoleTypeOK
<1>1. /\ EditInv => EditTypeOK
      /\ CreateInv /\ ClientsStayApart => CreateTypeOK
      /\ NestedInv => NestedTypeOK
      /\ ContentInv => ContentTypeOK
      /\ WorkInv => WorkTypeOK
  BY DEF EditInv, CreateInv, NestedInv, ContentInv, WorkInv
<1>2. QED
  BY <1>1, ConsoleFollowsEach, EditInvariant, CreateInvariant, NestedInvariant, ContentInvariant,
     WorkInvariant, PTL DEF ConsoleTypeOK

(* What the user did not write goes back to the server as it was read from  *)
(* the same record, on every page that sends whole records, but for the two *)
(* losses that KnownLoss names: each type's lists of fields agree, and no   *)
(* order of edits, cancellations, saves, answers and reloads pairs a form   *)
(* with another record.                                                     *)
THEOREM UntouchedGoesBack == ConsoleSpec => []UntouchedSentBack
<1>1. /\ EditInv => SentBackAsRead
      /\ NestedInv => RowsNeverMixed
      /\ ContentInv => ContentSentBack
      /\ WorkInv => FieldsSentBack
  BY DEF EditInv, NestedInv, ContentInv, WorkInv
<1>2. QED
  BY <1>1, ConsoleFollowsEach, EditInvariant, NestedInvariant, ContentInvariant, WorkInvariant,
     PTL DEF UntouchedSentBack

(* However its loads fail, a form that may not be shown without its record  *)
(* never replaces the record by the form's defaults.                       *)
THEOREM RecordsAreNotBlanked == ConsoleSpec => []RecordsNotBlanked
<1>1. (EditInv => ComputeSavesWhatItRead) /\ (WorkInv => DefaultsNotSaved)
  BY DEF EditInv, WorkInv
<1>2. QED
  BY <1>1, ConsoleFollowsEach, EditInvariant, WorkInvariant, PTL DEF RecordsNotBlanked

(* No choice is sent, or stored, for another owner than the one it was      *)
(* offered for, and no two clients' resources refer to each other.         *)
THEOREM ReferencesStay == ConsoleSpec => []ReferencesStayWithOwner
<1>1. /\ CreateInv /\ ClientsStayApart => HiddenReferenceNeverSent /\ ClientsStayApart
      /\ WorkInv => DependentsSentInScope
  BY DEF CreateInv, WorkInv
<1>2. QED
  BY <1>1, ConsoleFollowsEach, CreateInvariant, WorkInvariant, PTL DEF ReferencesStayWithOwner

(* A content page that waits for no answer lists what the server keeps, its *)
(* image editor shows its own item's image, and an accepted edit is in the  *)
(* item as it was sent, in every field of every kind.                      *)
THEOREM PagesShowServer == ConsoleSpec => []PageShowsServer
<1>1. ContentInv => ImageIsItsOwn
  BY DEF ContentInv, EditHoldsItsItem
<1>2. QED
  BY <1>1, ConsoleFollowsEach, ContentInvariant, PTL DEF PageShowsServer

(* What the user wrote outlives the loads, live events and answers that     *)
(* arrive while the form is open, and reaches the record of a resource, or  *)
(* of a work form, when its save is answered; a content item is created of  *)
(* what its form sent.                                                     *)
THEOREM DraftsAreKept == ConsoleSpec => DraftsSurvive
BY ConsoleFollowsEach, DraftStaysInForm, SavesReach, DraftOutlives, SavedRows, DraftStaysOpen,
   WrittenReaches, DraftBecomes
   DEF DraftsSurvive
=============================================================================
