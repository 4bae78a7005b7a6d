---------------------------- MODULE ClusterManager ----------------------------
(***************************************************************************)
(* One Cluster custom resource, the resource manager that reconciles it    *)
(* (pkg/resource/cluster) and the ECS cluster it stands for.               *)
(*                                                                         *)
(* An update is up to four calls: TagResource, UntagResource,              *)
(* PutClusterCapacityProviders and UpdateCluster, each for a part of the   *)
(* spec, and only the last one has a response that is merged.  Each call   *)
(* is one step, so that edits, drift, failures and a crash fall between    *)
(* them.  As in ServiceManager the order of the operations of a reconcile, *)
(* the finalizer and the patches belong to the ACK runtime.                *)
(***************************************************************************)
EXTENDS Naturals, FiniteSets, ResourceTags

CONSTANTS
    Settings,     \* values of Spec.Settings; 0 is what ECS sets by itself
    Providers,    \* names of capacity providers
    ByRef,        \* whether the CR names them by capacityProviderRefs
    Bare,         \* a default strategy whose items leave Base or Weight unset
    Huge,         \* one with a Base or Weight that does not fit in 32 bits
    Nil,          \* a field that is not set
    RepliesWithoutTags,  \* whether the reply of UpdateCluster may leave out the tags
    Unmanages,    \* whether the runtime drops the finalizer when Create failed
    MaxEvents     \* how many things users, others, faults and references do

ASSUME ConstantsAssumption ==
    /\ 0 \in Settings /\ Nil \notin Settings
    /\ Cardinality({0, Bare, Huge, Nil}) = 4
    /\ {ByRef, RepliesWithoutTags, Unmanages} \subseteq BOOLEAN
    /\ MaxEvents \in Nat

\* A strategy 0 has every item complete and in range.
Strategies == {0, Bare, Huge, Nil}

\* The fields of the CR the manager works on, by their Go names: the whole list
\* of capacity providers, the strategy, the settings (Configuration and
\* ServiceConnectDefaults go the same way), the tags, and whether the status has
\* the ARN.
Resources == [CapacityProviders : SUBSET Providers,
              DefaultCapacityProviderStrategy : Strategies,
              Settings : Settings \cup {Nil},
              Tags : TagLists,
              ARN : BOOLEAN]

EmptyResource == [CapacityProviders |-> {},
                  DefaultCapacityProviderStrategy |-> Nil,
                  Settings |-> Nil, Tags |-> NoTags, ARN |-> FALSE]

SpecFields == {"CapacityProviders", "DefaultCapacityProviderStrategy",
               "Settings", "Tags"}

ClusterStatuses == {"MISSING", "PROVISIONING", "ACTIVE", "DEPROVISIONING",
                    "INACTIVE"}
Events == {"lives", "edits", "drifts", "faults", "refs"}

VARIABLES
    crState,     \* the Kubernetes object: absent, live or deleting
    finalizer,   \* whether it carries the ACK finalizer
    ko,          \* its spec and status
    outcome,     \* how its last reconcile ended
    queued,      \* whether it is in the work queue
    pc,          \* the next call of the running reconcile
    mode,        \* sync or delete, as the object was when it was read
    desired,     \* the resource it read
    latest,      \* the resource the last operation returned
    status,      \* ECS: the status of the cluster
    ecs,         \* ECS: its settings
    occupied,    \* ECS: whether services run in it
    refReady,    \* the capacity providers that are there, with synced CRs
    events       \* what the environment has done so far, by kind

crVars == <<crState, finalizer, ko>>
statusVars == <<outcome, queued>>
workVars == <<pc, mode, desired, latest>>
ecsVars == <<status, ecs, occupied>>
vars == <<crVars, statusVars, workVars, ecsVars, refReady, events>>

UpdateCalls == {"tag", "untag", "put", "update"}
PCs == {"idle", "find", "manage", "create", "patch", "delete", "release"}
         \cup UpdateCalls

TypeOK ==
    /\ crState \in {"absent", "live", "deleting"}
    /\ finalizer \in BOOLEAN
    /\ ko \in Resources
    /\ outcome \in {"none", "success", "error", "terminal"}
    /\ queued \in BOOLEAN
    /\ pc \in PCs
    /\ mode \in {"sync", "delete"}
    /\ desired \in Resources
    /\ latest \in Resources
    /\ status \in ClusterStatuses
    /\ ecs \in Resources
    /\ occupied \in BOOLEAN
    /\ refReady \subseteq Providers
    /\ events \in [Events -> Nat]

Init ==
    /\ crState = "absent" /\ finalizer = FALSE /\ ko = EmptyResource
    /\ outcome = "none" /\ queued = FALSE
    /\ pc = "idle" /\ mode = "sync"
    /\ desired = EmptyResource /\ latest = EmptyResource
    /\ status = "MISSING" /\ ecs = EmptyResource /\ occupied = FALSE
    /\ refReady = Providers
    /\ events = [k \in Events |-> 0]

Happens(k) ==
    /\ events.lives + events.edits + events.drifts + events.faults + events.refs
         < MaxEvents
    /\ events' = [events EXCEPT ![k] = @ + 1]

Exists == status \in {"PROVISIONING", "ACTIVE"}

-----------------------------------------------------------------------------
(* The operations of sdk.go, delta.go and references.go on resources.      *)

newResourceDelta(a, b) == {f \in SpecFields : a[f] # b[f]}

\* The strategy as ECS keeps and reports it: an item without Base or Weight has
\* a 0 there, and what int32() leaves of one that does not fit is another number.
Stored(strategy) == IF strategy \in {Bare, Huge} THEN 0 ELSE strategy

\* newCreateRequestPayload checks Base and Weight before it converts them.
CreatePayloadError(r) == r.DefaultCapacityProviderStrategy = Huge

\* sdkFind's, sdkCreate's and sdkUpdate's merge of a cluster into a copy of the
\* resource: every field of the spec is overwritten.
Merge(reply) == [reply EXCEPT !.ARN = TRUE]

\* CreateCluster as ECS runs it.
EcsCreate(req) ==
    [req EXCEPT !.Settings = IF @ = Nil THEN 0 ELSE @,
                !.DefaultCapacityProviderStrategy = Stored(@)]

\* Whether ECS may answer with InvalidParameterException, for a name of a capacity
\* provider that has gone since it was resolved, or for a number that int32() cut
\* to one that is out of ECS's range: 2147483648 becomes negative, 4294967296 a 0.
MayBeInvalid(req) ==
    \/ ~(req.CapacityProviders \subseteq refReady)
    \/ req.DefaultCapacityProviderStrategy = Huge

\* Mutant: a strategy that is not set is left out.
EcsPutWithoutNil(c, req) ==
    [c EXCEPT !.CapacityProviders = req.CapacityProviders,
              !.DefaultCapacityProviderStrategy =
                    IF req.DefaultCapacityProviderStrategy = Nil THEN @
                    ELSE Stored(req.DefaultCapacityProviderStrategy)]

\* PutClusterCapacityProviders: both lists are always sent, a nil one as empty, and
\* numbers are cut without a check.
EcsPut(c, req) ==
    [c EXCEPT !.CapacityProviders = req.CapacityProviders,
              !.DefaultCapacityProviderStrategy =
                    Stored(req.DefaultCapacityProviderStrategy)]

\* Mutant: the settings are left out of the payload.
EcsUpdateWithoutSettings(c, req) == c

\* UpdateCluster: settings that are not set are left out, and stay as they were.
EcsUpdate(c, req) ==
    [c EXCEPT !.Settings = IF req.Settings = Nil THEN @ ELSE req.Settings]

EcsReply(c) ==
    {c} \cup (IF RepliesWithoutTags THEN {[c EXCEPT !.Tags = NoTags]} ELSE {})

\* Mutant: names are appended without an error for those that are not ready.
ResolveIgnoringState(r) ==
    [resource |-> [r EXCEPT !.CapacityProviders = @ \cap refReady], error |-> "nil"]

\* ResolveReferences appends the names of the referenced CapacityProviders one by
\* one and stops with an error at the first that is missing, terminal or not
\* synced: the resource it returns has a part of the list.
ResolveReferences(r) ==
    IF ByRef /\ ~(r.CapacityProviders \subseteq refReady)
    THEN [resource |-> [r EXCEPT !.CapacityProviders = @ \cap refReady],
          error |-> "NotResolved"]
    ELSE [resource |-> r, error |-> "nil"]

\* Mutant: a change of the strategy alone makes no call.
CallsWithoutStrategy(d, l) ==
    LET delta == newResourceDelta(d, l)
    IN  {c \in UpdateCalls :
           \/ c = "tag" /\ toAdd(d.Tags, l.Tags) # {}
           \/ c = "untag" /\ toDelete(d.Tags, l.Tags) # {}
           \/ c = "put" /\ "CapacityProviders" \in delta
           \/ c = "update" /\ "Settings" \in delta}

\* The calls sdkUpdate makes for what d and l differ in.
CallsOfUpdate(d, l) ==
    LET delta == newResourceDelta(d, l)
    IN  {c \in UpdateCalls :
           \/ c = "tag" /\ toAdd(d.Tags, l.Tags) # {}
           \/ c = "untag" /\ toDelete(d.Tags, l.Tags) # {}
           \/ /\ c = "put"
              /\ delta \cap {"CapacityProviders",
                            "DefaultCapacityProviderStrategy"} # {}
           \/ c = "update" /\ "Settings" \in delta}

\* The cluster after a call of an update, and whether ECS takes the call.
EcsAfter(call) ==
    CASE call = "tag" ->
           [ecs EXCEPT !.Tags = Tagged(@, desired.Tags, toAdd(desired.Tags, latest.Tags))]
      [] call = "untag" ->
           [ecs EXCEPT !.Tags = Untagged(@, toDelete(desired.Tags, latest.Tags))]
      [] call = "put" -> EcsPut(ecs, desired)
      [] call = "update" -> EcsUpdate(ecs, desired)

EcsTakes(call) == IF call = "put" THEN status = "ACTIVE" ELSE Exists

\* A change of the capacity providers takes ECS a while.
EcsDoes(call) ==
    /\ EcsTakes(call)
    /\ ecs' = EcsAfter(call)
    /\ status' = IF ecs'.CapacityProviders # ecs.CapacityProviders
                 THEN "PROVISIONING" ELSE status

\* The order sdkUpdate makes them in.
CallOrder == [find |-> 0, tag |-> 1, untag |-> 2, put |-> 3, update |-> 4]

NextCalls(d, l, done) ==
    {c \in CallsOfUpdate(d, l) : CallOrder[c] > CallOrder[done]}

FirstOf(calls) == CHOOSE c \in calls : \A e \in calls : CallOrder[c] <= CallOrder[e]

-----------------------------------------------------------------------------
(* How a reconcile goes on and ends.                                       *)

\* A resource is patched without its system tags, and without the names that
\* ClearResolvedReferences takes out again.
Patched(r, f) ==
    CASE f = "Tags" -> FilterSystemTags(r.Tags)
      [] f = "CapacityProviders" /\ ByRef -> {}
      [] OTHER -> r[f]

\* What the object becomes when r is written back to it: the fields of the spec
\* that r and desired differ in, if the spec is patched at all, and the ARN.
WrittenBack(r, fields) ==
    [f \in DOMAIN ko |->
        CASE f = "ARN" /\ r.ARN -> TRUE
          [] f \in fields /\ Patched(r, f) # Patched(desired, f) -> Patched(r, f)
          [] OTHER -> ko[f]]

\* Mutant: the error is kept instead of what it means.
OutcomeIsError(err) == IF err = "nil" THEN "success" ELSE err

\* Terminal are the runtime's error for a cluster it does not manage and the
\* exception that terminalAWSError lists.
OutcomeOf(err) ==
    CASE err = "nil" -> "success"
      [] err \in {"Terminal", "InvalidParameter"} -> "terminal"
      [] OTHER -> "error"

\* The reconcile ends with err, and the object as it is then is ko'.
End(err) ==
    /\ pc' = "idle" /\ mode' = "sync"
    /\ desired' = EmptyResource /\ latest' = EmptyResource
    /\ IF crState' = "absent"
       THEN outcome' = "none" /\ queued' = FALSE
       ELSE /\ outcome' = OutcomeOf(err)
            /\ queued' = \/ queued
                         \/ OutcomeOf(err) = "error"
                         \/ \E f \in SpecFields : ko'[f] # ko[f]

\* An operation returned r with err; the object stays and its status is patched.
Finish(err, r) ==
    /\ UNCHANGED <<crState, finalizer>>
    /\ ko' = IF crState = "absent" THEN ko ELSE WrittenBack(r, {})
    /\ End(err)

Continue(label) ==
    /\ pc' = label
    /\ UNCHANGED <<crVars, mode, desired, statusVars>>

RemoveFinalizer ==
    /\ finalizer' = FALSE
    /\ IF crState = "deleting"
       THEN crState' = "absent" /\ ko' = EmptyResource
       ELSE UNCHANGED <<crState, ko>>

\* sdkCreate returned no resource: the runtime may take its finalizer off again.
CreateEnds(err) ==
    IF Unmanages THEN RemoveFinalizer /\ End(err) ELSE Finish(err, desired)

\* sdkUpdate goes on after the call done, or returns desired as it was.
ContinueUpdate(done) ==
    IF NextCalls(desired, latest, done) # {}
    THEN Continue(FirstOf(NextCalls(desired, latest, done))) /\ UNCHANGED latest
    ELSE Continue("patch") /\ latest' = desired

-----------------------------------------------------------------------------
(* The reconcile, one action per API call.                                 *)

\* The object is read, its references are resolved and the default tags added.  A
\* reference that does not resolve ends a sync; a deletion goes on without it.
Begin ==
    /\ pc = "idle" /\ queued /\ crState # "absent"
    /\ IF crState = "live" /\ ResolveReferences(ko).error # "nil"
       THEN outcome' = "error" /\ UNCHANGED <<queued, workVars>>
       ELSE /\ pc' = "find"
            /\ mode' = IF crState = "live" THEN "sync" ELSE "delete"
            /\ desired' = [ResolveReferences(ko).resource EXCEPT
                              !.Tags = EnsureTags(@)]
            /\ queued' = FALSE
            /\ UNCHANGED <<outcome, latest>>
    /\ UNCHANGED <<crVars, ecsVars, refReady, events>>

\* Mutant: every error of DescribeClusters counts as NotFound.
FindFailsAsNotFound ==
    /\ pc = "find" /\ Happens("faults")
    /\ Continue(IF mode = "sync" THEN "manage" ELSE "release")
    /\ UNCHANGED <<ecsVars, refReady, latest>>

FindFails ==
    /\ pc = "find" /\ Happens("faults")
    /\ Finish("Retryable", desired)
    /\ UNCHANGED <<ecsVars, refReady>>

\* Mutant: an INACTIVE cluster counts as found.
FoundInactive(s) == s # "MISSING"

\* An INACTIVE cluster counts as not found: it can be created again.
Found(s) == s \notin {"MISSING", "INACTIVE"}

FindNothing ==
    /\ pc = "find" /\ ~Found(status)
    /\ Continue(IF mode = "sync" THEN "manage" ELSE "release")
    /\ UNCHANGED <<ecsVars, refReady, latest, events>>

\* ReadOne succeeds in a sync: a cluster the CR did not create is left alone, one
\* without a difference is in sync, and for any other Update is called.
FindForSync ==
    /\ pc = "find" /\ mode = "sync" /\ Found(status)
    /\ LET observed == Merge(ecs)
           d == [desired EXCEPT !.Tags = mirrorAWSTags(@, observed.Tags)]
           calls == NextCalls(d, observed, "find")
       IN  CASE ~finalizer -> Finish("Terminal", observed)
             [] finalizer /\ calls = {} -> Finish("nil", observed)
             [] finalizer /\ calls # {} ->
                  /\ pc' = FirstOf(calls)
                  /\ desired' = d /\ latest' = observed
                  /\ UNCHANGED <<crVars, mode, statusVars>>
    /\ UNCHANGED <<ecsVars, refReady, events>>

FindForDelete ==
    /\ pc = "find" /\ mode = "delete" /\ Found(status)
    /\ Continue("delete") /\ latest' = Merge(ecs)
    /\ UNCHANGED <<ecsVars, refReady, events>>

\* Mutant: the finalizer is not added.
SetManagedForgotten ==
    /\ pc = "manage"
    /\ Continue("create")
    /\ UNCHANGED <<latest, ecsVars, refReady, events>>

\* The runtime puts the finalizer on the object before it calls Create.
SetManaged ==
    /\ pc = "manage"
    /\ IF crState = "absent"
       THEN Finish("Retryable", desired)
       ELSE /\ finalizer' = TRUE /\ pc' = "create"
            /\ UNCHANGED <<crState, ko, mode, desired, statusVars, latest>>
    /\ UNCHANGED <<ecsVars, refReady, events>>

\* ECS takes CreateCluster for a cluster that is there as a question for it.
EcsCreates ==
    IF Found(status)
    THEN UNCHANGED <<status, ecs>>
    ELSE /\ status' = IF desired.CapacityProviders = {} THEN "ACTIVE" ELSE "PROVISIONING"
         /\ ecs' = EcsCreate(desired)

CreateCluster ==
    /\ pc = "create"
    /\ IF CreatePayloadError(desired)
       THEN CreateEnds("NotInt32") /\ UNCHANGED <<status, ecs>>
       ELSE /\ EcsCreates
            /\ latest' = Merge(ecs')
            /\ Continue("patch")
    /\ UNCHANGED <<occupied, refReady, events>>

\* CreateCluster fails, or ECS rejects what it was sent.
CreateFails ==
    /\ pc = "create"
    /\ \/ Happens("faults") /\ CreateEnds("Retryable")
       \/ /\ ~CreatePayloadError(desired) /\ MayBeInvalid(desired)
          /\ CreateEnds("InvalidParameter")
          /\ UNCHANGED events
    /\ UNCHANGED <<ecsVars, refReady>>

\* CreateCluster succeeds and its reply is lost.  Only a runtime that keeps the
\* finalizer survives this one.
CreateReplyLost ==
    /\ pc = "create" /\ ~Unmanages /\ ~CreatePayloadError(desired) /\ Happens("faults")
    /\ EcsCreates
    /\ Finish("Retryable", desired)
    /\ UNCHANGED <<occupied, refReady>>

\* SyncTags needs the ARN, which sdkUpdate takes from the object that was read.
HasTarget == pc \in {"tag", "untag"} => desired.ARN

TagResource ==
    /\ pc = "tag" /\ HasTarget /\ EcsDoes("tag")
    /\ ContinueUpdate("tag")
    /\ UNCHANGED <<occupied, refReady, events>>

UntagResource ==
    /\ pc = "untag" /\ HasTarget /\ EcsDoes("untag")
    /\ ContinueUpdate("untag")
    /\ UNCHANGED <<occupied, refReady, events>>

\* Without an ARN in its status sdkUpdate dereferences a nil pointer.  The worker
\* recovers from the panic and the object goes back in the queue; nothing of the
\* resource is written back.
SyncTagsPanics ==
    /\ ~HasTarget
    /\ UNCHANGED crVars /\ End("Panic")
    /\ UNCHANGED <<ecsVars, refReady, events>>

PutClusterCapacityProviders ==
    /\ pc = "put" /\ EcsDoes("put")
    /\ ContinueUpdate("put")
    /\ UNCHANGED <<occupied, refReady, events>>

\* The last call; its response replaces the fields of the spec.
UpdateCluster ==
    /\ pc = "update" /\ EcsDoes("update")
    /\ \E reply \in EcsReply(ecs') : latest' = Merge(reply)
    /\ Continue("patch")
    /\ UNCHANGED <<occupied, refReady, events>>

\* A call of an update comes while ECS does not take it, as the capacity providers
\* are being changed or the cluster has gone, or ECS rejects what the call sends.
UpdateRefused ==
    /\ pc \in UpdateCalls /\ HasTarget
    /\ \/ ~EcsTakes(pc) /\ Finish("Retryable", latest)
       \/ pc = "put" /\ MayBeInvalid(desired) /\ Finish("InvalidParameter", latest)
    /\ UNCHANGED <<ecsVars, refReady, events>>

\* A call of an update fails, before or after ECS has done what it asks for.
UpdateFails ==
    /\ pc \in UpdateCalls /\ HasTarget /\ Happens("faults")
    /\ UNCHANGED <<ecs, status>> \/ EcsDoes(pc)
    /\ Finish("Retryable", latest)
    /\ UNCHANGED <<occupied, refReady>>

\* The runtime patches the spec and the status with what Create or Update
\* returned.
PatchSpec ==
    /\ pc = "patch"
    /\ UNCHANGED <<crState, finalizer>>
    /\ ko' = WrittenBack(latest, SpecFields)
    /\ End("nil")
    /\ UNCHANGED <<ecsVars, refReady, events>>

PatchFails ==
    /\ pc = "patch" /\ Happens("faults")
    /\ UNCHANGED crVars /\ End("Retryable")
    /\ UNCHANGED <<ecsVars, refReady>>

\* ECS refuses to delete a cluster with services, or one it is still changing.
Deletable == status = "ACTIVE" /\ ~occupied

EcsDeletes ==
    status' = IF ecs.CapacityProviders = {} THEN "INACTIVE" ELSE "DEPROVISIONING"

DeleteCluster ==
    /\ pc = "delete"
    /\ IF Deletable
       THEN EcsDeletes /\ Continue("release") /\ UNCHANGED latest
       ELSE Finish("Retryable", latest) /\ UNCHANGED status
    /\ UNCHANGED <<ecs, occupied, refReady, events>>

\* Mutant: the error is dropped.
DeleteErrorDropped ==
    /\ pc = "delete" /\ Happens("faults")
    /\ Continue("release")
    /\ UNCHANGED <<ecsVars, refReady, latest>>

DeleteFails ==
    /\ pc = "delete" /\ Happens("faults")
    /\ UNCHANGED status \/ (Deletable /\ EcsDeletes)
    /\ Finish("Retryable", latest)
    /\ UNCHANGED <<ecs, occupied, refReady>>

\* Delete returned no error, or nothing was found: the finalizer comes off.
Release ==
    /\ pc = "release"
    /\ RemoveFinalizer /\ End("nil")
    /\ UNCHANGED <<ecsVars, refReady, events>>

ReleaseFails ==
    /\ pc = "release" /\ Happens("faults")
    /\ UNCHANGED crVars /\ End("Retryable")
    /\ UNCHANGED <<ecsVars, refReady>>

Reconcile ==
    \/ Begin
    \/ FindFails \/ FindNothing \/ FindForSync \/ FindForDelete
    \/ SetManaged \/ CreateCluster \/ CreateFails \/ CreateReplyLost
    \/ TagResource \/ UntagResource \/ SyncTagsPanics
    \/ PutClusterCapacityProviders \/ UpdateCluster \/ UpdateRefused \/ UpdateFails
    \/ PatchSpec \/ PatchFails
    \/ DeleteCluster \/ DeleteFails \/ Release \/ ReleaseFails

-----------------------------------------------------------------------------
(* Restart, resync, the user and ECS.                                      *)

Crash ==
    /\ pc # "idle" /\ Happens("faults")
    /\ pc' = "idle" /\ mode' = "sync"
    /\ desired' = EmptyResource /\ latest' = EmptyResource
    /\ queued' = (crState # "absent")
    /\ UNCHANGED <<crVars, outcome, ecsVars, refReady>>

\* An object that reconciled is queued again in the end; one whose sdkCreate took
\* ACK.ResourceSynced back, for the cluster was not ACTIVE yet, only sooner.
Resync ==
    /\ pc = "idle" /\ crState = "live" /\ outcome = "success" /\ ~queued
    /\ queued' = TRUE
    /\ UNCHANGED <<crVars, outcome, workVars, ecsVars, refReady, events>>

\* What a user writes: settings other than ECS's own, no system tags, all the
\* capacity providers or none, and a strategy only over capacity providers of the
\* cluster, as ECS requires.
UserSpecs ==
    {r \in Resources :
       /\ r.CapacityProviders \in {{}, Providers}
       /\ r.Settings # 0
       /\ r.CapacityProviders = {} => r.DefaultCapacityProviderStrategy = Nil
       /\ \A k \in SystemKeys : r.Tags[k] = NoTag
       /\ ~r.ARN}

UserCreates ==
    /\ crState = "absent" /\ Happens("lives")
    /\ crState' = "live" /\ ko' \in UserSpecs /\ queued' = TRUE
    /\ UNCHANGED <<finalizer, outcome, workVars, ecsVars, refReady>>

\* The user edits one field.
UserEdits ==
    /\ crState = "live" /\ Happens("edits")
    /\ \E f \in SpecFields : \E v \in {r[f] : r \in UserSpecs} \ {ko[f]} :
          /\ ko' = [ko EXCEPT ![f] = v]
          /\ ko'.CapacityProviders = {} => ko'.DefaultCapacityProviderStrategy = Nil
    /\ queued' = TRUE
    /\ UNCHANGED <<crState, finalizer, outcome, workVars, ecsVars, refReady>>

UserDeletes ==
    /\ crState = "live"
    /\ IF finalizer
       THEN /\ crState' = "deleting" /\ queued' = TRUE
            /\ UNCHANGED <<ko, outcome>>
       ELSE /\ crState' = "absent" /\ queued' = FALSE
            /\ ko' = EmptyResource /\ outcome' = "none"
    /\ UNCHANGED <<finalizer, workVars, ecsVars, refReady, events>>

\* Others change the cluster: an AWS service tags it, somebody removes a tag or
\* detaches the capacity providers, or services are started in it.
Drift ==
    /\ Exists /\ Happens("drifts")
    /\ \/ /\ ecs' \in {[ecs EXCEPT !.Tags[AwsKey] = v] : v \in TagValues}
          /\ UNCHANGED occupied
       \/ /\ \E k \in Keys \ {AwsKey} :
                ecs.Tags[k] # NoTag /\ ecs' = [ecs EXCEPT !.Tags[k] = NoTag]
          /\ UNCHANGED occupied
       \/ /\ ecs' = [ecs EXCEPT !.CapacityProviders = {},
                                !.DefaultCapacityProviderStrategy = Nil]
          /\ UNCHANGED occupied
       \/ status = "ACTIVE" /\ occupied' = TRUE /\ UNCHANGED ecs
    /\ UNCHANGED <<crVars, statusVars, workVars, status, refReady>>

\* The services of the cluster are deleted.
Vacated ==
    /\ occupied /\ occupied' = FALSE
    /\ UNCHANGED <<crVars, statusVars, workVars, status, ecs, refReady, events>>

\* ECS has attached or detached the capacity providers.
Provisioned ==
    /\ \/ status = "PROVISIONING" /\ status' = "ACTIVE"
       \/ status = "DEPROVISIONING" /\ status' = "INACTIVE"
    /\ UNCHANGED <<crVars, statusVars, workVars, ecs, occupied, refReady, events>>

Forgotten ==
    /\ status = "INACTIVE" /\ status' = "MISSING" /\ ecs' = EmptyResource
    /\ UNCHANGED <<crVars, statusVars, workVars, occupied, refReady, events>>

\* A capacity provider or its CR comes or goes.
ReferenceChanges ==
    /\ Happens("refs")
    /\ \E p \in Providers :
          refReady' = IF p \in refReady THEN refReady \ {p} ELSE refReady \cup {p}
    /\ UNCHANGED <<crVars, statusVars, workVars, ecsVars>>

Environment ==
    \/ Crash \/ Resync
    \/ UserCreates \/ UserEdits \/ UserDeletes
    \/ Drift \/ Vacated \/ Provisioned \/ Forgotten \/ ReferenceChanges

Next == Reconcile \/ Environment

Spec == Init /\ [][Next]_vars

\* The worker runs what is queued, the resync timer fires, ECS finishes what it
\* began, and whoever runs services in the cluster deletes them some day.
Fairness ==
    /\ WF_vars(Reconcile) /\ WF_vars(Resync)
    /\ WF_vars(Provisioned) /\ WF_vars(Vacated)

FairSpec == Spec /\ Fairness

-----------------------------------------------------------------------------
(* Properties.                                                             *)

\* A cluster that is there always has its object, and the object its finalizer,
\* whatever fails, crashes or is deleted in whatever order.
NoOrphan == Exists => crState # "absent" /\ finalizer

\* The object's life and the cluster's follow the contract of ManagedResource.
Lifecycle == INSTANCE ManagedResource WITH
    object <- crState, held <- finalizer, exists <- Exists

ImplementsLifecycle == Lifecycle!Spec

\* Whatever an AWS service tags between whichever calls, neither TagResource nor
\* UntagResource is ever asked to touch an aws: tag, which ECS would refuse.
LeavesAwsTagsAlone ==
    /\ pc = "tag" => AwsKey \notin toAdd(desired.Tags, latest.Tags)
    /\ pc = "untag" => AwsKey \notin toDelete(desired.Tags, latest.Tags)

\* The tags the controller and AWS services add never show up in the user's spec,
\* although the resources that are patched into it carry them.
SpecHoldsUserTagsOnly == \A k \in SystemKeys : ko.Tags[k] = NoTag

\* Capacity provider references that resolve one by one never put a part of the
\* list into the cluster.
NoPartialReference == ecs.CapacityProviders \in {{}, Providers}

\* A terminal error ends the retries, so no fault, drift or crash may lead to one.
\* An object that stays terminal has its reason in what users see: its cluster's
\* name was in use before, a capacity provider that the spec names has gone at
\* some time, or the spec has a number that does not fit in 32 bits.
TerminalHasReason ==
    outcome = "terminal" /\ pc = "idle" /\ ~queued
      => \/ events["lives"] >= 2
         \/ events["refs"] >= 1 /\ ko.CapacityProviders # {}
         \/ ko.DefaultCapacityProviderStrategy = Huge

\* The spec patch that follows UpdateCluster overwrites every field with the reply,
\* the ones other calls sent included: unless others changed the cluster, that
\* leaves what the user wrote before or during the reconcile.  A field that was
\* not set, or a strategy that was incomplete or oversized, becomes what ECS has.
PatchKeepsEdits ==
    [][pc = "patch" /\ pc' = "idle" /\ events["drifts"] = 0 =>
         \A f \in SpecFields :
            desired[f] \notin {Nil, Bare, Huge} => ko'[f] = ko[f]]_vars

\* A strategy that ECS keeps as it is sent.
Plain(strategy) == Stored(strategy) = strategy

\* Once edits, drift and faults stop and the capacity providers are there, the
\* cluster has what the spec says, unless the object is terminal.
SpecReachesECS ==
    <>[](/\ crState = "live" /\ outcome # "terminal"
         /\ ko.ARN /\ refReady = Providers
         /\ Plain(ko.DefaultCapacityProviderStrategy)
         => /\ status = "ACTIVE"
            /\ ko.Settings \in {Nil, ecs.Settings}
            /\ \A f \in {"CapacityProviders", "DefaultCapacityProviderStrategy"} :
                  ko[f] = ecs[f]
            /\ \A k \in UserKeys : ko.Tags[k] = ecs.Tags[k])

\* The calls of an update come to an end: what ECS reports back makes no difference
\* again.  One call does not: a strategy whose items leave Base or Weight unset, or
\* oversized, differs from what ECS reports at every resync, and nothing writes
\* that back, so that PutClusterCapacityProviders goes on being called.
UpdatesStop ==
    <>[](crState = "live" /\ ko.ARN
           => \/ pc \notin UpdateCalls
              \/ pc = "put" /\ ~Plain(ko.DefaultCapacityProviderStrategy))

\* A deletion comes to its end although services ran in the cluster.
DeletionCompletes == crState = "deleting" ~> crState = "absent"

\* pkg/tags/sync.go: SyncTags is there "to ensure that the set of associated Tags
\* stays in sync with the Resource.Spec.Tags", also after a crash that came between
\* the creation of the cluster and the patch of the object's status.
TagsReachECS ==
    <>[](crState = "live" /\ Exists =>
           \A k \in UserKeys : ko.Tags[k] = ecs.Tags[k])
=============================================================================
