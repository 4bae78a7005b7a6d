------------------------ MODULE CapacityProviderManager ------------------------
(***************************************************************************)
(* One CapacityProvider custom resource of the managed instances kind, the *)
(* resource manager that reconciles it (pkg/resource/capacity_provider)    *)
(* and the ECS capacity provider it stands for.                            *)
(*                                                                         *)
(* What this kind has and the others have not: ECS updates and deletes in  *)
(* the background and may fail to; the reply of UpdateCapacityProvider is  *)
(* stale; a reference sits inside a struct that the replies rebuild        *)
(* (EnsureReferences); and a field is initialized late, by a second read   *)
(* after Create or Update (LateInitialize).                                *)
(***************************************************************************)
EXTENDS Naturals, FiniteSets, ResourceTags

CONSTANTS
    Settings,    \* values of the provider's settings; 0 is what ECS sets by itself
    Nil,         \* a field that is not set
    ByRef,       \* whether the CR names its role by InfrastructureRoleRef
    RepliesWithoutTags,  \* whether the reply of UpdateCapacityProvider may leave out the tags
    MaxEvents    \* how many things users, others and faults do

ASSUME ConstantsAssumption ==
    /\ 0 \in Settings /\ Nil \notin Settings
    /\ {ByRef, RepliesWithoutTags} \subseteq BOOLEAN
    /\ MaxEvents \in Nat

\* The fields of the CR by their Go names: the settings of the provider that go
\* the same way together, AutoRepairConfiguration, the role (its ARN set or not)
\* and the reference to it, the tags, and whether the status is ACTIVE.
Resources == [Settings : Settings \cup {Nil},
              AutoRepairConfiguration : Settings \cup {Nil},
              InfrastructureRoleARN : BOOLEAN,
              InfrastructureRoleRef : BOOLEAN,
              Tags : TagLists,
              Active : BOOLEAN]

EmptyResource == [Settings |-> Nil, AutoRepairConfiguration |-> Nil,
                  InfrastructureRoleARN |-> FALSE, InfrastructureRoleRef |-> FALSE,
                  Tags |-> NoTags, Active |-> FALSE]

SpecFields == DOMAIN EmptyResource \ {"Active"}

VARIABLES
    crState,     \* the Kubernetes object: absent, live or deleting
    finalizer,   \* whether it carries the ACK finalizer
    ko,          \* its spec and status
    outcome,     \* how its last reconcile ended
    queued,      \* whether it is in the work queue
    pc,          \* the next step of the running reconcile
    mode,        \* sync or delete, as the object was when it was read
    desired,     \* the resource it read
    latest,      \* the resource the last operation returned
    status,      \* ECS: the status of the provider
    updateStatus, \* ECS: what happens in the background, or failed there
    ecs,         \* ECS: the provider
    pending,     \* ECS: the provider as the update that runs will leave it
    attached,    \* ECS: whether a cluster uses it
    events       \* how many of the MaxEvents there have been

crVars == <<crState, finalizer, ko>>
statusVars == <<outcome, queued>>
workVars == <<pc, mode, desired, latest>>
ecsVars == <<status, updateStatus, ecs, pending, attached>>
vars == <<crVars, statusVars, workVars, ecsVars, events>>

Init ==
    /\ crState = "absent" /\ finalizer = FALSE /\ ko = EmptyResource
    /\ outcome = "none" /\ queued = FALSE
    /\ pc = "idle" /\ mode = "sync"
    /\ desired = EmptyResource /\ latest = EmptyResource
    /\ status = "MISSING" /\ updateStatus = "NONE"
    /\ ecs = EmptyResource /\ pending = EmptyResource
    /\ attached = FALSE /\ events = 0

Happens == events < MaxEvents /\ events' = events + 1

Exists == status \in {"PROVISIONING", "ACTIVE"}

-----------------------------------------------------------------------------
(* The operations of sdk.go, delta.go, manager.go and references.go.       *)

\* The references inside the provider are not compared: what they resolve to is.
newResourceDelta(a, b) ==
    {f \in SpecFields \ {"InfrastructureRoleRef"} : a[f] # b[f]}

\* sdkFind's and sdkCreate's merge: the provider struct is rebuilt from the reply,
\* without the reference in it.
Merge(reply, s) == [reply EXCEPT !.Active = s = "ACTIVE"]

\* Mutant: the settings of the stale reply are taken over, too.
UpdateMergeOfAll(d, reply) ==
    [d EXCEPT !.Settings = reply.Settings, !.Tags = reply.Tags,
              !.Active = status = "ACTIVE"]

\* sdkUpdate's merge: a copy of desired, and from the reply the tags and the status.
UpdateMerge(d, reply) ==
    [d EXCEPT !.Tags = reply.Tags, !.Active = status = "ACTIVE"]

\* The reply of an update has the provider as it was before.
StaleReplies ==
    {ecs} \cup (IF RepliesWithoutTags THEN {[ecs EXCEPT !.Tags = NoTags]} ELSE {})

\* CreateCapacityProvider as ECS runs it.
EcsCreate(req) ==
    [req EXCEPT !.Settings = IF @ = Nil THEN 0 ELSE @,
                !.AutoRepairConfiguration = IF @ = Nil THEN 0 ELSE @,
                !.InfrastructureRoleRef = FALSE, !.Active = FALSE]

\* Mutant: the settings are left out of the payload.
EcsUpdateWithoutSettings(c, req) == c

\* UpdateCapacityProvider: what is not set stays, and tags are no part of it.
EcsUpdate(c, req) ==
    [c EXCEPT !.Settings = IF req.Settings = Nil THEN @ ELSE req.Settings,
              !.AutoRepairConfiguration =
                    IF req.AutoRepairConfiguration = Nil THEN @
                    ELSE req.AutoRepairConfiguration]

\* Mutant: nothing is restored.
EnsureNoReferences(d, l) == l

\* EnsureReferences: a reply has dropped the reference with its struct.
EnsureReferences(d, l) == [l EXCEPT !.InfrastructureRoleRef = @ \/ d.InfrastructureRoleRef]

ResolveReferences(r) ==
    [r EXCEPT !.InfrastructureRoleARN = @ \/ r.InfrastructureRoleRef]

ClearResolvedReferences(r) ==
    [r EXCEPT !.InfrastructureRoleARN = @ /\ ~r.InfrastructureRoleRef]

\* lateInitializeFromReadOneOutput
LateInitialized(observed, l) ==
    [l EXCEPT !.AutoRepairConfiguration =
                    IF @ = Nil THEN observed.AutoRepairConfiguration ELSE @,
              !.Tags = mirrorAWSTags(@, observed.Tags)]

-----------------------------------------------------------------------------
(* How a reconcile goes on and ends.                                       *)

Patched(r) ==
    LET c == ClearResolvedReferences(r) IN [c EXCEPT !.Tags = FilterSystemTags(@)]

\* The object after the patch of what r and base differ in.
WrittenBack(base, r) ==
    LET from == Patched(base)
        to == Patched(EnsureReferences(base, r))
    IN  [f \in DOMAIN ko |->
           IF f \in SpecFields /\ from[f] = to[f] THEN ko[f] ELSE to[f]]

\* Mutant: the error is kept instead of what it means.
OutcomeIsError(err, r) ==
    IF err = "nil" THEN IF r.Active THEN "success" ELSE "unsynced" ELSE err

\* IsSynced: a provider that is not ACTIVE is looked at again.
OutcomeOf(err, r) ==
    CASE err = "nil" -> IF r.Active THEN "success" ELSE "unsynced"
      [] err \in {"Terminal", "InvalidParameter"} -> "terminal"
      [] OTHER -> "error"

\* What a call that fails or is refused without an effect answers with: the
\* exception that terminalAWSError lists, or another one.  Which, is up to ECS.
Failures == {"Retryable", "InvalidParameter"}

\* The reconcile ends with err and r; the object as it is then is ko'.
End(err, r) ==
    /\ pc' = "idle" /\ mode' = "sync"
    /\ desired' = EmptyResource /\ latest' = EmptyResource
    /\ IF crState' = "absent"
       THEN outcome' = "none" /\ queued' = FALSE
       ELSE /\ outcome' = OutcomeOf(err, r)
            /\ queued' = \/ queued
                         \/ OutcomeOf(err, r) \in {"error", "unsynced"}
                         \/ \E f \in SpecFields : ko'[f] # ko[f]

\* An operation failed with err: the object keeps its spec.
Finish(err, r) == UNCHANGED crVars /\ End(err, r)

Continue(label, r) ==
    /\ pc' = label /\ latest' = r
    /\ UNCHANGED <<crVars, mode, desired, statusVars>>

RemoveFinalizer ==
    /\ finalizer' = FALSE
    /\ IF crState = "deleting"
       THEN crState' = "absent" /\ ko' = EmptyResource
       ELSE UNCHANGED <<crState, ko>>

-----------------------------------------------------------------------------
(* The reconcile, one action per API call.                                 *)

Begin ==
    /\ pc = "idle" /\ queued /\ crState # "absent"
    /\ pc' = "find"
    /\ mode' = IF crState = "live" THEN "sync" ELSE "delete"
    /\ desired' = [ResolveReferences(ko) EXCEPT !.Tags = EnsureTags(@)]
    /\ queued' = FALSE
    /\ UNCHANGED <<outcome, latest, crVars, ecsVars, events>>

\* The role does not resolve, which ends a sync.
ReferenceFails ==
    /\ pc = "idle" /\ queued /\ crState = "live" /\ ByRef /\ Happens
    /\ outcome' = "error"
    /\ UNCHANGED <<queued, workVars, crVars, ecsVars>>

FindFails ==
    /\ pc = "find" /\ Happens
    /\ Finish("Retryable", desired)
    /\ UNCHANGED ecsVars

\* An INACTIVE provider counts as not found: it can be created again.
FindNothing ==
    /\ pc = "find" /\ status \in {"MISSING", "INACTIVE"}
    /\ Continue(IF mode = "sync" THEN "manage" ELSE "release", latest)
    /\ UNCHANGED <<ecsVars, events>>

\* ReadOne succeeds in a sync: a provider the CR did not create is left alone, and
\* Update is called for one with a difference.
FindForSync ==
    /\ pc = "find" /\ mode = "sync" /\ status \notin {"MISSING", "INACTIVE"}
    /\ UNCHANGED <<ecsVars, events>>
    /\ LET observed == Merge(ecs, status)
           d == [desired EXCEPT !.Tags = mirrorAWSTags(@, observed.Tags)]
       IN  IF ~finalizer
           THEN Finish("Terminal", observed)
           ELSE /\ pc' = IF newResourceDelta(d, observed) = {} THEN "late" ELSE "update"
                /\ desired' = IF pc' = "late" THEN observed ELSE d
                /\ latest' = observed
                /\ UNCHANGED <<crVars, mode, statusVars>>

FindForDelete ==
    /\ pc = "find" /\ mode = "delete" /\ status \notin {"MISSING", "INACTIVE"}
    /\ UNCHANGED <<ecsVars, events>>
    /\ Continue("delete", Merge(ecs, status))

SetManaged ==
    /\ pc = "manage"
    /\ IF crState = "absent"
       THEN Finish("Retryable", desired)
       ELSE /\ finalizer' = TRUE /\ pc' = "create"
            /\ UNCHANGED <<crState, ko, mode, desired, statusVars, latest>>
    /\ UNCHANGED <<ecsVars, events>>

EcsCreates ==
    /\ status \in {"MISSING", "INACTIVE"}
    /\ ecs' = EcsCreate(desired)
    /\ status' = "PROVISIONING" /\ updateStatus' = "NONE"
    /\ UNCHANGED <<pending, attached>>

CreateCapacityProvider ==
    /\ pc = "create" /\ EcsCreates
    /\ Continue("patch", Merge(ecs', status'))
    /\ UNCHANGED events

\* sdkCreate returned no resource: one runtime takes the finalizer off again,
\* another one keeps it.
CreateEnds(err) ==
    \/ RemoveFinalizer /\ End(err, desired)
    \/ Finish(err, desired)

CreateFails ==
    /\ pc = "create" /\ Happens
    /\ \E err \in Failures : CreateEnds(err)
    /\ UNCHANGED ecsVars

\* CreateCapacityProvider succeeds and its reply is lost.
CreateReplyLost ==
    /\ pc = "create" /\ Happens
    /\ EcsCreates
    /\ CreateEnds("Retryable")

\* ECS takes one update at a time, and none of a provider that is not active.
Updatable == status = "ACTIVE" /\ updateStatus # "UPDATE_IN_PROGRESS"

EcsUpdates ==
    /\ pending' = EcsUpdate(ecs, desired) /\ updateStatus' = "UPDATE_IN_PROGRESS"
    /\ UNCHANGED <<status, ecs, attached>>

UpdateCapacityProvider ==
    /\ pc = "update" /\ Updatable /\ EcsUpdates
    /\ \E reply \in StaleReplies : Continue("patch", UpdateMerge(desired, reply))
    /\ UNCHANGED events

UpdateRefused ==
    /\ pc = "update" /\ ~Updatable
    /\ \E err \in Failures : Finish(err, latest)
    /\ UNCHANGED <<ecsVars, events>>

\* The call fails, before or after ECS has taken the update.
UpdateFails ==
    /\ pc = "update" /\ Happens
    /\ \/ UNCHANGED ecsVars /\ \E err \in Failures : Finish(err, latest)
       \/ Updatable /\ EcsUpdates /\ Finish("Retryable", latest)

\* The runtime patches the spec with what Create or Update returned.
PatchSpec ==
    /\ pc = "patch"
    /\ ko' = IF crState = "absent" THEN ko ELSE WrittenBack(desired, latest)
    /\ queued' = (queued \/ \E f \in SpecFields : ko'[f] # ko[f])
    /\ pc' = "late" /\ desired' = latest
    /\ UNCHANGED <<crState, finalizer, mode, outcome, latest, ecsVars, events>>

PatchFails ==
    /\ pc \in {"patch", "lateInit"} /\ Happens
    /\ Finish("Retryable", latest)
    /\ UNCHANGED ecsVars

\* Mutant: an initialized resource is returned as it was.
LateInitializeNothing ==
    /\ pc = "late" /\ UNCHANGED <<ecsVars, events>>
    /\ Continue("lateInit", latest)

\* LateInitialize reads the provider again.
LateInitialize ==
    /\ pc = "late"
    /\ UNCHANGED <<ecsVars, events>>
    /\ IF status \in {"MISSING", "INACTIVE"}
       THEN Finish("NotFound", latest)
       ELSE Continue("lateInit", LateInitialized(Merge(ecs, status), latest))

LateInitializeFails ==
    /\ pc = "late" /\ Happens
    /\ Finish("Retryable", latest)
    /\ UNCHANGED ecsVars

\* The runtime patches what has been initialized and ends the reconcile.
PatchLateInitialized ==
    /\ pc = "lateInit"
    /\ UNCHANGED <<crState, finalizer, ecsVars, events>>
    /\ ko' = IF crState = "absent" THEN ko ELSE WrittenBack(desired, latest)
    /\ End("nil", latest)

\* ECS refuses to delete a provider that a cluster uses or that it is changing.
Deletable == Updatable /\ ~attached

EcsDeletes ==
    /\ status' = "DEPROVISIONING" /\ updateStatus' = "NONE"
    /\ UNCHANGED <<ecs, pending, attached>>

\* A deletion that ECS has begun is as good as one that is done: the finalizer
\* comes off next.
DeleteCapacityProvider ==
    /\ pc = "delete" /\ UNCHANGED events
    /\ IF Deletable
       THEN EcsDeletes /\ Continue("release", latest)
       ELSE UNCHANGED ecsVars /\ \E err \in Failures : Finish(err, latest)

\* Mutant: the error is dropped.
DeleteErrorDropped ==
    /\ pc = "delete" /\ Happens
    /\ Continue("release", latest)
    /\ UNCHANGED ecsVars

DeleteFails ==
    /\ pc = "delete" /\ Happens
    /\ UNCHANGED ecsVars \/ (Deletable /\ EcsDeletes)
    /\ Finish("Retryable", latest)

Release ==
    /\ pc = "release"
    /\ RemoveFinalizer /\ End("nil", latest)
    /\ UNCHANGED <<ecsVars, events>>

ReleaseFails ==
    /\ pc = "release" /\ Happens
    /\ Finish("Retryable", latest)
    /\ UNCHANGED ecsVars

Reconcile ==
    \/ Begin \/ ReferenceFails
    \/ FindFails \/ FindNothing \/ FindForSync \/ FindForDelete
    \/ SetManaged \/ CreateCapacityProvider \/ CreateFails \/ CreateReplyLost
    \/ UpdateCapacityProvider \/ UpdateRefused \/ UpdateFails
    \/ PatchSpec \/ PatchFails
    \/ LateInitialize \/ LateInitializeFails \/ PatchLateInitialized
    \/ DeleteCapacityProvider \/ DeleteFails \/ Release \/ ReleaseFails

-----------------------------------------------------------------------------
(* Restart, resync, the user and ECS.                                      *)

Crash ==
    /\ pc # "idle" /\ Happens
    /\ pc' = "idle" /\ mode' = "sync"
    /\ desired' = EmptyResource /\ latest' = EmptyResource
    /\ queued' = (crState # "absent")
    /\ UNCHANGED <<crVars, outcome, ecsVars>>

Resync ==
    /\ pc = "idle" /\ crState = "live" /\ outcome = "success" /\ ~queued
    /\ queued' = TRUE
    /\ UNCHANGED <<crVars, outcome, workVars, ecsVars, events>>

\* What a user writes: no system tags, and the role or a reference to it.
UserSpecs ==
    {r \in Resources :
       /\ r.Settings # Nil /\ ~r.Active
       /\ r.InfrastructureRoleRef = ByRef /\ r.InfrastructureRoleARN = ~ByRef
       /\ \A k \in SystemKeys : r.Tags[k] = NoTag}

UserCreates ==
    /\ crState = "absent" /\ Happens
    /\ crState' = "live" /\ ko' \in UserSpecs /\ queued' = TRUE
    /\ UNCHANGED <<finalizer, outcome, workVars, ecsVars>>

UserEdits ==
    /\ crState = "live" /\ Happens
    /\ \E f \in {"Settings", "AutoRepairConfiguration", "Tags"} :
         \E v \in {r[f] : r \in UserSpecs} \ {ko[f]} : ko' = [ko EXCEPT ![f] = v]
    /\ queued' = TRUE
    /\ UNCHANGED <<crState, finalizer, outcome, workVars, ecsVars>>

UserDeletes ==
    /\ crState = "live"
    /\ IF finalizer
       THEN /\ crState' = "deleting" /\ queued' = TRUE
            /\ UNCHANGED <<ko, outcome>>
       ELSE /\ crState' = "absent" /\ queued' = FALSE
            /\ ko' = EmptyResource /\ outcome' = "none"
    /\ UNCHANGED <<finalizer, workVars, ecsVars, events>>

\* Others change the settings, tag the provider, or use it in a cluster.
Drift ==
    /\ status = "ACTIVE" /\ Happens
    /\ \/ /\ ecs' \in {[ecs EXCEPT !.Settings = v] : v \in Settings}
                        \cup {[ecs EXCEPT !.Tags[AwsKey] = v] : v \in TagValues}
          /\ UNCHANGED attached
       \/ attached' = TRUE /\ UNCHANGED ecs
    /\ UNCHANGED <<crVars, statusVars, workVars, status, updateStatus, pending>>

Detached ==
    /\ attached /\ attached' = FALSE
    /\ UNCHANGED <<crVars, statusVars, workVars, status, updateStatus, ecs, pending, events>>

\* What ECS began comes to its end.
Settled ==
    /\ \/ status = "PROVISIONING" /\ status' = "ACTIVE" /\ UNCHANGED <<updateStatus, ecs>>
       \/ status = "DEPROVISIONING" /\ status' = "INACTIVE" /\ UNCHANGED <<updateStatus, ecs>>
       \/ /\ updateStatus = "UPDATE_IN_PROGRESS" /\ updateStatus' = "NONE"
          /\ ecs' = pending /\ UNCHANGED status
    /\ UNCHANGED <<crVars, statusVars, workVars, pending, attached, events>>

\* It comes to nothing: UPDATE_FAILED or DELETE_FAILED.
Failed ==
    /\ Happens
    /\ \/ updateStatus = "UPDATE_IN_PROGRESS" /\ updateStatus' = "NONE" /\ UNCHANGED status
       \/ /\ status = "DEPROVISIONING"
          /\ status' = "ACTIVE" /\ updateStatus' = "DELETE_FAILED"
    /\ UNCHANGED <<crVars, statusVars, workVars, ecs, pending, attached>>

Environment ==
    \/ Crash \/ Resync
    \/ UserCreates \/ UserEdits \/ UserDeletes
    \/ Drift \/ Detached \/ Settled \/ Failed

Next == Reconcile \/ Environment

Spec == Init /\ [][Next]_vars

\* The worker runs what is queued, the resync timer fires, ECS comes to an end with
\* what it began, and the clusters stop using the provider some day.
Fairness ==
    /\ WF_vars(Reconcile) /\ WF_vars(Resync) /\ WF_vars(Settled) /\ WF_vars(Detached)

FairSpec == Spec /\ Fairness

-----------------------------------------------------------------------------
(* Properties.                                                             *)

\* Resources, objects and the provider keep their form.
TypeOK ==
    /\ crState \in {"absent", "live", "deleting"}
    /\ finalizer \in BOOLEAN
    /\ ko \in Resources
    /\ outcome \in {"none", "success", "unsynced", "error", "terminal"}
    /\ queued \in BOOLEAN
    /\ pc \in {"idle", "find", "manage", "create", "update", "patch", "late",
               "lateInit", "delete", "release"}
    /\ mode \in {"sync", "delete"}
    /\ desired \in Resources
    /\ latest \in Resources
    /\ status \in {"MISSING", "PROVISIONING", "ACTIVE", "DEPROVISIONING", "INACTIVE"}
    /\ updateStatus \in {"NONE", "UPDATE_IN_PROGRESS", "DELETE_FAILED"}
    /\ ecs \in Resources
    /\ pending \in Resources
    /\ attached \in BOOLEAN
    /\ events \in Nat

\* A provider that nobody can delete through Kubernetes.
Orphaned == Exists /\ ~(crState # "absent" /\ finalizer)

\* A provider gets out of hand in two ways only: ECS accepted its deletion, for
\* whose end sdkDelete does not wait, and failed it later, or sdkCreate did not
\* hear of its creation and the runtime took the finalizer off.  No other failure,
\* crash or order of calls does it.
OrphansHaveKnownCauses ==
    [][~Orphaned /\ Orphaned'
         => \/ updateStatus' = "DELETE_FAILED"
            \/ pc = "create" /\ pc' = "idle"]_vars

\* Whatever replies the struct was rebuilt from and whichever step failed, the spec
\* keeps the reference the user declared and never gets the value it resolves to.
RefStaysDeclared ==
    crState # "absent" =>
        ko.InfrastructureRoleRef = ByRef /\ ko.InfrastructureRoleARN = ~ByRef

\* A reply of UpdateCapacityProvider that is older than what it was sent never
\* changes the provider's settings in the spec, nor does the late initialization
\* replace a value.
StaleReplyNotAdopted ==
    [][pc' # pc /\ pc \in {"patch", "lateInit"} =>
         \A f \in {"Settings", "AutoRepairConfiguration"} :
            desired[f] # Nil => ko'[f] = ko[f]]_vars

\* Once edits, drift and faults stop, the provider gets the settings of the spec,
\* although updates run in the background and another one is refused meanwhile,
\* unless ECS made the object terminal by rejecting one.
SettingsReachECS ==
    <>[](crState = "live" /\ finalizer /\ outcome # "terminal"
         => /\ status = "ACTIVE"
            /\ ko.Settings = ecs.Settings
            /\ ko.AutoRepairConfiguration \in {Nil, ecs.AutoRepairConfiguration})

\* What a failed read or patch left uninitialized is initialized later.
LateInitializationCompletes ==
    <>[](crState = "live" /\ finalizer /\ outcome # "terminal"
         => ko.AutoRepairConfiguration # Nil)
=============================================================================
