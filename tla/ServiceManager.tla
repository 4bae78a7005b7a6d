--------------------------- MODULE ServiceManager ---------------------------
(***************************************************************************)
(* One Service custom resource, the resource manager that reconciles it    *)
(* (pkg/resource/service) and the ECS service it stands for.               *)
(*                                                                         *)
(* A reconcile is a sequence of API calls; each call is one step, so that  *)
(* a user's edit, a change made in ECS behind the controller's back, a     *)
(* failed or lost reply and a crash can fall between any two of them.  The *)
(* calls to ECS and the conditions are the code's; the order of the calls  *)
(* of one reconcile, the finalizer and the spec patch belong to the ACK    *)
(* runtime and are modelled from how the code relies on them.              *)
(***************************************************************************)
EXTENDS Integers, FiniteSets, AckConditions

CONSTANTS
    Fields,     \* the spec fields this instance follows, by their Go names
    Values,     \* values of a field; 0 is the zero value ECS reports
    Nil,        \* a field that is not set
    ByRef,      \* whether the CR names its cluster by clusterRef
    Unmanages,  \* whether the runtime drops the finalizer when Create failed
    DriftFields,  \* settings others change in ECS (autoscaling, an operator)
    OthersDelete, \* whether others delete the service in ECS
    MaxLives, MaxEdits, MaxDrifts, MaxFaults, MaxRefs   \* the environment's bounds

ASSUME ConstantsAssumption ==
    /\ "DesiredCount" \in Fields
    /\ 0 \in Values /\ Values \subseteq Nat
    /\ Nil \notin Values
    /\ DriftFields \subseteq Fields
    /\ {ByRef, Unmanages, OthersDelete} \subseteq BOOLEAN
    /\ {MaxLives, MaxEdits, MaxDrifts, MaxFaults, MaxRefs} \subseteq Nat

Specs == [Fields -> Values \cup {Nil}]
EmptySpec == [f \in Fields |-> Nil]

\* The cluster the CR names, and the one ECS assumes when none is given.
Clusters == {"named", "default"}
ServiceStatuses == {"MISSING", "ACTIVE", "DRAINING", "INACTIVE"}
Budgets == {"lives", "edits", "drifts", "faults", "refs"}

VARIABLES
    crState,     \* the Kubernetes object: absent, live or deleting
    finalizer,   \* whether it carries the ACK finalizer
    spec,        \* its spec
    cond,        \* the conditions in its status
    outcome,     \* how its last reconcile ended
    queued,      \* whether it is in the work queue
    pc,          \* the next call of the running reconcile
    mode,        \* sync or delete, as the object was when it was read
    cluster,     \* the cluster its calls go to
    desired,     \* the spec it read
    latest,      \* the resource the last operation returned
    work,        \* the conditions of the resource in hand
    svcStatus,   \* ECS: the status of the service in each cluster
    svcSpec,     \* ECS: its settings
    refReady,    \* whether the referenced Cluster CR resolves
    left         \* what is left of each bound

crVars == <<crState, finalizer, spec>>
statusVars == <<cond, outcome, queued>>
workVars == <<pc, mode, cluster, desired, latest, work>>
ecsVars == <<svcStatus, svcSpec>>
vars == <<crVars, statusVars, workVars, ecsVars, refReady, left>>

PCs == {"idle", "find", "manage", "create", "update", "patch", "scale",
        "delete", "release"}
Outcomes == {"none", "success", "error", "requeue", "terminal"}

TypeOK ==
    /\ crState \in {"absent", "live", "deleting"}
    /\ finalizer \in BOOLEAN
    /\ spec \in Specs
    /\ cond \in Conditions
    /\ outcome \in Outcomes
    /\ queued \in BOOLEAN
    /\ pc \in PCs
    /\ mode \in {"sync", "delete"}
    /\ cluster \in Clusters
    /\ desired \in Specs
    /\ latest \in Specs
    /\ work \in Conditions
    /\ svcStatus \in [Clusters -> ServiceStatuses]
    /\ svcSpec \in [Clusters -> Specs]
    /\ refReady \in BOOLEAN
    /\ left \in [Budgets -> Nat]

Init ==
    /\ crState = "absent" /\ finalizer = FALSE /\ spec = EmptySpec
    /\ cond = NoConditions /\ outcome = "none" /\ queued = FALSE
    /\ pc = "idle" /\ mode = "sync" /\ cluster = "named"
    /\ desired = EmptySpec /\ latest = EmptySpec /\ work = NoConditions
    /\ svcStatus = [c \in Clusters |-> "MISSING"]
    /\ svcSpec = [c \in Clusters |-> EmptySpec]
    /\ refReady \in {TRUE, ~ByRef}
    /\ left = [lives |-> MaxLives, edits |-> MaxEdits,
               drifts |-> MaxDrifts, faults |-> MaxFaults, refs |-> MaxRefs]

Spend(k) == left[k] > 0 /\ left' = [left EXCEPT ![k] = left[k] - 1]

-----------------------------------------------------------------------------
(* Which fields the operations of sdk.go and delta.go handle.              *)

\* Fields a user can set that the code never copies from ECS: latest keeps the
\* value of desired, and a change of one of them alone makes no delta.
NotReadBack == {"Cluster", "Role", "ServiceConnectConfiguration",
                "VolumeConfigurations"}

sdkFindFields == Fields \ NotReadBack

\* newResourceDelta compares every field of the spec.
deltaFields == Fields

\* Mutant: the desired count is left out.
PayloadWithoutDesiredCount ==
    Fields \ {"DesiredCount", "LaunchType", "Name", "Role",
              "SchedulingStrategy", "Tags"}

\* newUpdateRequestPayload leaves out the fields UpdateService does not take,
\* and Tags: no other call of the service's sdkUpdate sends them.
newUpdateRequestPayloadFields ==
    Fields \ {"LaunchType", "Name", "Role", "SchedulingStrategy", "Tags"}

\* Fields sdkUpdate overwrites with what the response of UpdateService says.
sdkUpdateFields == Fields \ NotReadBack

\* Fields ECS reports even when they were never set.
AlwaysReported == {"DesiredCount", "EnableECSManagedTags",
                   "EnableExecuteCommand"}

newResourceDelta(a, b) == {f \in deltaFields : a[f] # b[f]}

\* Mutant: it is never asked for.
ForceNewDeploymentNever(delta) == FALSE

\* ECS requires ForceNewDeployment when the capacity provider strategy changes;
\* the code decides by the delta it was given.
ForceNewDeployment(delta) == "CapacityProviderStrategy" \in delta

\* sdkFind's merge of the described service into a copy of the resource.
Observe(r, ecs) ==
    [f \in Fields |-> IF f \in sdkFindFields THEN ecs[f] ELSE r[f]]

\* sdkUpdate's (and sdkCreate's) merge of the response into a copy of desired.
Merge(r, reply) ==
    [f \in Fields |-> IF f \in sdkUpdateFields THEN reply[f] ELSE r[f]]

\* CreateService as ECS runs it: every field is sent.
EcsCreate(req) ==
    [f \in Fields |-> IF f \in AlwaysReported /\ req[f] = Nil THEN 0 ELSE req[f]]

\* UpdateService as ECS runs it: what a request leaves out stays as it was.
EcsUpdate(ecs, req) ==
    [f \in Fields |->
        IF f \in newUpdateRequestPayloadFields /\ req[f] # Nil
        THEN req[f] ELSE ecs[f]]

\* Whether ECS takes the request, or answers InvalidParameterException.
EcsAccepts(ecs, req, force) ==
    ~force => \A f \in Fields \cap {"CapacityProviderStrategy"} :
                req[f] \in {Nil, ecs[f]}

\* The response to UpdateService may leave the tags out.
EcsReply(ecs) ==
    {ecs} \cup {[f \in Fields |-> IF f = "Tags" THEN Nil ELSE ecs[f]]}

-----------------------------------------------------------------------------
(* What sdkFind makes of the status DescribeServices reports.              *)

NoDrainingGuard(status) ==
    CASE status \in {"MISSING", "INACTIVE"} -> "NotFound"
      [] OTHER -> "nil"
\* Mutant: an INACTIVE service counts as found.
NoInactiveGuard(status) ==
    CASE status = "MISSING" -> "NotFound"
      [] status = "DRAINING" -> "Requeue"
      [] OTHER -> "nil"

DescribeError(status) ==
    CASE status \in {"MISSING", "INACTIVE"} -> "NotFound"
      [] status = "DRAINING" -> "Requeue"
      [] OTHER -> "nil"

\* Mutant: an unresolved reference is not an error.
ResolveIgnoringState ==
    [cluster |-> IF ByRef /\ ~refReady THEN "default" ELSE "named",
     error |-> "nil"]

\* ResolveReferences replaces clusterRef by the name of the referenced Cluster.
\* When that is missing, terminal or not synced it returns the error together
\* with the resource whose cluster is still unset, and ECS takes no cluster to
\* mean its default cluster.
ResolveReferences ==
    [cluster |-> IF ByRef /\ ~refReady THEN "default" ELSE "named",
     error |-> IF ByRef /\ ~refReady THEN "NotResolved" ELSE "nil"]

OutcomeOf(err) ==
    CASE err = "nil" -> "success"
      [] err = "Requeue" -> "requeue"
      [] err = "Terminal" -> "terminal"
      [] OTHER -> "error"

\* The runtime patches the status with the conditions c and decides on the
\* queue: errors and requeues go back, a terminal error and a success do not.
\* event tells that this step changed the spec, which the watch reports.
Finish(err, c, event) ==
    /\ pc' = "idle" /\ mode' = "sync" /\ cluster' = "named"
    /\ desired' = EmptySpec /\ latest' = EmptySpec /\ work' = NoConditions
    /\ IF crState' = "absent"
       THEN cond' = NoConditions /\ outcome' = "none" /\ queued' = FALSE
       ELSE /\ cond' = c
            /\ outcome' = OutcomeOf(err)
            /\ queued' = (queued \/ event \/ OutcomeOf(err) \in {"error", "requeue"})

\* The reconcile goes on with another call.
Continue(label) ==
    /\ pc' = label
    /\ UNCHANGED <<mode, cluster, desired, statusVars>>

\* A manager operation returned err: its conditions are written back.
FinishOnError(err) ==
    LET r == onError(work, err) IN Finish(r.error, r.conditions, FALSE)

RemoveFinalizer ==
    /\ finalizer' = FALSE
    /\ IF crState = "deleting"
       THEN crState' = "absent" /\ spec' = EmptySpec
       ELSE UNCHANGED <<crState, spec>>

-----------------------------------------------------------------------------
(* The reconcile, one action per API call.                                 *)

\* The object is read and its references are resolved.  A reference that does
\* not resolve ends a sync; a deletion goes on without it.
Begin ==
    /\ pc = "idle" /\ queued /\ crState # "absent"
    /\ IF crState = "live" /\ ResolveReferences.error # "nil"
       THEN /\ outcome' = "error"
            /\ UNCHANGED <<cond, queued, workVars>>
       ELSE /\ pc' = "find"
            /\ mode' = IF crState = "live" THEN "sync" ELSE "delete"
            /\ cluster' = ResolveReferences.cluster
            /\ desired' = spec /\ latest' = EmptySpec /\ work' = cond
            /\ queued' = FALSE
            /\ UNCHANGED <<cond, outcome>>
    /\ UNCHANGED <<crVars, ecsVars, refReady, left>>

\* Mutant: an error of DescribeServices counts as NotFound.
FindFailsAsNotFound ==
    /\ pc = "find" /\ Spend("faults")
    /\ Continue(IF mode = "sync" THEN "manage" ELSE "release")
    /\ UNCHANGED <<crVars, ecsVars, refReady, latest, work>>

\* ReadOne: DescribeServices fails.
FindFails ==
    /\ pc = "find" /\ Spend("faults")
    /\ UNCHANGED <<crVars, ecsVars, refReady>>
    /\ FinishOnError("Retryable")

\* ReadOne returns NotFound: a sync creates, a deletion is over.
FindNothing ==
    /\ pc = "find" /\ DescribeError(svcStatus[cluster]) = "NotFound"
    /\ Continue(IF mode = "sync" THEN "manage" ELSE "release")
    /\ UNCHANGED <<crVars, ecsVars, refReady, latest, work, left>>

\* ReadOne returns requeueWaitWhileDraining.
FindDraining ==
    /\ pc = "find" /\ DescribeError(svcStatus[cluster]) = "Requeue"
    /\ UNCHANGED <<crVars, ecsVars, refReady, left>>
    /\ FinishOnError("Requeue")

\* ReadOne succeeds in a sync.  Without a delta the reconcile is over, with one
\* Update follows; a service the CR did not create is left alone.
FindForSync ==
    /\ pc = "find" /\ mode = "sync"
    /\ UNCHANGED <<crVars, ecsVars, refReady, left>>
    /\ DescribeError(svcStatus[cluster]) = "nil"
    /\ LET observed == Observe(desired, svcSpec[cluster])
           c == onSuccess(work).conditions
       IN  CASE ~finalizer ->
                  Finish("Terminal", [c EXCEPT !.terminal = "True"], FALSE)
             [] finalizer /\ newResourceDelta(desired, observed) = {} ->
                  Finish("nil", c, FALSE)
             [] OTHER ->
                  /\ Continue("update")
                  /\ latest' = observed /\ work' = c

\* Mutant: the service is not scaled down first.
AlwaysDeleteAtOnce(observed) == "delete"

\* ReadOne succeeds in a deletion.  sdkDelete scales the service down first
\* when the count it observed is not zero.
FirstCallOfDelete(observed) ==
    IF observed["DesiredCount"] \notin {Nil, 0} THEN "scale" ELSE "delete"

FindForDelete ==
    /\ pc = "find" /\ mode = "delete"
    /\ DescribeError(svcStatus[cluster]) = "nil"
    /\ LET observed == Observe(desired, svcSpec[cluster])
       IN  /\ Continue(FirstCallOfDelete(observed))
           /\ latest' = observed
    /\ work' = onSuccess(work).conditions
    /\ UNCHANGED <<crVars, ecsVars, refReady, left>>

\* The runtime puts the finalizer on the object before it calls Create.
SetManaged ==
    /\ pc = "manage"
    /\ UNCHANGED <<crState, spec, ecsVars, refReady, left>>
    /\ IF crState = "absent"
       THEN Finish("Retryable", work, FALSE) /\ UNCHANGED finalizer
       ELSE /\ finalizer' = TRUE
            /\ Continue("create")
            /\ UNCHANGED <<latest, work>>

CreateService ==
    /\ pc = "create"
    /\ UNCHANGED <<crVars, refReady, left>>
    /\ IF svcStatus[cluster] \in {"MISSING", "INACTIVE"}
       THEN LET created == EcsCreate(desired)
            IN  /\ svcStatus' = [svcStatus EXCEPT ![cluster] = "ACTIVE"]
                /\ svcSpec' = [svcSpec EXCEPT ![cluster] = created]
                /\ latest' = Merge(desired, created)
                /\ work' = onSuccess(work).conditions
                /\ Continue("patch")
       ELSE FinishOnError("InvalidParameter") /\ UNCHANGED ecsVars

\* Mutant: the error is dropped.
CreateErrorDropped ==
    /\ pc = "create" /\ Spend("faults")
    /\ UNCHANGED <<crVars, ecsVars, refReady>>
    /\ Finish("nil", onSuccess(work).conditions, FALSE)

\* CreateService fails: the resource does not exist, and the runtime may take
\* its finalizer off again.
CreateFails ==
    /\ pc = "create" /\ Spend("faults")
    /\ IF Unmanages THEN RemoveFinalizer ELSE UNCHANGED crVars
    /\ FinishOnError("Retryable")
    /\ UNCHANGED <<ecsVars, refReady>>

\* CreateService succeeds and its reply is lost.  Only a runtime that keeps the
\* finalizer survives this one.
CreateReplyLost ==
    /\ pc = "create" /\ ~Unmanages /\ Spend("faults")
    /\ svcStatus[cluster] \in {"MISSING", "INACTIVE"}
    /\ svcStatus' = [svcStatus EXCEPT ![cluster] = "ACTIVE"]
    /\ svcSpec' = [svcSpec EXCEPT ![cluster] = EcsCreate(desired)]
    /\ UNCHANGED <<crVars, refReady>>
    /\ FinishOnError("Retryable")

UpdateAccepted ==
    LET delta == newResourceDelta(desired, latest)
    IN  /\ svcStatus[cluster] = "ACTIVE"
        /\ EcsAccepts(svcSpec[cluster], desired, ForceNewDeployment(delta))

UpdateService ==
    /\ pc = "update"
    /\ UNCHANGED <<crVars, svcStatus, refReady, left>>
    /\ IF UpdateAccepted
       THEN LET updated == EcsUpdate(svcSpec[cluster], desired)
            IN  /\ svcSpec' = [svcSpec EXCEPT ![cluster] = updated]
                /\ \E reply \in EcsReply(updated) :
                      latest' = Merge(desired, reply)
                /\ work' = onSuccess(work).conditions
                /\ Continue("patch")
       ELSE /\ FinishOnError(IF svcStatus[cluster] = "ACTIVE"
                             THEN "InvalidParameter" ELSE "Retryable")
            /\ UNCHANGED svcSpec

\* UpdateService fails, before or after ECS has done what it asks for.
UpdateFails ==
    /\ pc = "update" /\ Spend("faults")
    /\ \/ UNCHANGED svcSpec
       \/ /\ UpdateAccepted
          /\ svcSpec' = [svcSpec EXCEPT ![cluster] =
                            EcsUpdate(svcSpec[cluster], desired)]
    /\ UNCHANGED <<crVars, svcStatus, refReady>>
    /\ FinishOnError("Retryable")

\* The runtime patches the object with what latest and desired differ in, and
\* the status.  Fields they agree on keep what the user wrote meanwhile.
PatchSpec ==
    /\ pc = "patch"
    /\ spec' = [f \in Fields |->
                   IF latest[f] # desired[f] THEN latest[f] ELSE spec[f]]
    /\ UNCHANGED <<crState, finalizer, ecsVars, refReady, left>>
    /\ Finish("nil", work, spec' # spec)

PatchFails ==
    /\ pc = "patch" /\ Spend("faults")
    /\ UNCHANGED <<crVars, ecsVars, refReady>>
    /\ Finish("Retryable", work, FALSE)

\* sdkDelete's UpdateService with DesiredCount 0.
ScaleDown ==
    /\ pc = "scale"
    /\ UNCHANGED <<crVars, svcStatus, refReady, left>>
    /\ IF svcStatus[cluster] = "ACTIVE"
       THEN /\ svcSpec' = [svcSpec EXCEPT ![cluster]["DesiredCount"] = 0]
            /\ Continue("delete")
            /\ UNCHANGED <<latest, work>>
       ELSE FinishOnError("Retryable") /\ UNCHANGED svcSpec

ScaleDownFails ==
    /\ pc = "scale" /\ Spend("faults")
    /\ UNCHANGED <<crVars, svcStatus, refReady>>
    /\ \/ UNCHANGED svcSpec
       \/ svcSpec' = [svcSpec EXCEPT ![cluster]["DesiredCount"] = 0]
    /\ FinishOnError("Retryable")

\* ECS refuses to delete a service that is scaled above 0.
DeleteService ==
    /\ pc = "delete"
    /\ UNCHANGED <<crVars, svcSpec, refReady, left>>
    /\ IF svcStatus[cluster] = "ACTIVE" /\ svcSpec[cluster]["DesiredCount"] \in {Nil, 0}
       THEN /\ svcStatus' = [svcStatus EXCEPT ![cluster] = "DRAINING"]
            /\ Continue("release")
            /\ UNCHANGED <<latest, work>>
       ELSE /\ FinishOnError(IF svcStatus[cluster] = "ACTIVE"
                             THEN "InvalidParameter" ELSE "Retryable")
            /\ UNCHANGED svcStatus

DeleteFails ==
    /\ pc = "delete" /\ Spend("faults")
    /\ UNCHANGED <<crVars, svcSpec, refReady>>
    /\ \/ UNCHANGED svcStatus
       \/ /\ svcStatus[cluster] = "ACTIVE"
          /\ svcSpec[cluster]["DesiredCount"] \in {Nil, 0}
          /\ svcStatus' = [svcStatus EXCEPT ![cluster] = "DRAINING"]
    /\ FinishOnError("Retryable")

\* Delete returned no error, or nothing was found: the finalizer comes off at
\* once, and the object is gone.
Release ==
    /\ pc = "release"
    /\ RemoveFinalizer
    /\ UNCHANGED <<ecsVars, refReady, left>>
    /\ Finish("nil", work, FALSE)

ReleaseFails ==
    /\ pc = "release" /\ Spend("faults")
    /\ UNCHANGED <<crVars, ecsVars, refReady>>
    /\ Finish("Retryable", work, FALSE)

Reconcile ==
    \/ Begin
    \/ FindFails \/ FindNothing \/ FindDraining \/ FindForSync \/ FindForDelete
    \/ SetManaged \/ CreateService \/ CreateFails \/ CreateReplyLost
    \/ UpdateService \/ UpdateFails \/ PatchSpec \/ PatchFails
    \/ ScaleDown \/ ScaleDownFails \/ DeleteService \/ DeleteFails
    \/ Release \/ ReleaseFails

-----------------------------------------------------------------------------
(* Restart, resync, the user and ECS.                                      *)

\* The controller stops anywhere and, restarted, lists every object again.
Crash ==
    /\ Spend("faults")
    /\ pc # "idle"
    /\ pc' = "idle" /\ mode' = "sync" /\ cluster' = "named"
    /\ desired' = EmptySpec /\ latest' = EmptySpec /\ work' = NoConditions
    /\ queued' = (crState # "absent")
    /\ UNCHANGED <<crVars, cond, outcome, ecsVars, refReady>>

\* defaultResyncPeriod: an object that reconciled is queued again in the end.
Resync ==
    /\ pc = "idle" /\ crState = "live" /\ outcome = "success" /\ ~queued
    /\ queued' = TRUE
    /\ UNCHANGED <<crVars, cond, outcome, workVars, ecsVars, refReady, left>>

UserCreates ==
    /\ crState = "absent" /\ Spend("lives")
    /\ crState' = "live" /\ spec' \in Specs /\ queued' = TRUE
    /\ UNCHANGED <<finalizer, cond, outcome, workVars, ecsVars, refReady>>

UserEdits ==
    /\ crState = "live" /\ Spend("edits")
    /\ \E f \in Fields, v \in Values \cup {Nil} :
          v # spec[f] /\ spec' = [spec EXCEPT ![f] = v]
    /\ queued' = TRUE
    /\ UNCHANGED <<crState, finalizer, cond, outcome, workVars, ecsVars, refReady>>

\* Without a finalizer the object is gone at once.
UserDeletes ==
    /\ crState = "live"
    /\ IF finalizer
       THEN /\ crState' = "deleting" /\ queued' = TRUE
            /\ UNCHANGED <<spec, cond, outcome>>
       ELSE /\ crState' = "absent" /\ queued' = FALSE
            /\ spec' = EmptySpec /\ cond' = NoConditions /\ outcome' = "none"
    /\ UNCHANGED <<finalizer, workVars, ecsVars, refReady, left>>

Drift ==
    /\ Spend("drifts")
    /\ \E c \in Clusters, f \in DriftFields, v \in Values :
          /\ svcStatus[c] = "ACTIVE" /\ svcSpec[c][f] # v
          /\ svcSpec' = [svcSpec EXCEPT ![c][f] = v]
    /\ UNCHANGED <<crVars, statusVars, workVars, svcStatus, refReady>>

OthersDeleteService ==
    /\ OthersDelete /\ Spend("drifts")
    /\ svcStatus["named"] = "ACTIVE"
    /\ svcStatus' = [svcStatus EXCEPT !["named"] = "DRAINING"]
    /\ UNCHANGED <<crVars, statusVars, workVars, svcSpec, refReady>>

\* The tasks of a deleted service have stopped; later ECS forgets the service.
Drained ==
    /\ \E c \in Clusters :
          /\ svcStatus[c] = "DRAINING"
          /\ svcStatus' = [svcStatus EXCEPT ![c] = "INACTIVE"]
    /\ UNCHANGED <<crVars, statusVars, workVars, svcSpec, refReady, left>>

Forgotten ==
    /\ \E c \in Clusters :
          /\ svcStatus[c] = "INACTIVE"
          /\ svcStatus' = [svcStatus EXCEPT ![c] = "MISSING"]
          /\ svcSpec' = [svcSpec EXCEPT ![c] = EmptySpec]
    /\ UNCHANGED <<crVars, statusVars, workVars, refReady, left>>

ReferenceChanges ==
    /\ ByRef /\ Spend("refs")
    /\ refReady' = ~refReady
    /\ UNCHANGED <<crVars, statusVars, workVars, ecsVars>>

Environment ==
    \/ Crash \/ Resync
    \/ UserCreates \/ UserEdits \/ UserDeletes
    \/ Drift \/ OthersDeleteService \/ Drained \/ Forgotten \/ ReferenceChanges

Next == Reconcile \/ Environment

Spec == Init /\ [][Next]_vars

\* The worker runs what is queued, the resync timer fires, and ECS stops the
\* tasks of a deleted service.  Nothing is assumed of the user or of faults.
Fairness == WF_vars(Reconcile) /\ WF_vars(Resync) /\ WF_vars(Drained)

FairSpec == Spec /\ Fairness

-----------------------------------------------------------------------------
(* Properties.                                                             *)

\* An active ECS service always has its object, and the object its finalizer:
\* whatever fails, crashes or is deleted in whatever order, no service is left
\* running that nobody can delete through Kubernetes.
NoOrphan ==
    \A c \in Clusters : svcStatus[c] = "ACTIVE" => crState # "absent" /\ finalizer

\* A reconcile that ended well leaves an active service behind, also when the
\* object was deleted and created again while the old service still drained:
\* what sdkFind's two status guards are for.
SyncedMeansActive ==
    outcome = "success" /\ crState = "live" => svcStatus["named"] = "ACTIVE"

\* After a reconcile that ended well no condition reports a failure, however
\* many failures came before it.
CleanAfterSuccess ==
    outcome = "success" => cond.terminal # "True" /\ cond.recoverable # "True"

\* A terminal error ends the retries, so the controller must not run into one by
\* itself: only a change made in ECS behind its back, between a read and the
\* call that rests on it, can make ECS reject one of its calls.
TerminalOnlyByDrift ==
    left["drifts"] = MaxDrifts => outcome # "terminal"

\* The settings that UpdateService takes and DescribeServices reports.
SyncedFields ==
    Fields \ {"Cluster", "LaunchType", "Name", "Role", "SchedulingStrategy",
              "ServiceConnectConfiguration", "Tags", "VolumeConfigurations"}

\* The spec patch that ends an update leaves every setting as the user wrote it,
\* before or while the reconcile ran, if it was set when the reconcile read it:
\* together with SpecReachesECS, what the user writes is what ECS gets, or rejects.
UserEditSurvives ==
    [][pc = "patch" /\ pc' = "idle" =>
         \A f \in SyncedFields : desired[f] # Nil => spec'[f] = spec[f]]_vars

\* Calls of a sync never go to ECS's default cluster, even while the reference to
\* the cluster does not resolve.
NothingInDefaultCluster == svcStatus["default"] = "MISSING"

\* The object's life and the service's follow the contract of ManagedResource.
Lifecycle == INSTANCE ManagedResource WITH
    object <- crState, held <- finalizer,
    exists <- \E c \in Clusters : svcStatus[c] = "ACTIVE"

ImplementsLifecycle == Lifecycle!Spec

\* A change made in ECS behind the controller's back, such as a strategy that others
\* set between ReadOne and UpdateService, had ECS reject a call, and nothing but an
\* edit makes the controller try again.
EndedByDrift == outcome = "terminal" /\ left["drifts"] < MaxDrifts

\* Once edits, drift and faults stop and the cluster resolves, every field the
\* code reads, compares and sends has in ECS the value the user gave it, on an
\* active service, unless drift has made the object terminal.
SpecReachesECS ==
    <>[](crState = "live" /\ refReady /\ ~EndedByDrift =>
           /\ svcStatus["named"] = "ACTIVE"
           /\ \A f \in SyncedFields : spec[f] \in {Nil, svcSpec["named"][f]})

\* A deletion comes to its end, unless drift had ECS reject a call of it for good.
DeletionCompletes ==
    crState = "deleting" ~> crState = "absent" \/ EndedByDrift

\* pkg/tags/sync.go: "the set of associated Tags stays in sync with
\* Resource.Spec.Tags".  The spec patch that ends an update leaves alone the tags
\* the user wrote and the service does not have yet.
TagEditIsKept ==
    [][\A f \in Fields \cap {"Tags"} :
         pc = "patch" /\ spec[f] # Nil /\ svcSpec[cluster][f] # spec[f]
            => spec'[f] = spec[f]]_vars
=============================================================================
