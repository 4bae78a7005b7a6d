-------------------------- MODULE ServiceInCluster --------------------------
(***************************************************************************)
(* A Service custom resource that names its cluster by clusterRef, the     *)
(* Cluster custom resource it refers to, and the two resource managers.    *)
(*                                                                         *)
(* ServiceManager and ClusterManager each see the other through one        *)
(* variable of their own: whether the reference resolves, and whether      *)
(* services run in the cluster.  Here both are what the other's state      *)
(* makes of them.  The managers run in one process and interleave call by  *)
(* call; the user may create and delete the two objects in any order.      *)
(***************************************************************************)
EXTENDS Naturals

CONSTANTS
    Nil, NoTag, Bare, Huge,   \* as in ServiceManager and ClusterManager
    MaxLives, MaxFaults,      \* bounds of the Service's environment
    MaxEvents                 \* bound of the Cluster's environment

VARIABLES
    \* The Service object, its reconcile and the services in ECS.
    svcState, svcFinalizer, spec, cond, svcOutcome, svcQueued,
    svcPc, svcMode, cluster, svcDesired, svcLatest, work, svcStatus, svcSpec, left,
    \* The Cluster object, its reconcile and the cluster in ECS.
    cluState, cluFinalizer, ko, cluOutcome, cluQueued,
    cluPc, cluMode, cluDesired, cluLatest, cluStatus, ecs, events,
    synced      \* whether its condition ACK.ResourceSynced is True

svcVars == <<svcState, svcFinalizer, spec, cond, svcOutcome, svcQueued, svcPc,
             svcMode, cluster, svcDesired, svcLatest, work, svcStatus, svcSpec, left>>
cluVars == <<cluState, cluFinalizer, ko, cluOutcome, cluQueued, cluPc, cluMode,
             cluDesired, cluLatest, cluStatus, ecs, events, synced>>
vars == <<svcVars, cluVars>>

-----------------------------------------------------------------------------
(* What each of the two sees of the other.                                 *)

\* getReferencedResourceState_Cluster: the Cluster object is there and synced;
\* that it is being deleted does not matter.
ReferenceResolves == cluState # "absent" /\ synced

\* ECS counts a service as long as it is active or its tasks are stopping.
Occupied == svcStatus["named"] \in {"ACTIVE", "DRAINING"}

Service == INSTANCE ServiceManager WITH
    crState <- svcState, finalizer <- svcFinalizer, outcome <- svcOutcome,
    queued <- svcQueued, pc <- svcPc, mode <- svcMode,
    desired <- svcDesired, latest <- svcLatest, refReady <- ReferenceResolves,
    Fields <- {"DesiredCount"}, Values <- {0, 1}, ByRef <- TRUE, Unmanages <- FALSE,
    DriftFields <- {}, OthersDelete <- FALSE,
    MaxEdits <- 0, MaxDrifts <- 0, MaxRefs <- 0

Cluster == INSTANCE ClusterManager WITH
    crState <- cluState, finalizer <- cluFinalizer, outcome <- cluOutcome,
    queued <- cluQueued, pc <- cluPc, mode <- cluMode,
    desired <- cluDesired, latest <- cluLatest, status <- cluStatus,
    occupied <- Occupied, refReady <- {},
    Settings <- {0}, Providers <- {}, ByRef <- FALSE,
    RepliesWithoutTags <- FALSE, Unmanages <- FALSE,
    UserKeys <- {}, ControllerKey <- "services.k8s.aws", AwsKey <- "aws:",
    TagValues <- {"v"}, ControllerTag <- "v"

Init ==
    /\ svcStatus = [c \in {"named", "default"} |-> "MISSING"]
    /\ synced = FALSE
    /\ Cluster!Init
    /\ Service!Init

-----------------------------------------------------------------------------
(* The reconciles.                                                         *)

\* Every call of the service's manager names a cluster.
CallsECS == svcPc \in {"find", "create", "update", "scale", "delete"}

ClusterThere == cluster = "default" \/ cluStatus = "ACTIVE"

ReconcileService ==
    /\ CallsECS => ClusterThere
    /\ UNCHANGED cluVars
    /\ Service!Reconcile

\* Mutant: ClusterNotFoundException is listed as a terminal error.
ClusterNotFoundIsTerminal ==
    /\ CallsECS /\ ~ClusterThere
    /\ UNCHANGED <<cluVars, svcState, svcFinalizer, spec, svcStatus, svcSpec, left>>
    /\ Service!FinishOnError("InvalidParameter")

\* ECS answers ClusterNotFoundException, which sdkFind does not take for NotFound
\* and terminalAWSError does not list.
ClusterNotFound ==
    /\ CallsECS /\ ~ClusterThere
    /\ UNCHANGED <<cluVars, svcState, svcFinalizer, spec, svcStatus, svcSpec, left>>
    /\ Service!FinishOnError("Retryable")

\* What a step of the cluster's manager makes of the condition.  Whether a failed
\* reconcile takes it back is the runtime's affair: it may, or the condition of an
\* earlier one stays, as when the status patch fails, too.
SyncedAfter ==
    CASE cluState' = "absent" -> {FALSE}
      [] cluState' # "absent" /\ cluPc' # "idle" -> {synced}
      [] cluState' # "absent" /\ cluPc' = "idle" ->
           CASE cluOutcome' = "success" -> {TRUE}
             [] cluOutcome' = "terminal" -> {FALSE}
             [] OTHER -> {synced, FALSE}

ReconcileCluster ==
    /\ UNCHANGED svcVars
    /\ Cluster!Reconcile
    /\ synced' \in SyncedAfter

-----------------------------------------------------------------------------
(* Restart, resync, the user and ECS.                                      *)

\* The one process stops and, restarted, lists every object again.
Crash ==
    /\ UNCHANGED <<cluState, synced, svcStatus>>
    /\ \/ Cluster!Crash /\ Service!Crash
       \/ /\ cluPc = "idle" /\ Service!Crash /\ UNCHANGED cluOutcome
          /\ cluQueued' = (cluState # "absent")
          /\ UNCHANGED <<cluFinalizer, ko, cluPc, cluMode, cluDesired, cluLatest,
                         cluStatus, ecs, events>>
       \/ /\ svcPc = "idle" /\ Cluster!Crash
          /\ svcQueued' = (svcState # "absent")
          /\ UNCHANGED <<svcState, svcFinalizer, spec, cond, svcOutcome, svcPc,
                         svcMode, cluster, svcDesired, svcLatest, work, svcSpec, left>>

Resync ==
    \/ UNCHANGED cluVars /\ Service!Resync
    \/ UNCHANGED <<svcVars, synced>> /\ Cluster!Resync

UserCreates ==
    \/ UNCHANGED cluVars /\ Service!UserCreates
    \/ UNCHANGED <<svcVars, synced>> /\ Cluster!UserCreates

UserDeletes ==
    \/ UNCHANGED cluVars /\ Service!UserDeletes
    \/ /\ UNCHANGED svcVars /\ Cluster!UserDeletes
       /\ synced' = (cluState' # "absent" /\ synced)

Drained == UNCHANGED cluVars /\ Service!Drained

Forgotten ==
    \/ UNCHANGED cluVars /\ Service!Forgotten
    \/ UNCHANGED <<svcVars, synced>> /\ Cluster!Forgotten

Next ==
    \/ ReconcileService \/ ClusterNotFound \/ ReconcileCluster
    \/ Crash \/ Resync \/ UserCreates \/ UserDeletes \/ Drained \/ Forgotten

Spec == Init /\ [][Next]_vars

\* Each kind has its worker, which runs what is queued; the resync timer fires and
\* ECS stops the tasks of deleted services.
Fairness ==
    /\ WF_vars(ReconcileService \/ ClusterNotFound) /\ WF_vars(ReconcileCluster)
    /\ WF_vars(UNCHANGED cluVars /\ Service!Resync)
    /\ WF_vars(UNCHANGED <<svcVars, synced>> /\ Cluster!Resync)
    /\ WF_vars(Drained)

FairSpec == Spec /\ Fairness

-----------------------------------------------------------------------------
(* Properties.                                                             *)

\* The Cluster object stays, under its finalizer, as long as a service is active in
\* its cluster, whoever deletes what first and whichever call fails.
ClusterOutlivesService ==
    svcStatus["named"] = "ACTIVE" => cluState # "absent" /\ cluFinalizer

\* Created in any order, the two end up as a service in its cluster: until the
\* reference resolves, the Service object waits.
InstallCompletes ==
    <>[](svcState = "live" /\ cluState = "live"
           => svcStatus["named"] = "ACTIVE")

\* A service that is left running without its object.
Orphaned == svcStatus["named"] = "ACTIVE" /\ svcState = "absent"

\* When both are deleted, the Cluster object goes in the end, though ECS refuses
\* DeleteCluster as long as the service runs or its tasks are stopping; only an
\* orphaned service, or a Service object that is created again, keeps it.
UninstallCompletes ==
    (cluState = "deleting" /\ svcState # "live")
      ~> (cluState = "absent" \/ svcState = "live" \/ Orphaned)
=============================================================================
