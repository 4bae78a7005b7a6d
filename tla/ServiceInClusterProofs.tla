----------------------- MODULE ServiceInClusterProofs -----------------------
(***************************************************************************)
(* Proofs about the two managers together, for every bound of the          *)
(* environments: what the Cluster's manager promises it keeps beside the   *)
(* Service's, and no service outlives the object of its cluster.           *)
(***************************************************************************)
EXTENDS ServiceInCluster, TLAPS

\* The types the argument needs: what the objects, the calls and ECS are at.
Types ==
    /\ cluState \in {"absent", "live", "deleting"}
    /\ cluPc \in Cluster!PCs
    /\ cluMode \in {"sync", "delete"}
    /\ cluStatus \in Cluster!ClusterStatuses
    /\ svcState \in {"absent", "live", "deleting"}
    /\ svcPc \in Service!PCs
    /\ svcMode \in {"sync", "delete"}
    /\ cluster \in Service!Clusters
    /\ svcStatus \in [Service!Clusters -> Service!ServiceStatuses]

\* The finalizer holds the Cluster object for as long as the cluster may be used.
HoldInv ==
    /\ cluState = "deleting" => cluFinalizer
    /\ cluState = "absent" => ~cluFinalizer
    /\ Cluster!Exists => cluFinalizer
    /\ cluState = "live" /\ cluFinalizer => cluStatus # "DEPROVISIONING"

\* What a reconcile of the Cluster that has come to a call may rely on.
PhaseInv ==
    /\ cluPc \in {"idle", "manage", "create", "patch"} \cup Cluster!UpdateCalls
         => cluMode = "sync"
    /\ cluPc \in {"delete", "release"} => cluMode = "delete"
    /\ cluMode = "delete" => cluState = "deleting"
    /\ cluPc = "find" /\ cluMode = "sync" /\ cluFinalizer
         => cluStatus # "DEPROVISIONING"
    /\ cluPc = "create" => cluFinalizer
    /\ cluPc \in {"manage", "create"} => cluStatus \in {"MISSING", "INACTIVE"}
    /\ cluPc \in Cluster!UpdateCalls => Cluster!Exists
    /\ cluPc = "release" => ~Cluster!Exists

\* The same for the Service.  Only a deletion may go to the default cluster.
ServiceInv ==
    /\ svcPc \in {"idle", "manage", "create", "update", "patch"} => svcMode = "sync"
    /\ svcPc \in {"scale", "delete", "release"} => svcMode = "delete"
    /\ svcMode = "sync" => cluster = "named"
    /\ svcMode = "delete" => svcState = "deleting"
    /\ svcPc = "release" /\ cluster = "named" => svcStatus["named"] # "ACTIVE"
    /\ svcStatus["default"] = "MISSING"

\* An active service is in a cluster that is there.
Housed == svcStatus["named"] = "ACTIVE" => Cluster!Exists

IInv == Types /\ HoldInv /\ PhaseInv /\ ServiceInv /\ Housed

-----------------------------------------------------------------------------
(* What the operations of the Cluster's manager do to its variables.       *)

\* The end of a reconcile of the Cluster.
LEMMA EndEffect ==
    ASSUME NEW err, Cluster!End(err)
    PROVE  cluPc' = "idle" /\ cluMode' = "sync"
BY DEF Cluster!End

\* The same for an operation whose result is written to the status.
LEMMA FinishEffect ==
    ASSUME NEW err, NEW r, Cluster!Finish(err, r)
    PROVE  /\ cluPc' = "idle" /\ cluMode' = "sync"
           /\ cluState' = cluState /\ cluFinalizer' = cluFinalizer
BY EndEffect DEF Cluster!Finish

\* A creation that returned no resource ends like one that returned an error.
LEMMA CreateEndsEffect ==
    ASSUME NEW err, Cluster!CreateEnds(err)
    PROVE  /\ cluPc' = "idle" /\ cluMode' = "sync"
           /\ cluState' = cluState /\ cluFinalizer' = cluFinalizer
BY FinishEffect DEF Cluster!CreateEnds

\* The first of several calls is one of them.
LEMMA FirstOfType ==
    ASSUME NEW calls \in SUBSET Cluster!UpdateCalls, calls # {}
    PROVE  Cluster!FirstOf(calls) \in calls
<1>1. /\ Cluster!CallOrder["tag"] = 1 /\ Cluster!CallOrder["untag"] = 2
      /\ Cluster!CallOrder["put"] = 3 /\ Cluster!CallOrder["update"] = 4
  BY DEF Cluster!CallOrder
<1>2. \E c \in calls : \A e \in calls : Cluster!CallOrder[c] <= Cluster!CallOrder[e]
  <2>1. CASE "tag" \in calls
    BY <1>1, <2>1 DEF Cluster!UpdateCalls
  <2>2. CASE "tag" \notin calls /\ "untag" \in calls
    BY <1>1, <2>2 DEF Cluster!UpdateCalls
  <2>3. CASE calls \cap {"tag", "untag"} = {} /\ "put" \in calls
    BY <1>1, <2>3 DEF Cluster!UpdateCalls
  <2>4. CASE calls = {"update"}
    BY <2>4, <1>1
  <2>5. calls = {"update"} \/ calls \cap {"tag", "untag", "put"} # {}
    BY DEF Cluster!UpdateCalls
  <2> QED  BY <2>1, <2>2, <2>3, <2>4, <2>5
<1> QED  BY <1>2 DEF Cluster!FirstOf

\* After a call the update goes on with another one or is done.
LEMMA ContinueUpdateEffect ==
    ASSUME NEW done, Cluster!ContinueUpdate(done)
    PROVE  /\ cluPc' \in Cluster!UpdateCalls \cup {"patch"}
           /\ UNCHANGED <<cluState, cluFinalizer, cluMode>>
<1> DEFINE calls == Cluster!NextCalls(cluDesired, cluLatest, done)
<1>1. calls \in SUBSET Cluster!UpdateCalls
  BY DEF Cluster!NextCalls, Cluster!CallsOfUpdate
<1>2. CASE calls # {}
  BY <1>1, <1>2, FirstOfType DEF Cluster!ContinueUpdate, Cluster!Continue, Cluster!crVars
<1>3. CASE calls = {}
  BY <1>3 DEF Cluster!ContinueUpdate, Cluster!Continue, Cluster!crVars
<1> QED  BY <1>2, <1>3

\* ReadOne in a sync leads to an end, or to the first call of an update.
LEMMA FindForSyncEffect ==
    ASSUME Cluster!FindForSync
    PROVE  /\ cluPc = "find" /\ cluMode = "sync" /\ Cluster!Found(cluStatus)
           /\ cluMode' = "sync"
           /\ cluPc' = "idle" \/ (cluPc' \in Cluster!UpdateCalls /\ cluFinalizer)
           /\ UNCHANGED <<cluState, cluFinalizer, cluStatus>>
<1> DEFINE observed == Cluster!Merge(ecs)
           d == [cluDesired EXCEPT !.Tags = Cluster!mirrorAWSTags(@, observed.Tags)]
           calls == Cluster!NextCalls(d, observed, "find")
<1>1. calls \in SUBSET Cluster!UpdateCalls
  BY DEF Cluster!NextCalls, Cluster!CallsOfUpdate
<1>2. CASE ~cluFinalizer
  BY <1>2, FinishEffect DEF Cluster!FindForSync, Cluster!ecsVars
<1>3. CASE cluFinalizer /\ calls = {}
  BY <1>3, FinishEffect DEF Cluster!FindForSync, Cluster!ecsVars
<1>4. CASE cluFinalizer /\ calls # {}
  <2>1. Cluster!FirstOf(calls) \in calls
    BY <1>1, <1>4, FirstOfType
  <2> QED  BY <1>1, <1>4, <2>1 DEF Cluster!FindForSync, Cluster!ecsVars, Cluster!crVars
<1> QED  BY <1>2, <1>3, <1>4

\* Every call of the Cluster's manager keeps what holds of the Cluster, and takes the
\* cluster away only when no service is in it.
LEMMA ReconcileClusterStep ==
    ASSUME Types, HoldInv, PhaseInv, Cluster!Reconcile
    PROVE  /\ cluState' \in {"absent", "live", "deleting"} /\ cluPc' \in Cluster!PCs
           /\ cluMode' \in {"sync", "delete"} /\ cluStatus' \in Cluster!ClusterStatuses
           /\ HoldInv' /\ PhaseInv'
           /\ Cluster!Exists /\ Occupied => Cluster!Exists'
<1> USE DEF Types, HoldInv, PhaseInv, Cluster!Exists, Cluster!PCs, Cluster!UpdateCalls,
        Cluster!ClusterStatuses, Cluster!crVars, Cluster!statusVars, Cluster!workVars,
        Cluster!ecsVars
<1>1. CASE Cluster!Begin
  BY <1>1 DEF Cluster!Begin
<1>2. CASE Cluster!FindFails
  BY <1>2, FinishEffect DEF Cluster!FindFails
<1>3. CASE Cluster!FindNothing
  BY <1>3 DEF Cluster!FindNothing, Cluster!Continue, Cluster!Found
<1>4. CASE Cluster!FindForSync
  BY <1>4, FindForSyncEffect DEF Cluster!Found
<1>5. CASE Cluster!FindForDelete
  BY <1>5 DEF Cluster!FindForDelete, Cluster!Continue
<1>6. CASE Cluster!SetManaged
  BY <1>6, FinishEffect DEF Cluster!SetManaged
<1>7. CASE Cluster!CreateCluster
  BY <1>7, CreateEndsEffect DEF Cluster!CreateCluster, Cluster!EcsCreates, Cluster!Continue
<1>8. CASE Cluster!CreateFails
  BY <1>8, CreateEndsEffect DEF Cluster!CreateFails
<1>9. CASE Cluster!CreateReplyLost
  BY <1>9, FinishEffect DEF Cluster!CreateReplyLost, Cluster!EcsCreates
<1>10. CASE Cluster!TagResource
  BY <1>10, ContinueUpdateEffect DEF Cluster!TagResource, Cluster!EcsDoes
<1>11. CASE Cluster!UntagResource
  BY <1>11, ContinueUpdateEffect DEF Cluster!UntagResource, Cluster!EcsDoes
<1>12. CASE Cluster!SyncTagsPanics
  BY <1>12, EndEffect DEF Cluster!SyncTagsPanics
<1>13. CASE Cluster!PutClusterCapacityProviders
  BY <1>13, ContinueUpdateEffect
  DEF Cluster!PutClusterCapacityProviders, Cluster!EcsDoes
<1>14. CASE Cluster!UpdateCluster
  BY <1>14 DEF Cluster!UpdateCluster, Cluster!EcsDoes, Cluster!Continue
<1>15. CASE Cluster!UpdateRefused
  BY <1>15, FinishEffect DEF Cluster!UpdateRefused
<1>16. CASE Cluster!UpdateFails
  BY <1>16, FinishEffect DEF Cluster!UpdateFails, Cluster!EcsDoes
<1>17. CASE Cluster!PatchSpec
  BY <1>17, EndEffect DEF Cluster!PatchSpec
<1>18. CASE Cluster!PatchFails
  BY <1>18, EndEffect DEF Cluster!PatchFails
<1>19. CASE Cluster!DeleteCluster
  BY <1>19, FinishEffect
  DEF Cluster!DeleteCluster, Cluster!EcsDeletes, Cluster!Deletable, Cluster!Continue
<1>20. CASE Cluster!DeleteFails
  BY <1>20, FinishEffect DEF Cluster!DeleteFails, Cluster!EcsDeletes, Cluster!Deletable
<1>21. CASE Cluster!Release
  BY <1>21, EndEffect DEF Cluster!Release, Cluster!RemoveFinalizer
<1>22. CASE Cluster!ReleaseFails
  BY <1>22, EndEffect DEF Cluster!ReleaseFails
<1> QED
  BY <1>1, <1>2, <1>3, <1>4, <1>5, <1>6, <1>7, <1>8, <1>9, <1>10, <1>11, <1>12,
     <1>13, <1>14, <1>15, <1>16, <1>17, <1>18, <1>19, <1>20, <1>21, <1>22
  DEF Cluster!Reconcile

\* So does what happens to the Cluster from outside.
LEMMA EnvironmentOfClusterStep ==
    ASSUME Types, HoldInv, PhaseInv,
           \/ Cluster!Crash \/ Cluster!Resync \/ Cluster!UserCreates
           \/ Cluster!UserDeletes \/ Cluster!Forgotten
    PROVE  /\ cluState' \in {"absent", "live", "deleting"} /\ cluPc' \in Cluster!PCs
           /\ cluMode' \in {"sync", "delete"} /\ cluStatus' \in Cluster!ClusterStatuses
           /\ HoldInv' /\ PhaseInv'
           /\ Cluster!Exists => Cluster!Exists'
<1> USE DEF Types, HoldInv, PhaseInv, Cluster!Exists, Cluster!PCs, Cluster!UpdateCalls,
        Cluster!ClusterStatuses, Cluster!crVars, Cluster!statusVars, Cluster!workVars,
        Cluster!ecsVars
<1>1. CASE Cluster!Crash
  BY <1>1 DEF Cluster!Crash
<1>2. CASE Cluster!Resync
  BY <1>2 DEF Cluster!Resync
<1>3. CASE Cluster!UserCreates
  BY <1>3 DEF Cluster!UserCreates
<1>4. CASE Cluster!UserDeletes
  BY <1>4 DEF Cluster!UserDeletes
<1>5. CASE Cluster!Forgotten
  BY <1>5 DEF Cluster!Forgotten
<1> QED
  BY <1>1, <1>2, <1>3, <1>4, <1>5

-----------------------------------------------------------------------------
(* The Service's manager beside it.                                        *)

\* The end of a reconcile of the Service.
LEMMA ServiceFinishEffect ==
    ASSUME NEW err, NEW c, NEW event, Service!Finish(err, c, event)
    PROVE  svcPc' = "idle" /\ svcMode' = "sync" /\ cluster' = "named"
BY DEF Service!Finish

\* The same for an operation that failed.
LEMMA FinishOnErrorEffect ==
    ASSUME NEW err, Service!FinishOnError(err)
    PROVE  svcPc' = "idle" /\ svcMode' = "sync" /\ cluster' = "named"
BY ServiceFinishEffect DEF Service!FinishOnError

\* What a step of the Service's manager does to the service: it starts one only in
\* the cluster it names, and lets go of the object only when none is active there or
\* the reference did not resolve.
LEMMA ReconcileServiceStep ==
    ASSUME Types, ServiceInv, Service!Reconcile
    PROVE  /\ svcState' \in {"absent", "live", "deleting"} /\ svcPc' \in Service!PCs
           /\ svcMode' \in {"sync", "delete"} /\ cluster' \in Service!Clusters
           /\ svcStatus' \in [Service!Clusters -> Service!ServiceStatuses]
           /\ ServiceInv'
           /\ svcStatus'["named"] = "ACTIVE" =>
                 svcStatus["named"] = "ACTIVE" \/ (svcPc = "create" /\ cluster = "named")
           /\ svcFinalizer /\ ~svcFinalizer' /\ cluster = "named" =>
                 svcStatus["named"] # "ACTIVE"
<1> USE DEF Types, ServiceInv, Service!PCs, Service!Clusters, Service!ServiceStatuses,
        Service!crVars, Service!statusVars, Service!workVars, Service!ecsVars
<1>1. CASE Service!Begin
  BY <1>1 DEF Service!Begin, Service!ResolveReferences
<1>2. CASE Service!FindFails
  BY <1>2, FinishOnErrorEffect DEF Service!FindFails
<1>3. CASE Service!FindNothing
  BY <1>3 DEF Service!FindNothing, Service!DescribeError, Service!Continue
<1>4. CASE Service!FindDraining
  BY <1>4, FinishOnErrorEffect DEF Service!FindDraining
<1>5. CASE Service!FindForSync
  BY <1>5, ServiceFinishEffect DEF Service!FindForSync, Service!Continue
<1>6. CASE Service!FindForDelete
  BY <1>6 DEF Service!FindForDelete, Service!FirstCallOfDelete, Service!Continue
<1>7. CASE Service!SetManaged
  BY <1>7, ServiceFinishEffect DEF Service!SetManaged, Service!Continue
<1>8. CASE Service!CreateService
  BY <1>8, FinishOnErrorEffect DEF Service!CreateService, Service!Continue
<1>9. CASE Service!CreateFails
  BY <1>9, FinishOnErrorEffect DEF Service!CreateFails
<1>10. CASE Service!CreateReplyLost
  BY <1>10, FinishOnErrorEffect DEF Service!CreateReplyLost
<1>11. CASE Service!UpdateService
  BY <1>11, FinishOnErrorEffect DEF Service!UpdateService, Service!Continue
<1>12. CASE Service!UpdateFails
  BY <1>12, FinishOnErrorEffect DEF Service!UpdateFails
<1>13. CASE Service!PatchSpec
  BY <1>13, ServiceFinishEffect DEF Service!PatchSpec
<1>14. CASE Service!PatchFails
  BY <1>14, ServiceFinishEffect DEF Service!PatchFails
<1>15. CASE Service!ScaleDown
  BY <1>15, FinishOnErrorEffect DEF Service!ScaleDown, Service!Continue
<1>16. CASE Service!ScaleDownFails
  BY <1>16, FinishOnErrorEffect DEF Service!ScaleDownFails
<1>17. CASE Service!DeleteService
  BY <1>17, FinishOnErrorEffect DEF Service!DeleteService, Service!Continue
<1>18. CASE Service!DeleteFails
  BY <1>18, FinishOnErrorEffect DEF Service!DeleteFails
<1>19. CASE Service!Release
  BY <1>19, ServiceFinishEffect DEF Service!Release, Service!RemoveFinalizer
<1>20. CASE Service!ReleaseFails
  BY <1>20, ServiceFinishEffect DEF Service!ReleaseFails
<1> QED
  BY <1>1, <1>2, <1>3, <1>4, <1>5, <1>6, <1>7, <1>8, <1>9, <1>10, <1>11, <1>12,
     <1>13, <1>14, <1>15, <1>16, <1>17, <1>18, <1>19, <1>20
  DEF Service!Reconcile

\* What happens to the Service from outside starts no service and takes no finalizer.
LEMMA EnvironmentOfServiceStep ==
    ASSUME Types, ServiceInv,
           \/ Service!Crash \/ Service!Resync \/ Service!UserCreates
           \/ Service!UserDeletes \/ Service!Drained \/ Service!Forgotten
    PROVE  /\ svcState' \in {"absent", "live", "deleting"} /\ svcPc' \in Service!PCs
           /\ svcMode' \in {"sync", "delete"} /\ cluster' \in Service!Clusters
           /\ svcStatus' \in [Service!Clusters -> Service!ServiceStatuses]
           /\ ServiceInv'
           /\ svcStatus'["named"] = "ACTIVE" => svcStatus["named"] = "ACTIVE"
           /\ svcFinalizer' = svcFinalizer
<1> USE DEF Types, ServiceInv, Service!PCs, Service!Clusters, Service!ServiceStatuses,
        Service!crVars, Service!statusVars, Service!workVars, Service!ecsVars
<1>1. CASE Service!Crash
  BY <1>1 DEF Service!Crash
<1>2. CASE Service!Resync
  BY <1>2 DEF Service!Resync
<1>3. CASE Service!UserCreates
  BY <1>3 DEF Service!UserCreates
<1>4. CASE Service!UserDeletes
  BY <1>4 DEF Service!UserDeletes
<1>5. CASE Service!Drained
  BY <1>5 DEF Service!Drained
<1>6. CASE Service!Forgotten
  BY <1>6 DEF Service!Forgotten
<1> QED
  BY <1>1, <1>2, <1>3, <1>4, <1>5, <1>6

-----------------------------------------------------------------------------
(* Together.                                                               *)

\* At the start there are no objects, no cluster and no service.
LEMMA InitInv == ASSUME Init PROVE IInv
BY DEF Init, Cluster!Init, Service!Init, IInv, Types, HoldInv, PhaseInv, ServiceInv,
   Housed, Cluster!Exists, Cluster!PCs, Cluster!UpdateCalls, Cluster!ClusterStatuses,
   Service!PCs, Service!Clusters, Service!ServiceStatuses

\* A step that leaves the Cluster alone keeps what holds of it.
LEMMA ClusterUnchanged ==
    ASSUME Types, HoldInv, PhaseInv,
           UNCHANGED <<cluState, cluFinalizer, cluPc, cluMode, cluStatus>>
    PROVE  /\ cluState' \in {"absent", "live", "deleting"} /\ cluPc' \in Cluster!PCs
           /\ cluMode' \in {"sync", "delete"} /\ cluStatus' \in Cluster!ClusterStatuses
           /\ HoldInv' /\ PhaseInv'
           /\ Cluster!Exists' = Cluster!Exists
BY DEF Types, HoldInv, PhaseInv, Cluster!Exists

\* One that leaves the Service alone does the same for the Service.
LEMMA ServiceUnchanged ==
    ASSUME Types, ServiceInv, UNCHANGED <<svcState, svcPc, svcMode, cluster, svcStatus>>
    PROVE  /\ svcState' \in {"absent", "live", "deleting"} /\ svcPc' \in Service!PCs
           /\ svcMode' \in {"sync", "delete"} /\ cluster' \in Service!Clusters
           /\ svcStatus' \in [Service!Clusters -> Service!ServiceStatuses]
           /\ ServiceInv'
BY DEF Types, ServiceInv

\* Every step of the two together keeps the invariant: a service is started only
\* where the cluster is active, and the cluster is taken away only when no service
\* is active or draining in it.
LEMMA InvStep == ASSUME IInv, [Next]_vars PROVE IInv'
<1> USE DEF IInv, Housed
<1>1. CASE ReconcileService
  <2>1. UNCHANGED <<cluState, cluFinalizer, cluPc, cluMode, cluStatus>>
    BY <1>1 DEF ReconcileService, cluVars
  <2>2. svcPc = "create" /\ cluster = "named" => Cluster!Exists
    BY <1>1 DEF ReconcileService, CallsECS, ClusterThere, Cluster!Exists
  <2> QED
    BY <1>1, <2>1, <2>2, ClusterUnchanged, ReconcileServiceStep
    DEF ReconcileService, Types
<1>2. CASE ClusterNotFound
  <2>1. UNCHANGED <<cluState, cluFinalizer, cluPc, cluMode, cluStatus, svcState,
                    svcStatus>>
    BY <1>2 DEF ClusterNotFound, cluVars
  <2>2. svcPc' = "idle" /\ svcMode' = "sync" /\ cluster' = "named"
    BY <1>2, FinishOnErrorEffect DEF ClusterNotFound
  <2>3. ServiceInv'
    BY <2>1, <2>2 DEF ServiceInv
  <2>4. Types'
    BY <2>1, <2>2, ClusterUnchanged DEF Types, Service!PCs, Service!Clusters
  <2> QED  BY <2>1, <2>3, <2>4, ClusterUnchanged
<1>3. CASE ReconcileCluster
  <2>1. UNCHANGED <<svcState, svcPc, svcMode, cluster, svcStatus>>
    BY <1>3 DEF ReconcileCluster, svcVars
  <2>2. svcStatus["named"] = "ACTIVE" => Occupied
    BY DEF Occupied
  <2> QED
    BY <1>3, <2>1, <2>2, ServiceUnchanged, ReconcileClusterStep
    DEF ReconcileCluster, Types
<1>4. CASE Crash
  <2>0. UNCHANGED <<cluState, svcStatus>>
    BY <1>4 DEF Crash
  <2>1. CASE Cluster!Crash /\ Service!Crash
    BY <2>1, EnvironmentOfClusterStep, EnvironmentOfServiceStep DEF Types
  <2>2. CASE /\ Service!Crash
             /\ UNCHANGED <<cluFinalizer, cluPc, cluMode, cluStatus>>
    BY <2>0, <2>2, ClusterUnchanged, EnvironmentOfServiceStep DEF Types
  <2>3. CASE /\ Cluster!Crash
             /\ UNCHANGED <<svcState, svcPc, svcMode, cluster>>
    BY <2>0, <2>3, ServiceUnchanged, EnvironmentOfClusterStep DEF Types
  <2> QED  BY <1>4, <2>1, <2>2, <2>3 DEF Crash
<1>5. CASE Resync \/ UserCreates \/ UserDeletes \/ Drained \/ Forgotten
  <2>1. CASE /\ UNCHANGED cluVars
             /\ \/ Service!Resync \/ Service!UserCreates \/ Service!UserDeletes
                \/ Service!Drained \/ Service!Forgotten
    BY <2>1, ClusterUnchanged, EnvironmentOfServiceStep DEF Types, cluVars
  <2>2. CASE /\ UNCHANGED svcVars
             /\ \/ Cluster!Resync \/ Cluster!UserCreates \/ Cluster!UserDeletes
                \/ Cluster!Forgotten
    BY <2>2, ServiceUnchanged, EnvironmentOfClusterStep DEF Types, svcVars
  <2> QED
    BY <1>5, <2>1, <2>2 DEF Resync, UserCreates, UserDeletes, Drained, Forgotten
<1>6. CASE UNCHANGED vars
  BY <1>6, ClusterUnchanged, ServiceUnchanged DEF vars, cluVars, svcVars, Types
<1> QED  BY <1>1, <1>2, <1>3, <1>4, <1>5, <1>6 DEF Next

\* The invariant holds in every state of the two together.
THEOREM Invariance == Spec => []IInv
<1>1. Init => IInv
  BY InitInv
<1>2. IInv /\ [Next]_vars => IInv'
  BY InvStep
<1> QED  BY <1>1, <1>2, PTL DEF Spec

\* Whoever deletes what first and whichever call fails, the Cluster object stays,
\* under its finalizer, for as long as a service is active in its cluster.
THEOREM ClusterStaysForItsService == Spec => []ClusterOutlivesService
<1>1. IInv => ClusterOutlivesService
  BY DEF IInv, HoldInv, Housed, ClusterOutlivesService
<1> QED  BY <1>1, Invariance, PTL

\* Creations and deletions of the two objects in whatever order never start a service
\* in the default cluster, although a deletion may look for one there.
THEOREM NothingElsewhere == Spec => []Service!NothingInDefaultCluster
<1>1. IInv => Service!NothingInDefaultCluster
  BY DEF IInv, ServiceInv, Service!NothingInDefaultCluster
<1> QED  BY <1>1, Invariance, PTL

\* The finalizer of a Service object comes off while its service is active only when
\* its reference did not resolve as the deletion began.
ReleasedOnlyWhenStopped ==
    [][svcFinalizer /\ ~svcFinalizer' /\ cluster = "named"
         => svcStatus["named"] # "ACTIVE"]_vars

\* The one way to leave a service behind is a deletion whose clusterRef does not
\* resolve, whatever becomes of the Cluster while the deletion runs.
THEOREM ReleaseNeedsAnswer == Spec => ReleasedOnlyWhenStopped
<1> DEFINE stopped ==
        svcFinalizer /\ ~svcFinalizer' /\ cluster = "named"
          => svcStatus["named"] # "ACTIVE"
<1>1. IInv /\ [Next]_vars => [stopped]_vars
  <2> SUFFICES ASSUME IInv, Next PROVE stopped
    OBVIOUS
  <2> USE DEF IInv
  <2>1. CASE ReconcileService
    BY <2>1, ReconcileServiceStep DEF ReconcileService
  <2>2. CASE ClusterNotFound
    BY <2>2 DEF ClusterNotFound
  <2>3. CASE ReconcileCluster
    BY <2>3 DEF ReconcileCluster, svcVars
  <2>4. CASE Crash
    BY <2>4, EnvironmentOfServiceStep DEF Crash
  <2>5. CASE Resync \/ UserCreates \/ UserDeletes \/ Drained \/ Forgotten
    BY <2>5, EnvironmentOfServiceStep
    DEF Resync, UserCreates, UserDeletes, Drained, Forgotten, svcVars
  <2> QED  BY <2>1, <2>2, <2>3, <2>4, <2>5 DEF Next
<1> QED  BY <1>1, Invariance, PTL DEF Spec, ReleasedOnlyWhenStopped

-----------------------------------------------------------------------------
(* The Cluster's manager keeps its contract beside the Service's.          *)

\* Every step of the Cluster is a step of the contract or leaves it alone.
LEMMA ContractOfClusterStep ==
    ASSUME Types, HoldInv, PhaseInv,
           \/ Cluster!Reconcile
           \/ Cluster!Crash \/ Cluster!Resync \/ Cluster!UserCreates
           \/ Cluster!UserDeletes \/ Cluster!Forgotten
    PROVE  [Cluster!Lifecycle!Next]_(Cluster!Lifecycle!vars)
<1>0. SUFFICES
        \/ cluState = "absent" /\ cluState' = "live"
           /\ cluFinalizer' = cluFinalizer /\ Cluster!Exists' = Cluster!Exists
        \/ cluState # "absent" /\ cluFinalizer' = TRUE
           /\ cluState' = cluState /\ Cluster!Exists' = Cluster!Exists
        \/ cluState # "absent" /\ cluFinalizer
           /\ ~Cluster!Exists /\ Cluster!Exists' = TRUE
           /\ cluState' = cluState /\ cluFinalizer' = cluFinalizer
        \/ cluState = "live"
           /\ cluState' = (IF cluFinalizer THEN "deleting" ELSE "absent")
           /\ cluFinalizer' = cluFinalizer /\ Cluster!Exists' = Cluster!Exists
        \/ cluState = "deleting" /\ Cluster!Exists /\ Cluster!Exists' = FALSE
           /\ cluState' = cluState /\ cluFinalizer' = cluFinalizer
        \/ cluFinalizer /\ ~Cluster!Exists /\ cluFinalizer' = FALSE
           /\ cluState' = (IF cluState = "deleting" THEN "absent" ELSE cluState)
           /\ Cluster!Exists' = Cluster!Exists
        \/ cluState' = cluState /\ cluFinalizer' = cluFinalizer
           /\ Cluster!Exists' = Cluster!Exists
  BY DEF Cluster!Lifecycle!Next, Cluster!Lifecycle!Declare, Cluster!Lifecycle!Hold,
     Cluster!Lifecycle!Provision, Cluster!Lifecycle!Retire,
     Cluster!Lifecycle!Deprovision, Cluster!Lifecycle!LetGo, Cluster!Lifecycle!vars
<1> USE DEF Types, HoldInv, PhaseInv, Cluster!Exists, Cluster!UpdateCalls,
        Cluster!crVars, Cluster!statusVars, Cluster!workVars, Cluster!ecsVars
<1>1. CASE Cluster!Begin
  BY <1>1 DEF Cluster!Begin
<1>2. CASE Cluster!FindFails
  BY <1>2, FinishEffect DEF Cluster!FindFails
<1>3. CASE Cluster!FindNothing
  BY <1>3 DEF Cluster!FindNothing, Cluster!Continue
<1>4. CASE Cluster!FindForSync
  BY <1>4, FindForSyncEffect DEF Cluster!Found
<1>5. CASE Cluster!FindForDelete
  BY <1>5 DEF Cluster!FindForDelete, Cluster!Continue
<1>6. CASE Cluster!SetManaged
  BY <1>6, FinishEffect DEF Cluster!SetManaged
<1>7. CASE Cluster!CreateCluster
  BY <1>7, CreateEndsEffect
  DEF Cluster!CreateCluster, Cluster!EcsCreates, Cluster!Continue, Cluster!Found
<1>8. CASE Cluster!CreateFails
  BY <1>8, CreateEndsEffect DEF Cluster!CreateFails
<1>9. CASE Cluster!CreateReplyLost
  BY <1>9, FinishEffect DEF Cluster!CreateReplyLost, Cluster!EcsCreates, Cluster!Found
<1>10. CASE Cluster!TagResource
  BY <1>10, ContinueUpdateEffect DEF Cluster!TagResource, Cluster!EcsDoes
<1>11. CASE Cluster!UntagResource
  BY <1>11, ContinueUpdateEffect DEF Cluster!UntagResource, Cluster!EcsDoes
<1>12. CASE Cluster!SyncTagsPanics
  BY <1>12, EndEffect DEF Cluster!SyncTagsPanics
<1>13. CASE Cluster!PutClusterCapacityProviders
  BY <1>13, ContinueUpdateEffect
  DEF Cluster!PutClusterCapacityProviders, Cluster!EcsDoes
<1>14. CASE Cluster!UpdateCluster
  BY <1>14 DEF Cluster!UpdateCluster, Cluster!EcsDoes, Cluster!Continue
<1>15. CASE Cluster!UpdateRefused
  BY <1>15, FinishEffect DEF Cluster!UpdateRefused
<1>16. CASE Cluster!UpdateFails
  BY <1>16, FinishEffect DEF Cluster!UpdateFails, Cluster!EcsDoes
<1>17. CASE Cluster!PatchSpec
  BY <1>17, EndEffect DEF Cluster!PatchSpec
<1>18. CASE Cluster!PatchFails
  BY <1>18, EndEffect DEF Cluster!PatchFails
<1>19. CASE Cluster!DeleteCluster
  <2>1. CASE Cluster!Deletable
    <3>1. cluState = "deleting" /\ Cluster!Exists /\ ~Cluster!Exists'
      BY <1>19, <2>1
      DEF Cluster!DeleteCluster, Cluster!EcsDeletes, Cluster!Deletable
    <3>2. cluState' = cluState /\ cluFinalizer' = cluFinalizer
      BY <1>19, <2>1 DEF Cluster!DeleteCluster, Cluster!Continue
    <3> QED  BY <3>1, <3>2
  <2>2. CASE ~Cluster!Deletable
    BY <1>19, <2>2, FinishEffect DEF Cluster!DeleteCluster
  <2> QED  BY <2>1, <2>2
<1>20. CASE Cluster!DeleteFails
  <2>1. cluState' = cluState /\ cluFinalizer' = cluFinalizer
    BY <1>20, FinishEffect DEF Cluster!DeleteFails
  <2>2. CASE UNCHANGED cluStatus
    BY <2>1, <2>2
  <2>3. CASE Cluster!Deletable /\ Cluster!EcsDeletes
    <3>1. cluState = "deleting" /\ Cluster!Exists /\ ~Cluster!Exists'
      BY <1>20, <2>3 DEF Cluster!DeleteFails, Cluster!EcsDeletes, Cluster!Deletable
    <3> QED  BY <2>1, <3>1
  <2> QED  BY <1>20, <2>2, <2>3 DEF Cluster!DeleteFails
<1>21. CASE Cluster!Release
  BY <1>21, EndEffect DEF Cluster!Release, Cluster!RemoveFinalizer
<1>22. CASE Cluster!ReleaseFails
  BY <1>22, EndEffect DEF Cluster!ReleaseFails
<1>23. CASE Cluster!Crash
  BY <1>23 DEF Cluster!Crash
<1>24. CASE Cluster!Resync
  BY <1>24 DEF Cluster!Resync
<1>25. CASE Cluster!UserCreates
  BY <1>25 DEF Cluster!UserCreates
<1>26. CASE Cluster!UserDeletes
  BY <1>26 DEF Cluster!UserDeletes
<1>27. CASE Cluster!Forgotten
  BY <1>27 DEF Cluster!Forgotten
<1> QED
  BY <1>1, <1>2, <1>3, <1>4, <1>5, <1>6, <1>7, <1>8, <1>9, <1>10, <1>11, <1>12,
     <1>13, <1>14, <1>15, <1>16, <1>17, <1>18, <1>19, <1>20, <1>21, <1>22, <1>23,
     <1>24, <1>25, <1>26, <1>27
  DEF Cluster!Reconcile

\* Every step of the two together is one for the Cluster or leaves it alone.
LEMMA ContractStep ==
    ASSUME IInv, [Next]_vars
    PROVE  [Cluster!Lifecycle!Next]_(Cluster!Lifecycle!vars)
<1> USE DEF IInv
<1>1. CASE UNCHANGED <<cluState, cluFinalizer, cluStatus>>
  BY <1>1 DEF Cluster!Lifecycle!vars, Cluster!Exists
<1>2. CASE \/ Cluster!Reconcile
           \/ Cluster!Crash \/ Cluster!Resync \/ Cluster!UserCreates
           \/ Cluster!UserDeletes \/ Cluster!Forgotten
  BY <1>2, ContractOfClusterStep
<1> QED
  BY <1>1, <1>2
  DEF Next, ReconcileService, ClusterNotFound, ReconcileCluster, Crash, Resync,
      UserCreates, UserDeletes, Drained, Forgotten, vars, cluVars

\* With services that come and go at the pace of another manager, instead of an
\* environment that only occupies the cluster, a Cluster still lives and goes as
\* ManagedResource says.
THEOREM ClusterKeepsItsContract == Spec => Cluster!ImplementsLifecycle
<1>1. Init => Cluster!Lifecycle!Init
  BY DEF Init, Cluster!Init, Cluster!Lifecycle!Init, Cluster!Exists
<1>2. IInv /\ [Next]_vars => [Cluster!Lifecycle!Next]_(Cluster!Lifecycle!vars)
  BY ContractStep
<1> QED
  BY <1>1, <1>2, Invariance, PTL
  DEF Spec, Cluster!ImplementsLifecycle, Cluster!Lifecycle!Spec
=============================================================================
