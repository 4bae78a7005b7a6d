------------------------ MODULE ClusterManagerProofs ------------------------
(***************************************************************************)
(* Proofs, for every choice of settings, capacity providers, tags and      *)
(* bounds, of the safety properties of ClusterManager.                     *)
(***************************************************************************)
EXTENDS ClusterManager, TLAPS

\* The finalizer holds the object for as long as the cluster may be used.
HoldInv ==
    /\ crState = "deleting" => finalizer
    /\ crState = "absent" => ~finalizer
    /\ Exists => finalizer
    /\ crState = "live" /\ finalizer => status # "DEPROVISIONING"

\* What a reconcile that has come to a call may rely on.
PhaseInv ==
    /\ pc \in {"idle", "manage", "create", "patch"} \cup UpdateCalls => mode = "sync"
    /\ pc \in {"delete", "release"} => mode = "delete"
    /\ mode = "delete" => crState = "deleting"
    /\ pc = "find" /\ mode = "sync" /\ finalizer => status # "DEPROVISIONING"
    /\ pc = "create" => finalizer
    /\ pc \in {"manage", "create"} => status \in {"MISSING", "INACTIVE"}
    /\ pc \in UpdateCalls => Exists
    /\ pc = "release" => ~Exists

\* The tags of AWS services are the same in both resources that are compared.
TagInv ==
    /\ SpecHoldsUserTagsOnly
    /\ pc = "find" => desired.Tags[AwsKey] = NoTag
    /\ pc \in UpdateCalls => desired.Tags[AwsKey] = latest.Tags[AwsKey]

Whole(r) == r.CapacityProviders \in {{}, Providers}

\* Only a deletion ever works with a part of a list of references.
ReferenceInv ==
    /\ Whole(ko) /\ Whole(ecs) /\ Whole(latest)
    /\ mode = "sync" => Whole(desired)

\* A cluster that goes away under a live object belongs to an earlier life.
LivesInv ==
    /\ crState # "absent" => events["lives"] >= 1
    /\ status = "DEPROVISIONING" =>
          /\ events["lives"] >= 1
          /\ crState = "live" => events["lives"] >= 2

\* A reconcile works with what its object says, unless the object has been queued
\* again since: what ECS rejects is what users see.
ReasonInv ==
    /\ events["refs"] = 0 => refReady = Providers
    /\ crState = "absent" => outcome = "none"
    /\ pc # "idle" /\ ~queued /\ crState # "absent" =>
          /\ desired.DefaultCapacityProviderStrategy = ko.DefaultCapacityProviderStrategy
          /\ desired.CapacityProviders \subseteq ko.CapacityProviders
    /\ TerminalHasReason

IInv ==
    /\ TypeOK /\ HoldInv /\ PhaseInv /\ TagInv /\ ReferenceInv
    /\ LivesInv /\ ReasonInv

-----------------------------------------------------------------------------
(* Types.                                                                  *)

\* What the tag functions make of lists of tags are lists of tags.
LEMMA TagsType ==
    ASSUME NEW a \in TagLists, NEW b \in TagLists, NEW keys
    PROVE  /\ NoTags \in TagLists
           /\ EnsureTags(a) \in TagLists
           /\ mirrorAWSTags(a, b) \in TagLists
           /\ FilterSystemTags(a) \in TagLists
           /\ Tagged(a, b, keys) \in TagLists
           /\ Untagged(a, keys) \in TagLists
BY TagsAssumption DEF TagLists, NoTags, EnsureTags, mirrorAWSTags, FilterSystemTags,
   Tagged, Untagged, Keys, SystemKeys

\* A resource with one field replaced is a resource.
LEMMA ResourceType ==
    ASSUME NEW r \in Resources
    PROVE  /\ r.CapacityProviders \in SUBSET Providers
           /\ r.DefaultCapacityProviderStrategy \in Strategies
           /\ r.Settings \in Settings \cup {Nil}
           /\ r.Tags \in TagLists
           /\ r.ARN \in BOOLEAN
           /\ \A v \in SUBSET Providers : [r EXCEPT !.CapacityProviders = v] \in Resources
           /\ \A v \in Strategies :
                 [r EXCEPT !.DefaultCapacityProviderStrategy = v] \in Resources
           /\ \A v \in Settings \cup {Nil} : [r EXCEPT !.Settings = v] \in Resources
           /\ \A v \in TagLists : [r EXCEPT !.Tags = v] \in Resources
           /\ \A v \in BOOLEAN : [r EXCEPT !.ARN = v] \in Resources
BY DEF Resources

\* So is the empty one.
LEMMA EmptyType == EmptyResource \in Resources
BY DEF EmptyResource, Resources, Strategies, NoTags, TagLists

\* What ECS and the manager make of resources are resources.
LEMMA OperationsType ==
    ASSUME NEW r \in Resources, NEW c \in Resources
    PROVE  /\ Merge(r) \in Resources
           /\ EcsCreate(r) \in Resources
           /\ EcsPut(c, r) \in Resources
           /\ EcsUpdate(c, r) \in Resources
           /\ EcsReply(r) \subseteq Resources
           /\ ResolveReferences(r).resource \in Resources
           /\ [r EXCEPT !.Tags = EnsureTags(@)] \in Resources
           /\ [r EXCEPT !.Tags = mirrorAWSTags(@, c.Tags)] \in Resources
<1>1. Merge(r) \in Resources
  BY DEF Merge, Resources
<1>2. \A s \in Strategies : Stored(s) \in Strategies
  BY DEF Stored, Strategies
<1>3. EcsCreate(r) \in Resources
  BY <1>2, ConstantsAssumption DEF EcsCreate, Resources
<1>4. EcsPut(c, r) \in Resources
  BY <1>2 DEF EcsPut, Resources
<1>5. EcsUpdate(c, r) \in Resources
  BY DEF EcsUpdate, Resources
<1>6. EcsReply(r) \subseteq Resources
  <2>1. [r EXCEPT !.Tags = NoTags] \in Resources
    BY TagsType, ResourceType
  <2> QED  BY <2>1 DEF EcsReply
<1>7. ResolveReferences(r).resource \in Resources
  <2>1. r.CapacityProviders \cap refReady \in SUBSET Providers
    BY ResourceType
  <2>2. [r EXCEPT !.CapacityProviders = @ \cap refReady] \in Resources
    BY <2>1, ResourceType
  <2> QED  BY <2>2 DEF ResolveReferences
<1>8. r.Tags \in TagLists /\ c.Tags \in TagLists
  BY ResourceType
<1>9. EnsureTags(r.Tags) \in TagLists /\ mirrorAWSTags(r.Tags, c.Tags) \in TagLists
  BY <1>8, TagsType
<1>10. [r EXCEPT !.Tags = EnsureTags(@)] \in Resources
  BY <1>9, ResourceType
<1>11. [r EXCEPT !.Tags = mirrorAWSTags(@, c.Tags)] \in Resources
  BY <1>9, ResourceType
<1> QED  BY <1>1, <1>3, <1>4, <1>5, <1>6, <1>7, <1>10, <1>11

\* A record with the fields of a resource is one.
LEMMA FieldwiseType ==
    ASSUME NEW w,
           w = [f \in {"CapacityProviders", "DefaultCapacityProviderStrategy",
                      "Settings", "Tags", "ARN"} |-> w[f]],
           w.CapacityProviders \in SUBSET Providers,
           w.DefaultCapacityProviderStrategy \in Strategies,
           w.Settings \in Settings \cup {Nil},
           w.Tags \in TagLists, w.ARN \in BOOLEAN
    PROVE  w \in Resources
BY DEF Resources

\* What is written back to the object is a resource.
LEMMA WrittenBackType ==
    ASSUME TypeOK, NEW r \in Resources, NEW fields \in SUBSET SpecFields
    PROVE  WrittenBack(r, fields) \in Resources
<1>1. ko \in Resources /\ FilterSystemTags(r.Tags) \in TagLists
  BY TagsType, ResourceType DEF TypeOK
<1>2. \A f \in {"CapacityProviders", "DefaultCapacityProviderStrategy", "Settings"} :
         Patched(r, f) = (IF f = "CapacityProviders" /\ ByRef THEN {} ELSE r[f])
  BY DEF Patched
<1>3. Patched(r, "Tags") = FilterSystemTags(r.Tags)
  BY DEF Patched
<1>4. DOMAIN ko = {"CapacityProviders", "DefaultCapacityProviderStrategy", "Settings",
                   "Tags", "ARN"}
  BY <1>1 DEF Resources
<1> DEFINE w == WrittenBack(r, fields)
<1>5. w = [f \in {"CapacityProviders", "DefaultCapacityProviderStrategy",
                 "Settings", "Tags", "ARN"} |-> w[f]]
  BY <1>4 DEF WrittenBack
<1>6. w.ARN \in BOOLEAN
  <2>1. w.ARN \in {TRUE, ko.ARN}
    BY <1>4 DEF WrittenBack, SpecFields
  <2> QED  BY <1>1, <2>1, ResourceType
<1>7. w.Tags \in TagLists
  BY <1>1, <1>3, <1>4, ResourceType DEF WrittenBack
<1>8. w.CapacityProviders \in SUBSET Providers
  BY <1>1, <1>2, <1>4, ResourceType DEF WrittenBack
<1>9. w.DefaultCapacityProviderStrategy \in Strategies
  BY <1>1, <1>2, <1>4, ResourceType DEF WrittenBack
<1>10. w.Settings \in Settings \cup {Nil}
  BY <1>1, <1>2, <1>4, ResourceType DEF WrittenBack
<1> QED  BY <1>5, <1>6, <1>7, <1>8, <1>9, <1>10, FieldwiseType

\* The end of a reconcile keeps the types of what it sets.
LEMMA EndEffect ==
    ASSUME NEW err, End(err)
    PROVE  /\ pc' = "idle" /\ mode' = "sync"
           /\ desired' = EmptyResource /\ latest' = EmptyResource
           /\ outcome' = IF crState' = "absent" THEN "none" ELSE OutcomeOf(err)
           /\ outcome' \in {"none", "success", "error", "terminal"}
           /\ queued' \in BOOLEAN
BY DEF End, OutcomeOf

\* The same for an operation whose result is written to the status.
LEMMA FinishEffect ==
    ASSUME NEW err, NEW r, Finish(err, r)
    PROVE  /\ pc' = "idle" /\ mode' = "sync"
           /\ desired' = EmptyResource /\ latest' = EmptyResource
           /\ outcome' = IF crState = "absent" THEN "none" ELSE OutcomeOf(err)
           /\ outcome' \in {"none", "success", "error", "terminal"}
           /\ queued' \in BOOLEAN
           /\ crState' = crState /\ finalizer' = finalizer
           /\ ko' = IF crState = "absent" THEN ko ELSE WrittenBack(r, {})
BY EndEffect DEF Finish

\* An operation that ends the reconcile keeps the types.
LEMMA FinishType ==
    ASSUME TypeOK, NEW err, NEW r \in Resources, Finish(err, r)
    PROVE  /\ crState' \in {"absent", "live", "deleting"} /\ finalizer' \in BOOLEAN
           /\ ko' \in Resources
           /\ outcome' \in {"none", "success", "error", "terminal"}
           /\ queued' \in BOOLEAN /\ pc' \in PCs /\ mode' \in {"sync", "delete"}
           /\ desired' \in Resources /\ latest' \in Resources
<1>1. ko' \in Resources
  BY FinishEffect, WrittenBackType DEF TypeOK
<1> QED  BY <1>1, FinishEffect, EmptyType DEF TypeOK, PCs

\* The finalizer comes off without changing any type.
LEMMA RemoveFinalizerType ==
    ASSUME TypeOK, RemoveFinalizer
    PROVE  /\ crState' \in {"absent", "live", "deleting"} /\ finalizer' \in BOOLEAN
           /\ ko' \in Resources
BY EmptyType DEF TypeOK, RemoveFinalizer

\* A creation that returned no resource ends the reconcile, in either runtime.
LEMMA CreateEndsEffect ==
    ASSUME NEW err, CreateEnds(err)
    PROVE  /\ pc' = "idle" /\ mode' = "sync"
           /\ desired' = EmptyResource /\ latest' = EmptyResource
           /\ outcome' = IF crState' = "absent" THEN "none" ELSE OutcomeOf(err)
           /\ \/ RemoveFinalizer
              \/ /\ crState' = crState /\ finalizer' = finalizer
                 /\ ko' = IF crState = "absent" THEN ko ELSE WrittenBack(desired, {})
BY EndEffect, FinishEffect DEF CreateEnds

\* It keeps the types.
LEMMA CreateEndsType ==
    ASSUME TypeOK, NEW err, CreateEnds(err)
    PROVE  /\ crState' \in {"absent", "live", "deleting"} /\ finalizer' \in BOOLEAN
           /\ ko' \in Resources
           /\ outcome' \in {"none", "success", "error", "terminal"}
           /\ queued' \in BOOLEAN /\ pc' \in PCs /\ mode' \in {"sync", "delete"}
           /\ desired' \in Resources /\ latest' \in Resources
<1>1. CASE Unmanages
  BY <1>1, EndEffect, EmptyType, RemoveFinalizerType DEF CreateEnds, TypeOK, PCs
<1>2. CASE ~Unmanages
  BY <1>2, FinishType DEF CreateEnds, TypeOK
<1> QED  BY <1>1, <1>2

\* What happens is counted.
LEMMA HappensType ==
    ASSUME TypeOK, NEW k \in Events, Happens(k)
    PROVE  /\ events' \in [Events -> Nat]
           /\ \A e \in Events : events'[e] = IF e = k THEN events[e] + 1 ELSE events[e]
BY DEF TypeOK, Happens

\* The calls of an update keep the types of what ECS has.
LEMMA EcsDoesType ==
    ASSUME TypeOK, NEW call \in UpdateCalls, EcsDoes(call)
    PROVE  ecs' \in Resources /\ status' \in ClusterStatuses
<1>1. ecs \in Resources /\ desired \in Resources
  BY DEF TypeOK
<1>2. ecs.Tags \in TagLists /\ desired.Tags \in TagLists
  BY <1>1, ResourceType
<1>3. EcsPut(ecs, desired) \in Resources /\ EcsUpdate(ecs, desired) \in Resources
  BY <1>1, OperationsType
<1>4. \A keys : Tagged(ecs.Tags, desired.Tags, keys) \in TagLists
                  /\ Untagged(ecs.Tags, keys) \in TagLists
  BY <1>2, TagsType
<1>5. CASE call = "tag"
  <2>1. ecs' = [ecs EXCEPT !.Tags =
                   Tagged(@, desired.Tags, toAdd(desired.Tags, latest.Tags))]
    BY <1>5 DEF EcsDoes, EcsAfter
  <2> QED  BY <1>1, <1>4, <2>1, ResourceType DEF EcsDoes, ClusterStatuses, TypeOK
<1>6. CASE call = "untag"
  <2>1. ecs' = [ecs EXCEPT !.Tags = Untagged(@, toDelete(desired.Tags, latest.Tags))]
    BY <1>6 DEF EcsDoes, EcsAfter
  <2> QED  BY <1>1, <1>4, <2>1, ResourceType DEF EcsDoes, ClusterStatuses, TypeOK
<1>7. CASE call \in {"put", "update"}
  <2>1. ecs' \in {EcsPut(ecs, desired), EcsUpdate(ecs, desired)}
    BY <1>7 DEF EcsDoes, EcsAfter
  <2> QED  BY <1>3, <2>1 DEF EcsDoes, ClusterStatuses, TypeOK
<1> QED  BY <1>5, <1>6, <1>7 DEF UpdateCalls

\* The first of several calls is one of them, and none comes before it.
LEMMA FirstOfType ==
    ASSUME NEW calls \in SUBSET UpdateCalls, calls # {}
    PROVE  /\ FirstOf(calls) \in calls
           /\ \A e \in calls : CallOrder[FirstOf(calls)] <= CallOrder[e]
<1>1. /\ CallOrder["tag"] = 1 /\ CallOrder["untag"] = 2
      /\ CallOrder["put"] = 3 /\ CallOrder["update"] = 4
  BY DEF CallOrder
<1>2. \E c \in calls : \A e \in calls : CallOrder[c] <= CallOrder[e]
  <2>1. CASE "tag" \in calls
    BY <1>1, <2>1 DEF UpdateCalls
  <2>2. CASE "tag" \notin calls /\ "untag" \in calls
    BY <1>1, <2>2 DEF UpdateCalls
  <2>3. CASE calls \cap {"tag", "untag"} = {} /\ "put" \in calls
    BY <1>1, <2>3 DEF UpdateCalls
  <2>4. CASE calls = {"update"}
    BY <2>4, <1>1
  <2>5. calls = {"update"} \/ calls \cap {"tag", "untag", "put"} # {}
    BY DEF UpdateCalls
  <2> QED  BY <2>1, <2>2, <2>3, <2>4, <2>5
<1> QED  BY <1>2 DEF FirstOf

\* After a call the update goes on with one of the later calls, or it is done.
LEMMA ContinueUpdateEffect ==
    ASSUME NEW done, ContinueUpdate(done)
    PROVE  /\ \/ /\ NextCalls(desired, latest, done) # {}
                 /\ pc' = FirstOf(NextCalls(desired, latest, done))
                 /\ pc' \in NextCalls(desired, latest, done)
                 /\ pc' \in UpdateCalls
                 /\ latest' = latest
              \/ /\ NextCalls(desired, latest, done) = {}
                 /\ pc' = "patch" /\ latest' = desired
           /\ UNCHANGED <<crVars, mode, desired, statusVars>>
<1> DEFINE calls == NextCalls(desired, latest, done)
<1>1. calls \in SUBSET UpdateCalls
  BY DEF NextCalls, CallsOfUpdate
<1>2. CASE calls # {}
  BY <1>1, <1>2, FirstOfType DEF ContinueUpdate, Continue
<1>3. CASE calls = {}
  BY <1>3 DEF ContinueUpdate, Continue
<1> QED  BY <1>2, <1>3

\* An update that goes on keeps the types.
LEMMA ContinueUpdateType ==
    ASSUME TypeOK, NEW done, ContinueUpdate(done)
    PROVE  /\ crState' \in {"absent", "live", "deleting"} /\ finalizer' \in BOOLEAN
           /\ ko' \in Resources
           /\ outcome' \in {"none", "success", "error", "terminal"}
           /\ queued' \in BOOLEAN /\ pc' \in PCs /\ mode' \in {"sync", "delete"}
           /\ desired' \in Resources /\ latest' \in Resources
BY ContinueUpdateEffect DEF TypeOK, PCs, crVars, statusVars

\* What ReadOne in a sync leads to: an end, or the first call of an update from
\* the desired resource with the AWS tags that were observed.
LEMMA FindForSyncEffect ==
    ASSUME FindForSync
    PROVE  /\ pc = "find" /\ mode = "sync" /\ Found(status)
           /\ \/ ~finalizer /\ Finish("Terminal", Merge(ecs))
              \/ Finish("nil", Merge(ecs))
              \/ /\ finalizer
                 /\ desired' = [desired EXCEPT !.Tags = mirrorAWSTags(@, Merge(ecs).Tags)]
                 /\ latest' = Merge(ecs)
                 /\ NextCalls(desired', latest', "find") # {}
                 /\ pc' = FirstOf(NextCalls(desired', latest', "find"))
                 /\ pc' \in NextCalls(desired', latest', "find")
                 /\ pc' \in UpdateCalls
                 /\ UNCHANGED <<crVars, mode, statusVars>>
           /\ UNCHANGED <<ecsVars, refReady, events>>
<1> DEFINE observed == Merge(ecs)
           d == [desired EXCEPT !.Tags = mirrorAWSTags(@, observed.Tags)]
           calls == NextCalls(d, observed, "find")
<1>1. calls \in SUBSET UpdateCalls
  BY DEF NextCalls, CallsOfUpdate
<1>2. CASE ~finalizer
  BY <1>2 DEF FindForSync
<1>3. CASE finalizer /\ calls = {}
  BY <1>3 DEF FindForSync
<1>4. CASE finalizer /\ calls # {}
  <2>1. FirstOf(calls) \in calls
    BY <1>1, <1>4, FirstOfType
  <2> QED  BY <1>1, <1>4, <2>1 DEF FindForSync
<1> QED  BY <1>2, <1>3, <1>4

\* Every step of the reconcile keeps the types.
LEMMA ReconcileTypeStep ==
    ASSUME TypeOK, Reconcile
    PROVE  TypeOK'
<1> USE DEF crVars, statusVars, workVars, ecsVars
<1>0. /\ desired \in Resources /\ latest \in Resources /\ ko \in Resources
      /\ ecs \in Resources /\ Merge(ecs) \in Resources
  BY OperationsType DEF TypeOK
<1>1. CASE Begin
  <2>1. ResolveReferences(ko).resource \in Resources
    BY <1>0, OperationsType
  <2>2. [ResolveReferences(ko).resource EXCEPT !.Tags = EnsureTags(@)] \in Resources
    BY <2>1, OperationsType
  <2>3. desired' \in Resources /\ pc' \in PCs /\ mode' \in {"sync", "delete"}
    BY <1>0, <1>1, <2>2 DEF Begin, TypeOK, PCs
  <2> QED  BY <1>1, <2>3 DEF Begin, TypeOK
<1>2. CASE FindFails
  BY <1>0, <1>2, FinishType, HappensType DEF FindFails, TypeOK, Events
<1>3. CASE FindNothing
  BY <1>3 DEF FindNothing, Continue, TypeOK, PCs
<1>4. CASE FindForSync
  <2>1. desired.Tags \in TagLists /\ Merge(ecs).Tags \in TagLists
    BY <1>0, ResourceType
  <2>2. [desired EXCEPT !.Tags = mirrorAWSTags(@, Merge(ecs).Tags)] \in Resources
    BY <1>0, OperationsType
  <2>3. CASE Finish("Terminal", Merge(ecs)) \/ Finish("nil", Merge(ecs))
    BY <1>0, <1>4, <2>3, FinishType, FindForSyncEffect DEF TypeOK
  <2>4. CASE ~Finish("Terminal", Merge(ecs)) /\ ~Finish("nil", Merge(ecs))
    BY <1>0, <1>4, <2>2, <2>4, FindForSyncEffect DEF TypeOK, PCs
  <2> QED  BY <2>3, <2>4
<1>5. CASE FindForDelete
  BY <1>0, <1>5 DEF FindForDelete, Continue, TypeOK, PCs
<1>6. CASE SetManaged
  <2>1. CASE crState = "absent"
    BY <1>0, <1>6, <2>1, FinishType DEF SetManaged, TypeOK
  <2>2. CASE crState # "absent"
    BY <1>6, <2>2 DEF SetManaged, TypeOK, PCs
  <2> QED  BY <2>1, <2>2
<1>7. EcsCreates => ecs' \in Resources /\ status' \in ClusterStatuses
  BY <1>0, OperationsType DEF EcsCreates, ClusterStatuses, TypeOK
<1>8. CASE CreateCluster
  <2>1. CASE CreatePayloadError(desired)
    BY <1>0, <1>8, <2>1, CreateEndsType DEF CreateCluster, TypeOK
  <2>2. CASE ~CreatePayloadError(desired)
    <3>1. ecs' \in Resources /\ status' \in ClusterStatuses /\ latest' \in Resources
      BY <1>7, <1>8, <2>2, OperationsType DEF CreateCluster
    <3> QED  BY <1>8, <2>2, <3>1 DEF CreateCluster, Continue, TypeOK, PCs
  <2> QED  BY <2>1, <2>2
<1>9. CASE CreateFails
  BY <1>9, CreateEndsType, HappensType DEF CreateFails, TypeOK, Events
<1>10. CASE CreateReplyLost
  BY <1>0, <1>7, <1>10, FinishType, HappensType DEF CreateReplyLost, TypeOK, Events
<1>11. CASE TagResource
  BY <1>11, EcsDoesType, ContinueUpdateType DEF TagResource, TypeOK, UpdateCalls
<1>12. CASE UntagResource
  BY <1>12, EcsDoesType, ContinueUpdateType DEF UntagResource, TypeOK, UpdateCalls
<1>13. CASE SyncTagsPanics
  BY <1>13, EndEffect, EmptyType DEF SyncTagsPanics, TypeOK, PCs
<1>14. CASE PutClusterCapacityProviders
  BY <1>14, EcsDoesType, ContinueUpdateType
  DEF PutClusterCapacityProviders, TypeOK, UpdateCalls
<1>15. CASE UpdateCluster
  <2>1. ecs' \in Resources /\ status' \in ClusterStatuses
    BY <1>15, EcsDoesType DEF UpdateCluster, UpdateCalls
  <2>2. latest' \in Resources
    <3>1. PICK reply \in EcsReply(ecs') : latest' = Merge(reply)
      BY <1>15 DEF UpdateCluster
    <3>2. reply \in Resources
      BY <2>1, <3>1, OperationsType
    <3> QED  BY <3>1, <3>2, OperationsType
  <2> QED  BY <1>15, <2>1, <2>2 DEF UpdateCluster, Continue, TypeOK, PCs
<1>16. CASE UpdateRefused
  BY <1>0, <1>16, FinishType DEF UpdateRefused, TypeOK
<1>17. CASE UpdateFails
  <2>1. ecs' \in Resources /\ status' \in ClusterStatuses
    BY <1>0, <1>17, EcsDoesType DEF UpdateFails, TypeOK
  <2> QED
    BY <1>0, <1>17, <2>1, FinishType, HappensType DEF UpdateFails, TypeOK, Events
<1>18. CASE PatchSpec
  <2>1. ko' \in Resources
    BY <1>0, <1>18, WrittenBackType DEF PatchSpec
  <2> QED  BY <1>18, <2>1, EndEffect, EmptyType DEF PatchSpec, TypeOK, PCs
<1>19. CASE PatchFails
  BY <1>19, EndEffect, EmptyType, HappensType DEF PatchFails, TypeOK, PCs, Events
<1>20. EcsDeletes => status' \in ClusterStatuses
  BY DEF EcsDeletes, ClusterStatuses
<1>21. CASE DeleteCluster
  <2>1. CASE Deletable
    BY <1>20, <1>21, <2>1 DEF DeleteCluster, Continue, TypeOK, PCs
  <2>2. CASE ~Deletable
    BY <1>0, <1>21, <2>2, FinishType DEF DeleteCluster, TypeOK
  <2> QED  BY <2>1, <2>2
<1>22. CASE DeleteFails
  BY <1>0, <1>20, <1>22, FinishType, HappensType DEF DeleteFails, TypeOK, Events
<1>23. CASE Release
  BY <1>23, EndEffect, EmptyType, RemoveFinalizerType DEF Release, TypeOK, PCs
<1>24. CASE ReleaseFails
  BY <1>24, EndEffect, EmptyType, HappensType DEF ReleaseFails, TypeOK, PCs, Events
<1> QED
  BY <1>1, <1>2, <1>3, <1>4, <1>5, <1>6, <1>8, <1>9, <1>10, <1>11, <1>12, <1>13,
     <1>14, <1>15, <1>16, <1>17, <1>18, <1>19, <1>21, <1>22, <1>23, <1>24
  DEF Reconcile

\* So does every step of the environment.
LEMMA EnvironmentTypeStep ==
    ASSUME TypeOK, Environment
    PROVE  TypeOK'
<1> USE DEF crVars, statusVars, workVars, ecsVars
<1>0. ko \in Resources /\ ecs \in Resources /\ UserSpecs \subseteq Resources
  BY DEF TypeOK, UserSpecs
<1>1. CASE Crash
  BY <1>1, EmptyType, HappensType DEF Crash, TypeOK, PCs, Events
<1>2. CASE Resync
  BY <1>2 DEF Resync, TypeOK
<1>3. CASE UserCreates
  BY <1>0, <1>3, HappensType DEF UserCreates, TypeOK, Events
<1>4. CASE UserEdits
  <2>1. PICK f \in SpecFields, r \in UserSpecs : ko' = [ko EXCEPT ![f] = r[f]]
    BY <1>4 DEF UserEdits
  <2>2. r \in Resources
    BY <1>0
  <2>3. ko' \in Resources
    <3>1. CASE f = "Tags"
      <4>1. r.Tags \in TagLists /\ ko' = [ko EXCEPT !.Tags = r.Tags]
        BY <2>1, <2>2, <3>1, ResourceType
      <4> QED  BY <1>0, <4>1, ResourceType
    <3>2. CASE f = "Settings"
      <4>1. r.Settings \in Settings \cup {Nil} /\ ko' = [ko EXCEPT !.Settings = r.Settings]
        BY <2>1, <2>2, <3>2, ResourceType
      <4> QED  BY <1>0, <4>1, ResourceType
    <3>3. CASE f = "CapacityProviders"
      <4>1. /\ r.CapacityProviders \in SUBSET Providers
            /\ ko' = [ko EXCEPT !.CapacityProviders = r.CapacityProviders]
        BY <2>1, <2>2, <3>3, ResourceType
      <4> QED  BY <1>0, <4>1, ResourceType
    <3>4. CASE f = "DefaultCapacityProviderStrategy"
      <4>1. /\ r.DefaultCapacityProviderStrategy \in Strategies
            /\ ko' = [ko EXCEPT !.DefaultCapacityProviderStrategy =
                                    r.DefaultCapacityProviderStrategy]
        BY <2>1, <2>2, <3>4, ResourceType
      <4> QED  BY <1>0, <4>1, ResourceType
    <3> QED  BY <3>1, <3>2, <3>3, <3>4 DEF SpecFields
  <2> QED  BY <1>4, <2>3, HappensType DEF UserEdits, TypeOK, Events
<1>5. CASE UserDeletes
  BY <1>5, EmptyType DEF UserDeletes, TypeOK
<1>6. CASE Drift
  <2>1. /\ \A v \in TagValues : [ecs EXCEPT !.Tags[AwsKey] = v] \in Resources
        /\ \A k \in Keys : [ecs EXCEPT !.Tags[k] = NoTag] \in Resources
    BY <1>0 DEF Resources, TagLists, Keys, SystemKeys
  <2>2. [ecs EXCEPT !.CapacityProviders = {},
                    !.DefaultCapacityProviderStrategy = Nil] \in Resources
    BY <1>0 DEF Resources, Strategies
  <2>3. ecs' \in Resources /\ occupied' \in BOOLEAN
    BY <1>0, <1>6, <2>1, <2>2 DEF Drift, TypeOK
  <2> QED  BY <1>6, <2>3, HappensType DEF Drift, TypeOK, Events
<1>7. CASE Vacated
  BY <1>7 DEF Vacated, TypeOK
<1>8. CASE Provisioned
  BY <1>8 DEF Provisioned, TypeOK, ClusterStatuses
<1>9. CASE Forgotten
  BY <1>9, EmptyType DEF Forgotten, TypeOK, ClusterStatuses
<1>10. CASE ReferenceChanges
  BY <1>10, HappensType DEF ReferenceChanges, TypeOK, Events
<1> QED
  BY <1>1, <1>2, <1>3, <1>4, <1>5, <1>6, <1>7, <1>8, <1>9, <1>10 DEF Environment

\* Every step keeps the types.
LEMMA TypeStep == ASSUME TypeOK, [Next]_vars PROVE TypeOK'
<1>1. CASE UNCHANGED vars
  BY <1>1 DEF TypeOK, vars, crVars, statusVars, workVars, ecsVars
<1> QED  BY <1>1, ReconcileTypeStep, EnvironmentTypeStep DEF Next

\* Whatever happens, the finalizer stays on for as long as the cluster may be used.
LEMMA HoldStep ==
    ASSUME IInv, [Next]_vars
    PROVE  HoldInv'
<1> USE DEF IInv, crVars, statusVars, workVars, ecsVars, HoldInv, PhaseInv, Exists,
        UpdateCalls
<1>1. CASE Begin
  BY <1>1 DEF Begin
<1>2. CASE FindFails
  BY <1>2, FinishEffect DEF FindFails
<1>3. CASE FindNothing
  BY <1>3 DEF FindNothing, Continue
<1>4. CASE FindForSync
  BY <1>4, FindForSyncEffect, FinishEffect DEF FindForSync
<1>5. CASE FindForDelete
  BY <1>5 DEF FindForDelete, Continue
<1>6. CASE SetManaged
  BY <1>6, FinishEffect DEF SetManaged
<1>7. CASE CreateCluster
  BY <1>7, CreateEndsEffect DEF CreateCluster, EcsCreates, Continue, RemoveFinalizer
<1>8. CASE CreateFails
  BY <1>8, CreateEndsEffect DEF CreateFails, RemoveFinalizer
<1>9. CASE CreateReplyLost
  BY <1>9, FinishEffect DEF CreateReplyLost, EcsCreates
<1>10. CASE TagResource
  BY <1>10, ContinueUpdateEffect DEF TagResource, EcsDoes
<1>11. CASE UntagResource
  BY <1>11, ContinueUpdateEffect DEF UntagResource, EcsDoes
<1>12. CASE SyncTagsPanics
  BY <1>12, EndEffect DEF SyncTagsPanics
<1>13. CASE PutClusterCapacityProviders
  BY <1>13, ContinueUpdateEffect DEF PutClusterCapacityProviders, EcsDoes
<1>14. CASE UpdateCluster
  BY <1>14 DEF UpdateCluster, EcsDoes, Continue
<1>15. CASE UpdateRefused
  BY <1>15, FinishEffect DEF UpdateRefused
<1>16. CASE UpdateFails
  BY <1>16, FinishEffect DEF UpdateFails, EcsDoes
<1>17. CASE PatchSpec
  BY <1>17, EndEffect DEF PatchSpec
<1>18. CASE PatchFails
  BY <1>18, EndEffect DEF PatchFails
<1>19. CASE DeleteCluster
  BY <1>19, FinishEffect DEF DeleteCluster, EcsDeletes, Deletable, Continue
<1>20. CASE DeleteFails
  BY <1>20, FinishEffect DEF DeleteFails, EcsDeletes, Deletable
<1>21. CASE Release
  BY <1>21, EndEffect DEF Release, RemoveFinalizer
<1>22. CASE ReleaseFails
  BY <1>22, EndEffect DEF ReleaseFails
<1>23. CASE Crash
  BY <1>23 DEF Crash
<1>24. CASE Resync
  BY <1>24 DEF Resync
<1>25. CASE UserCreates
  BY <1>25 DEF UserCreates
<1>26. CASE UserEdits
  BY <1>26 DEF UserEdits
<1>27. CASE UserDeletes
  BY <1>27 DEF UserDeletes
<1>28. CASE Drift
  BY <1>28 DEF Drift
<1>29. CASE Vacated
  BY <1>29 DEF Vacated
<1>30. CASE Provisioned
  BY <1>30 DEF Provisioned
<1>31. CASE Forgotten
  BY <1>31 DEF Forgotten
<1>32. CASE ReferenceChanges
  BY <1>32 DEF ReferenceChanges
<1>33. CASE UNCHANGED vars
  BY <1>33 DEF vars
<1> QED
  BY <1>1, <1>2, <1>3, <1>4, <1>5, <1>6, <1>7, <1>8, <1>9, <1>10, <1>11, <1>12,
     <1>13, <1>14, <1>15, <1>16, <1>17, <1>18, <1>19, <1>20, <1>21, <1>22, <1>23, <1>24,
     <1>25, <1>26, <1>27, <1>28, <1>29, <1>30, <1>31, <1>32, <1>33
  DEF Next, Reconcile, Environment

\* A reconcile that has come to a call got there in the right mode and state.
LEMMA PhaseStep ==
    ASSUME IInv, [Next]_vars
    PROVE  PhaseInv'
<1> USE DEF IInv, crVars, statusVars, workVars, ecsVars, HoldInv, PhaseInv, Exists,
        UpdateCalls
<1>1. CASE Begin
  BY <1>1 DEF Begin, TypeOK
<1>2. CASE FindFails
  BY <1>2, FinishEffect DEF FindFails
<1>3. CASE FindNothing
  BY <1>3 DEF FindNothing, Continue, Found, TypeOK
<1>4. CASE FindForSync
  BY <1>4, FindForSyncEffect, FinishEffect DEF Found, TypeOK, ClusterStatuses
<1>5. CASE FindForDelete
  BY <1>5 DEF FindForDelete, Continue
<1>6. CASE SetManaged
  BY <1>6, FinishEffect DEF SetManaged
<1>7. CASE CreateCluster
  BY <1>7, CreateEndsEffect DEF CreateCluster, EcsCreates, Continue, RemoveFinalizer
<1>8. CASE CreateFails
  BY <1>8, CreateEndsEffect DEF CreateFails, RemoveFinalizer
<1>9. CASE CreateReplyLost
  BY <1>9, FinishEffect DEF CreateReplyLost, EcsCreates
<1>10. CASE TagResource
  BY <1>10, ContinueUpdateEffect DEF TagResource, EcsDoes
<1>11. CASE UntagResource
  BY <1>11, ContinueUpdateEffect DEF UntagResource, EcsDoes
<1>12. CASE SyncTagsPanics
  BY <1>12, EndEffect DEF SyncTagsPanics
<1>13. CASE PutClusterCapacityProviders
  BY <1>13, ContinueUpdateEffect DEF PutClusterCapacityProviders, EcsDoes
<1>14. CASE UpdateCluster
  BY <1>14 DEF UpdateCluster, EcsDoes, Continue
<1>15. CASE UpdateRefused
  BY <1>15, FinishEffect DEF UpdateRefused
<1>16. CASE UpdateFails
  BY <1>16, FinishEffect DEF UpdateFails, EcsDoes
<1>17. CASE PatchSpec
  BY <1>17, EndEffect DEF PatchSpec
<1>18. CASE PatchFails
  BY <1>18, EndEffect DEF PatchFails
<1>19. CASE DeleteCluster
  BY <1>19, FinishEffect DEF DeleteCluster, EcsDeletes, Deletable, Continue
<1>20. CASE DeleteFails
  BY <1>20, FinishEffect DEF DeleteFails, EcsDeletes, Deletable
<1>21. CASE Release
  BY <1>21, EndEffect DEF Release, RemoveFinalizer
<1>22. CASE ReleaseFails
  BY <1>22, EndEffect DEF ReleaseFails
<1>23. CASE Crash
  BY <1>23 DEF Crash
<1>24. CASE Resync
  BY <1>24 DEF Resync
<1>25. CASE UserCreates
  BY <1>25 DEF UserCreates, TypeOK, PCs
<1>26. CASE UserEdits
  BY <1>26 DEF UserEdits
<1>27. CASE UserDeletes
  BY <1>27 DEF UserDeletes
<1>28. CASE Drift
  BY <1>28 DEF Drift
<1>29. CASE Vacated
  BY <1>29 DEF Vacated
<1>30. CASE Provisioned
  BY <1>30 DEF Provisioned
<1>31. CASE Forgotten
  BY <1>31 DEF Forgotten
<1>32. CASE ReferenceChanges
  BY <1>32 DEF ReferenceChanges
<1>33. CASE UNCHANGED vars
  BY <1>33 DEF vars
<1> QED
  BY <1>1, <1>2, <1>3, <1>4, <1>5, <1>6, <1>7, <1>8, <1>9, <1>10, <1>11, <1>12,
     <1>13, <1>14, <1>15, <1>16, <1>17, <1>18, <1>19, <1>20, <1>21, <1>22, <1>23, <1>24,
     <1>25, <1>26, <1>27, <1>28, <1>29, <1>30, <1>31, <1>32, <1>33
  DEF Next, Reconcile, Environment

\* What is written back of tags and capacity providers was there before or is what
\* the patch makes of the new ones; without a spec patch it is what was there.
LEMMA WrittenBackEffect ==
    ASSUME TypeOK, NEW r, NEW fields
    PROVE  /\ WrittenBack(r, fields).Tags \in {ko.Tags, FilterSystemTags(r.Tags)}
           /\ WrittenBack(r, fields).CapacityProviders
                 \in {ko.CapacityProviders, {}, r.CapacityProviders}
           /\ fields = {} =>
                 /\ WrittenBack(r, fields).Tags = ko.Tags
                 /\ WrittenBack(r, fields).CapacityProviders = ko.CapacityProviders
                 /\ WrittenBack(r, fields).DefaultCapacityProviderStrategy
                       = ko.DefaultCapacityProviderStrategy
<1>1. DOMAIN ko = {"CapacityProviders", "DefaultCapacityProviderStrategy", "Settings",
                   "Tags", "ARN"}
  BY DEF TypeOK, Resources
<1>2. /\ Patched(r, "Tags") = FilterSystemTags(r.Tags)
      /\ Patched(r, "CapacityProviders") \in {{}, r.CapacityProviders}
  BY DEF Patched
<1>3. /\ WrittenBack(r, fields).Tags \in {ko.Tags, Patched(r, "Tags")}
      /\ WrittenBack(r, fields).CapacityProviders
            \in {ko.CapacityProviders, Patched(r, "CapacityProviders")}
      /\ fields = {} =>
            /\ WrittenBack(r, fields).Tags = ko.Tags
            /\ WrittenBack(r, fields).CapacityProviders = ko.CapacityProviders
            /\ WrittenBack(r, fields).DefaultCapacityProviderStrategy
                  = ko.DefaultCapacityProviderStrategy
  BY <1>1 DEF WrittenBack
<1> QED  BY <1>2, <1>3

\* An operation that writes only the status leaves the spec as it was.
LEMMA FinishKeepsSpec ==
    ASSUME TypeOK, NEW err, NEW r, Finish(err, r)
    PROVE  /\ ko'.Tags = ko.Tags /\ ko'.CapacityProviders = ko.CapacityProviders
           /\ ko'.DefaultCapacityProviderStrategy = ko.DefaultCapacityProviderStrategy
BY WrittenBackEffect, FinishEffect

\* So does a creation that returned no resource, unless the object goes with it.
LEMMA CreateEndsKeepsSpec ==
    ASSUME TypeOK, NEW err, CreateEnds(err)
    PROVE  \/ crState' = "absent" /\ ko' = EmptyResource
           \/ /\ ko'.Tags = ko.Tags /\ ko'.CapacityProviders = ko.CapacityProviders
              /\ ko'.DefaultCapacityProviderStrategy = ko.DefaultCapacityProviderStrategy
BY FinishKeepsSpec DEF CreateEnds, RemoveFinalizer

\* A user's edit sets every field to what it was or to what users write.
LEMMA EditEffect ==
    ASSUME TypeOK, UserEdits
    PROVE  \E r \in UserSpecs :
              /\ ko'.Tags \in {ko.Tags, r.Tags}
              /\ ko'.CapacityProviders \in {ko.CapacityProviders, r.CapacityProviders}
<1>1. PICK f \in SpecFields, r \in UserSpecs : ko' = [ko EXCEPT ![f] = r[f]]
  BY DEF UserEdits
<1>2. ko'.Tags \in {ko.Tags, r.Tags}
  BY <1>1 DEF TypeOK, Resources
<1>3. ko'.CapacityProviders \in {ko.CapacityProviders, r.CapacityProviders}
  BY <1>1 DEF TypeOK, Resources
<1> QED  BY <1>2, <1>3

\* The tags of a resource are what they were set to, and its list stays as it was.
LEMMA TagsSetEffect ==
    ASSUME NEW r \in Resources, NEW v
    PROVE  /\ [r EXCEPT !.Tags = v].Tags = v
           /\ [r EXCEPT !.Tags = v].CapacityProviders = r.CapacityProviders
BY DEF Resources

\* No step puts a system tag into the spec, and none makes the tags of AWS services
\* differ between the two resources that are compared.
LEMMA TagStep ==
    ASSUME IInv, [Next]_vars
    PROVE  TagInv'
<1> USE DEF IInv, crVars, statusVars, workVars, ecsVars, TagInv, UpdateCalls,
        SpecHoldsUserTagsOnly
<1>0. /\ \A k \in SystemKeys : EmptyResource.Tags[k] = NoTag
      /\ AwsKey \in SystemKeys /\ SystemKeys \subseteq Keys
      /\ ControllerKey # AwsKey
  BY TagsAssumption DEF EmptyResource, NoTags, Keys, SystemKeys
<1>1. CASE Begin
  <2>1. ko.Tags \in TagLists /\ ko.Tags[AwsKey] = NoTag
    BY <1>0, ResourceType DEF TypeOK
  <2>2. EnsureTags(ko.Tags)[AwsKey] = NoTag
    BY <1>0, <2>1 DEF EnsureTags, TagLists
  <2>3. ResolveReferences(ko).resource.Tags = ko.Tags
    BY DEF ResolveReferences, TypeOK, Resources
  <2>4. ResolveReferences(ko).resource \in Resources
    BY OperationsType DEF TypeOK
  <2>5. [ResolveReferences(ko).resource EXCEPT !.Tags = EnsureTags(@)].Tags
           = EnsureTags(ko.Tags)
    BY <2>3, <2>4, TagsSetEffect
  <2> QED  BY <1>1, <2>2, <2>5 DEF Begin
<1>2. CASE FindFails
  BY <1>2, FinishEffect, FinishKeepsSpec DEF FindFails
<1>3. CASE FindNothing
  BY <1>3 DEF FindNothing, Continue
<1>4. CASE FindForSync
  <2>1. desired \in Resources /\ Merge(ecs) \in Resources
    BY OperationsType DEF TypeOK
  <2>2. desired.Tags \in TagLists
    BY <2>1, ResourceType
  <2>3. desired.Tags[AwsKey] = NoTag
    BY <1>4, FindForSyncEffect
  <2>4. mirrorAWSTags(desired.Tags, Merge(ecs).Tags)[AwsKey] = Merge(ecs).Tags[AwsKey]
    BY <1>0, <2>2, <2>3 DEF mirrorAWSTags, TagLists
  <2>5. [desired EXCEPT !.Tags = mirrorAWSTags(@, Merge(ecs).Tags)].Tags
           = mirrorAWSTags(desired.Tags, Merge(ecs).Tags)
    BY <2>1, TagsSetEffect
  <2>6. CASE Finish("Terminal", Merge(ecs)) \/ Finish("nil", Merge(ecs))
    BY <2>6, FinishEffect, FinishKeepsSpec
  <2>7. CASE ~Finish("Terminal", Merge(ecs)) /\ ~Finish("nil", Merge(ecs))
    BY <1>4, <2>4, <2>5, <2>7, FindForSyncEffect
  <2> QED  BY <2>6, <2>7
<1>5. CASE FindForDelete
  BY <1>5 DEF FindForDelete, Continue
<1>6. CASE SetManaged
  BY <1>6, FinishEffect, FinishKeepsSpec DEF SetManaged
<1>7. CASE CreateCluster
  BY <1>7, <1>0, CreateEndsEffect, CreateEndsKeepsSpec DEF CreateCluster, Continue
<1>8. CASE CreateFails
  BY <1>8, <1>0, CreateEndsEffect, CreateEndsKeepsSpec DEF CreateFails
<1>9. CASE CreateReplyLost
  BY <1>9, FinishEffect, FinishKeepsSpec DEF CreateReplyLost
<1>10. CASE TagResource
  BY <1>10, ContinueUpdateEffect DEF TagResource
<1>11. CASE UntagResource
  BY <1>11, ContinueUpdateEffect DEF UntagResource
<1>12. CASE SyncTagsPanics
  BY <1>12, EndEffect DEF SyncTagsPanics
<1>13. CASE PutClusterCapacityProviders
  BY <1>13, ContinueUpdateEffect DEF PutClusterCapacityProviders
<1>14. CASE UpdateCluster
  BY <1>14 DEF UpdateCluster, Continue
<1>15. CASE UpdateRefused
  BY <1>15, FinishEffect, FinishKeepsSpec DEF UpdateRefused
<1>16. CASE UpdateFails
  BY <1>16, FinishEffect, FinishKeepsSpec DEF UpdateFails
<1>17. CASE PatchSpec
  <2>1. ko'.Tags \in {ko.Tags, FilterSystemTags(latest.Tags)}
    BY <1>17, WrittenBackEffect DEF PatchSpec
  <2>2. \A k \in SystemKeys : FilterSystemTags(latest.Tags)[k] = NoTag
    BY <1>0 DEF FilterSystemTags
  <2> QED  BY <1>17, <2>1, <2>2, EndEffect DEF PatchSpec
<1>18. CASE PatchFails
  BY <1>18, EndEffect DEF PatchFails
<1>19. CASE DeleteCluster
  BY <1>19, FinishEffect, FinishKeepsSpec DEF DeleteCluster, Continue
<1>20. CASE DeleteFails
  BY <1>20, FinishEffect, FinishKeepsSpec DEF DeleteFails
<1>21. CASE Release
  BY <1>21, <1>0, EndEffect DEF Release, RemoveFinalizer
<1>22. CASE ReleaseFails
  BY <1>22, EndEffect DEF ReleaseFails
<1>23. CASE Crash
  BY <1>23 DEF Crash
<1>24. CASE Resync
  BY <1>24 DEF Resync
<1>25. CASE UserCreates
  BY <1>25 DEF UserCreates, UserSpecs
<1>26. CASE UserEdits
  BY <1>26, EditEffect DEF UserEdits, UserSpecs
<1>27. CASE UserDeletes
  BY <1>27, <1>0 DEF UserDeletes
<1>28. CASE Drift
  BY <1>28 DEF Drift
<1>29. CASE Vacated
  BY <1>29 DEF Vacated
<1>30. CASE Provisioned
  BY <1>30 DEF Provisioned
<1>31. CASE Forgotten
  BY <1>31 DEF Forgotten
<1>32. CASE ReferenceChanges
  BY <1>32 DEF ReferenceChanges
<1>33. CASE UNCHANGED vars
  BY <1>33 DEF vars
<1> QED
  BY <1>1, <1>2, <1>3, <1>4, <1>5, <1>6, <1>7, <1>8, <1>9, <1>10, <1>11, <1>12,
     <1>13, <1>14, <1>15, <1>16, <1>17, <1>18, <1>19, <1>20, <1>21, <1>22, <1>23, <1>24,
     <1>25, <1>26, <1>27, <1>28, <1>29, <1>30, <1>31, <1>32, <1>33
  DEF Next, Reconcile, Environment

\* Neither a call of an update nor the creation puts a part of a list into ECS.
LEMMA EcsStaysWhole ==
    ASSUME TypeOK, Whole(ecs), Whole(desired)
    PROVE  /\ \A call \in UpdateCalls : EcsDoes(call) => Whole(ecs')
           /\ EcsCreates => Whole(ecs')
<1>1. ecs \in Resources /\ desired \in Resources
  BY DEF TypeOK
<1>2. ASSUME NEW call \in UpdateCalls, EcsDoes(call)
      PROVE  ecs'.CapacityProviders \in {ecs.CapacityProviders, desired.CapacityProviders}
  BY <1>1, <1>2 DEF EcsDoes, EcsAfter, EcsPut, EcsUpdate, UpdateCalls, Resources
<1>3. EcsCreates =>
         ecs'.CapacityProviders \in {ecs.CapacityProviders, desired.CapacityProviders}
  BY <1>1 DEF EcsCreates, EcsCreate, Resources
<1> QED  BY <1>2, <1>3 DEF Whole

\* Merging a cluster into a resource keeps the list whole.
LEMMA MergeStaysWhole ==
    ASSUME NEW r \in Resources
    PROVE  /\ Whole(r) => Whole(Merge(r))
           /\ Whole(r) => \A reply \in EcsReply(r) : Whole(Merge(reply))
BY DEF Whole, Merge, EcsReply, Resources

\* No step puts a part of a list of references anywhere but in front of a deletion.
LEMMA ReferenceStep ==
    ASSUME IInv, [Next]_vars
    PROVE  ReferenceInv'
<1> USE DEF IInv, PhaseInv, ReferenceInv, crVars, statusVars, workVars, ecsVars, UpdateCalls
<1>0. Whole(EmptyResource)
  BY DEF Whole, EmptyResource
<1>a. /\ ko \in Resources /\ ecs \in Resources /\ desired \in Resources
      /\ ecs' \in Resources
  BY TypeStep DEF TypeOK
<1>1. CASE Begin
  <2>1. crState = "live" /\ ResolveReferences(ko).error = "nil" =>
           ResolveReferences(ko).resource = ko
    BY DEF ResolveReferences
  <2>2. [ko EXCEPT !.Tags = EnsureTags(@)].CapacityProviders = ko.CapacityProviders
    BY <1>a DEF Resources
  <2> QED  BY <1>1, <2>1, <2>2 DEF Begin, Whole
<1>2. CASE FindFails
  BY <1>2, <1>0, FinishEffect, FinishKeepsSpec DEF FindFails, Whole
<1>3. CASE FindNothing
  BY <1>3 DEF FindNothing, Continue
<1>4. CASE FindForSync
  <2>1. Whole(Merge(ecs))
    BY <1>a, MergeStaysWhole
  <2>2. [desired EXCEPT !.Tags = mirrorAWSTags(@, Merge(ecs).Tags)].CapacityProviders
           = desired.CapacityProviders
    BY <1>a, TagsSetEffect
  <2>3. CASE Finish("Terminal", Merge(ecs)) \/ Finish("nil", Merge(ecs))
    BY <1>4, <1>0, <2>3, FindForSyncEffect, FinishEffect, FinishKeepsSpec DEF Whole
  <2>4. CASE ~Finish("Terminal", Merge(ecs)) /\ ~Finish("nil", Merge(ecs))
    BY <1>4, <2>1, <2>2, <2>4, FindForSyncEffect DEF Whole
  <2> QED  BY <2>3, <2>4
<1>5. CASE FindForDelete
  BY <1>5, <1>a, MergeStaysWhole DEF FindForDelete, Continue
<1>6. CASE SetManaged
  BY <1>6, <1>0, FinishEffect, FinishKeepsSpec DEF SetManaged, Whole
<1>7. CASE CreateCluster
  <2>1. CASE CreatePayloadError(desired)
    BY <1>7, <1>0, <2>1, CreateEndsEffect, CreateEndsKeepsSpec DEF CreateCluster, Whole
  <2>2. CASE ~CreatePayloadError(desired)
    BY <1>7, <1>a, <2>2, EcsStaysWhole, MergeStaysWhole DEF CreateCluster, Continue
  <2> QED  BY <2>1, <2>2
<1>8. CASE CreateFails
  BY <1>8, <1>0, CreateEndsEffect, CreateEndsKeepsSpec DEF CreateFails, Whole
<1>9. CASE CreateReplyLost
  BY <1>9, <1>0, FinishEffect, FinishKeepsSpec, EcsStaysWhole DEF CreateReplyLost, Whole
<1>10. CASE TagResource
  BY <1>10, ContinueUpdateEffect, EcsStaysWhole DEF TagResource
<1>11. CASE UntagResource
  BY <1>11, ContinueUpdateEffect, EcsStaysWhole DEF UntagResource
<1>12. CASE SyncTagsPanics
  BY <1>12, <1>0, EndEffect DEF SyncTagsPanics
<1>13. CASE PutClusterCapacityProviders
  BY <1>13, ContinueUpdateEffect, EcsStaysWhole DEF PutClusterCapacityProviders
<1>14. CASE UpdateCluster
  BY <1>14, <1>a, EcsStaysWhole, MergeStaysWhole DEF UpdateCluster, Continue
<1>15. CASE UpdateRefused
  BY <1>15, <1>0, FinishEffect, FinishKeepsSpec DEF UpdateRefused, Whole
<1>16. CASE UpdateFails
  BY <1>16, <1>0, FinishEffect, FinishKeepsSpec, EcsStaysWhole DEF UpdateFails, Whole
<1>17. CASE PatchSpec
  <2>1. ko'.CapacityProviders \in {ko.CapacityProviders, {}, latest.CapacityProviders}
    BY <1>17, WrittenBackEffect DEF PatchSpec
  <2> QED  BY <1>17, <1>0, <2>1, EndEffect DEF PatchSpec, Whole
<1>18. CASE PatchFails
  BY <1>18, <1>0, EndEffect DEF PatchFails
<1>19. CASE DeleteCluster
  BY <1>19, <1>0, FinishEffect, FinishKeepsSpec DEF DeleteCluster, Continue, Whole
<1>20. CASE DeleteFails
  BY <1>20, <1>0, FinishEffect, FinishKeepsSpec DEF DeleteFails, Whole
<1>21. CASE Release
  BY <1>21, <1>0, EndEffect DEF Release, RemoveFinalizer
<1>22. CASE ReleaseFails
  BY <1>22, <1>0, EndEffect DEF ReleaseFails
<1>23. CASE Crash
  BY <1>23, <1>0 DEF Crash
<1>24. CASE Resync
  BY <1>24 DEF Resync
<1>25. CASE UserCreates
  BY <1>25 DEF UserCreates, UserSpecs, Whole
<1>26. CASE UserEdits
  BY <1>26, EditEffect DEF UserEdits, UserSpecs, Whole
<1>27. CASE UserDeletes
  BY <1>27, <1>0 DEF UserDeletes
<1>28. CASE Drift
  BY <1>28, <1>a DEF Drift, Whole, Resources
<1>29. CASE Vacated
  BY <1>29 DEF Vacated
<1>30. CASE Provisioned
  BY <1>30 DEF Provisioned
<1>31. CASE Forgotten
  BY <1>31, <1>0 DEF Forgotten
<1>32. CASE ReferenceChanges
  BY <1>32 DEF ReferenceChanges
<1>33. CASE UNCHANGED vars
  BY <1>33 DEF vars
<1> QED
  BY <1>1, <1>2, <1>3, <1>4, <1>5, <1>6, <1>7, <1>8, <1>9, <1>10, <1>11, <1>12,
     <1>13, <1>14, <1>15, <1>16, <1>17, <1>18, <1>19, <1>20, <1>21, <1>22, <1>23, <1>24,
     <1>25, <1>26, <1>27, <1>28, <1>29, <1>30, <1>31, <1>32, <1>33
  DEF Next, Reconcile, Environment

\* A cluster goes away under a live object only in a later life of the object.
LEMMA LivesStep ==
    ASSUME IInv, [Next]_vars
    PROVE  LivesInv'
<1> USE DEF IInv, HoldInv, PhaseInv, LivesInv, Exists,
        crVars, statusVars, workVars, ecsVars, UpdateCalls
<1>0. events["lives"] \in Nat
  BY DEF TypeOK, Events
<1>a. \A k \in Events : Happens(k) =>
         events'["lives"] = IF k = "lives" THEN events["lives"] + 1 ELSE events["lives"]
  BY HappensType DEF Events
<1>1. CASE Begin
  BY <1>1 DEF Begin
<1>2. CASE FindFails
  BY <1>2, <1>a, FinishEffect DEF FindFails, Events
<1>3. CASE FindNothing
  BY <1>3 DEF FindNothing, Continue
<1>4. CASE FindForSync
  BY <1>4, FindForSyncEffect, FinishEffect
<1>5. CASE FindForDelete
  BY <1>5 DEF FindForDelete, Continue
<1>6. CASE SetManaged
  BY <1>6, FinishEffect DEF SetManaged
<1>7. CASE CreateCluster
  BY <1>7, CreateEndsEffect DEF CreateCluster, EcsCreates, Continue, RemoveFinalizer
<1>8. CASE CreateFails
  BY <1>8, <1>a, CreateEndsEffect DEF CreateFails, RemoveFinalizer, Events
<1>9. CASE CreateReplyLost
  BY <1>9, <1>a, FinishEffect DEF CreateReplyLost, EcsCreates, Events
<1>10. CASE TagResource
  BY <1>10, ContinueUpdateEffect DEF TagResource, EcsDoes
<1>11. CASE UntagResource
  BY <1>11, ContinueUpdateEffect DEF UntagResource, EcsDoes
<1>12. CASE SyncTagsPanics
  BY <1>12, EndEffect DEF SyncTagsPanics
<1>13. CASE PutClusterCapacityProviders
  BY <1>13, ContinueUpdateEffect DEF PutClusterCapacityProviders, EcsDoes
<1>14. CASE UpdateCluster
  BY <1>14 DEF UpdateCluster, EcsDoes, Continue
<1>15. CASE UpdateRefused
  BY <1>15, <1>a, FinishEffect DEF UpdateRefused, Events
<1>16. CASE UpdateFails
  BY <1>16, <1>a, FinishEffect DEF UpdateFails, EcsDoes, Events
<1>17. CASE PatchSpec
  BY <1>17, EndEffect DEF PatchSpec
<1>18. CASE PatchFails
  BY <1>18, <1>a, EndEffect DEF PatchFails, Events
<1>19. CASE DeleteCluster
  BY <1>19, FinishEffect DEF DeleteCluster, EcsDeletes, Continue
<1>20. CASE DeleteFails
  BY <1>20, <1>a, FinishEffect DEF DeleteFails, EcsDeletes, Events
<1>21. CASE Release
  BY <1>21, EndEffect DEF Release, RemoveFinalizer
<1>22. CASE ReleaseFails
  BY <1>22, <1>a, EndEffect DEF ReleaseFails, Events
<1>23. CASE Crash
  BY <1>23, <1>a DEF Crash, Events
<1>24. CASE Resync
  BY <1>24 DEF Resync
<1>25. CASE UserCreates
  BY <1>25, <1>0, <1>a DEF UserCreates, Events
<1>26. CASE UserEdits
  BY <1>26, <1>a DEF UserEdits, Events
<1>27. CASE UserDeletes
  BY <1>27 DEF UserDeletes
<1>28. CASE Drift
  BY <1>28, <1>a DEF Drift, Events
<1>29. CASE Vacated
  BY <1>29 DEF Vacated
<1>30. CASE Provisioned
  BY <1>30 DEF Provisioned
<1>31. CASE Forgotten
  BY <1>31 DEF Forgotten
<1>32. CASE ReferenceChanges
  BY <1>32, <1>a DEF ReferenceChanges, Events
<1>33. CASE UNCHANGED vars
  BY <1>33 DEF vars
<1> QED
  BY <1>1, <1>2, <1>3, <1>4, <1>5, <1>6, <1>7, <1>8, <1>9, <1>10, <1>11, <1>12,
     <1>13, <1>14, <1>15, <1>16, <1>17, <1>18, <1>19, <1>20, <1>21, <1>22, <1>23, <1>24,
     <1>25, <1>26, <1>27, <1>28, <1>29, <1>30, <1>31, <1>32, <1>33
  DEF Next, Reconcile, Environment

\* Whatever happens is counted, and nothing else is.
LEMMA EventsStep ==
    ASSUME [Next]_vars
    PROVE  events' = events \/ \E k \in Events : Happens(k)
<1>1. Reconcile => events' = events \/ Happens("faults")
  BY DEF Reconcile, Begin, FindFails, FindNothing, FindForSync, FindForDelete,
         SetManaged, CreateCluster, CreateFails, CreateReplyLost, TagResource,
         UntagResource, SyncTagsPanics, PutClusterCapacityProviders, UpdateCluster,
         UpdateRefused, UpdateFails, PatchSpec, PatchFails, DeleteCluster,
         DeleteFails, Release, ReleaseFails
<1>2. Environment => events' = events \/ \E k \in Events : Happens(k)
  BY DEF Environment, Crash, Resync, UserCreates, UserEdits, UserDeletes, Drift,
         Vacated, Provisioned, Forgotten, ReferenceChanges, Events
<1> QED  BY <1>1, <1>2 DEF Next, vars, Events

\* Capacity providers come and go only as that is counted.
LEMMA ReferencesStep ==
    ASSUME [Next]_vars
    PROVE  refReady' = refReady \/ Happens("refs")
<1>1. Reconcile => refReady' = refReady
  BY DEF Reconcile, Begin, FindFails, FindNothing, FindForSync, FindForDelete,
         SetManaged, CreateCluster, CreateFails, CreateReplyLost, TagResource,
         UntagResource, SyncTagsPanics, PutClusterCapacityProviders, UpdateCluster,
         UpdateRefused, UpdateFails, PatchSpec, PatchFails, DeleteCluster,
         DeleteFails, Release, ReleaseFails
<1>2. Environment => refReady' = refReady \/ Happens("refs")
  BY DEF Environment, Crash, Resync, UserCreates, UserEdits, UserDeletes, Drift,
         Vacated, Provisioned, Forgotten, ReferenceChanges
<1> QED  BY <1>1, <1>2 DEF Next, vars

\* Counters never go back.
LEMMA EventsGrow ==
    ASSUME TypeOK, [Next]_vars
    PROVE  \A k \in Events : events[k] \in Nat /\ events'[k] >= events[k]
<1>1. \A k \in Events : events[k] \in Nat
  BY DEF TypeOK
<1>2. CASE events' = events
  BY <1>1, <1>2
<1>3. CASE \E k \in Events : Happens(k)
  BY <1>1, <1>3, HappensType
<1> QED  BY <1>2, <1>3, EventsStep

\* What a reconcile that ends with an error of ECS's validation leaves: the reason
\* is in the object, or the object is queued.
LEMMA RejectedHasReason ==
    ASSUME IInv, pc # "idle", ~queued, crState # "absent", MayBeInvalid(desired)
    PROVE  \/ events["refs"] >= 1 /\ ko.CapacityProviders # {}
           \/ ko.DefaultCapacityProviderStrategy = Huge
<1>1. /\ events["refs"] \in Nat /\ desired.CapacityProviders \in SUBSET Providers
  BY ResourceType DEF IInv, TypeOK, Events
<1>2. CASE ~(desired.CapacityProviders \subseteq refReady)
  <2>1. events["refs"] # 0 /\ ko.CapacityProviders # {}
    BY <1>1, <1>2 DEF IInv, ReasonInv
  <2> QED  BY <1>1, <2>1
<1>3. CASE desired.DefaultCapacityProviderStrategy = Huge
  BY <1>3 DEF IInv, ReasonInv
<1> QED  BY <1>2, <1>3 DEF MayBeInvalid

\* The end of a reconcile leaves a queued object in the queue.
LEMMA EndKeepsQueued ==
    ASSUME NEW err, End(err), crState' # "absent", ~queued'
    PROVE  ~queued
BY DEF End

\* No step makes a reconcile work with what its object does not say, and none leaves
\* an object terminal without a reason.
LEMMA ReasonStep ==
    ASSUME IInv, [Next]_vars
    PROVE  ReasonInv'
<1> DEFINE reads ==
           /\ crState = "absent" => outcome = "none"
           /\ pc # "idle" /\ ~queued /\ crState # "absent" =>
                 /\ desired.DefaultCapacityProviderStrategy
                       = ko.DefaultCapacityProviderStrategy
                 /\ desired.CapacityProviders \subseteq ko.CapacityProviders
<1>a. events'["refs"] = 0 => refReady' = Providers
  <2>1. events["refs"] \in Nat
    BY DEF IInv, TypeOK, Events
  <2>2. Happens("refs") => events'["refs"] = events["refs"] + 1
    BY HappensType DEF IInv, Events
  <2>3. events'["refs"] >= events["refs"]
    BY EventsGrow DEF IInv, Events
  <2> QED  BY <2>1, <2>2, <2>3, ReferencesStep DEF IInv, ReasonInv
<1>b. /\ events["lives"] \in Nat /\ events'["lives"] \in Nat
      /\ events'["lives"] >= events["lives"]
      /\ events["refs"] \in Nat /\ events'["refs"] \in Nat
      /\ events'["refs"] >= events["refs"]
  BY EventsGrow, TypeStep DEF IInv, TypeOK, Events
<1>c. ASSUME UNCHANGED <<pc, queued, crState, desired, ko, outcome>>
      PROVE  (reads /\ TerminalHasReason)'
  BY <1>b, <1>c DEF IInv, ReasonInv, TerminalHasReason
<1>d. ASSUME pc' # "idle", UNCHANGED <<queued, crState, outcome>>, pc # "idle",
             desired'.DefaultCapacityProviderStrategy
                = desired.DefaultCapacityProviderStrategy,
             desired'.CapacityProviders = desired.CapacityProviders,
             ko'.DefaultCapacityProviderStrategy = ko.DefaultCapacityProviderStrategy,
             ko'.CapacityProviders = ko.CapacityProviders
      PROVE  (reads /\ TerminalHasReason)'
  BY <1>d DEF IInv, ReasonInv, TerminalHasReason
<1>e. ASSUME NEW err \in {"nil", "Retryable", "NotInt32", "Panic"}, End(err)
      PROVE  (reads /\ TerminalHasReason)'
  <2>1. /\ pc' = "idle" /\ outcome' # "terminal"
        /\ crState' = "absent" => outcome' = "none"
    BY <1>e, EndEffect DEF OutcomeOf
  <2> QED  BY <2>1 DEF TerminalHasReason
<1>f. ASSUME NEW err \in {"nil", "Retryable", "NotInt32", "Panic"}, NEW r,
             Finish(err, r) \/ CreateEnds(err)
      PROVE  (reads /\ TerminalHasReason)'
  BY <1>e, <1>f DEF Finish, CreateEnds
<1>g. ASSUME NEW r, Finish("InvalidParameter", r) \/ CreateEnds("InvalidParameter"),
             pc # "idle", MayBeInvalid(desired)
      PROVE  (reads /\ TerminalHasReason)'
  <2>1. /\ pc' = "idle" /\ End("InvalidParameter")
        /\ crState' = "absent" => outcome' = "none"
    BY <1>g, EndEffect, FinishEffect, CreateEndsEffect DEF Finish, CreateEnds
  <2>2. ASSUME outcome' = "terminal", ~queued'
        PROVE  TerminalHasReason'
    <3>1. crState' # "absent" /\ ~queued
      BY <2>1, <2>2, EndEffect, EndKeepsQueued
    <3>2. /\ crState # "absent" /\ ko'.CapacityProviders = ko.CapacityProviders
          /\ ko'.DefaultCapacityProviderStrategy = ko.DefaultCapacityProviderStrategy
      BY <1>g, <3>1, FinishEffect, FinishKeepsSpec, CreateEndsEffect, CreateEndsKeepsSpec
      DEF IInv, RemoveFinalizer
    <3>3. \/ events["refs"] >= 1 /\ ko.CapacityProviders # {}
          \/ ko.DefaultCapacityProviderStrategy = Huge
      BY <1>g, <3>1, <3>2, RejectedHasReason
    <3> QED  BY <1>b, <3>2, <3>3 DEF TerminalHasReason
  <2> QED  BY <2>1, <2>2 DEF TerminalHasReason
<1> SUFFICES (reads /\ TerminalHasReason)'
  BY <1>a DEF ReasonInv
<1> USE DEF crVars, statusVars, workVars, ecsVars
<1>1. CASE Begin
  <2>1. ko \in Resources
    BY DEF IInv, TypeOK
  <2>2. CASE crState = "live" /\ ResolveReferences(ko).error # "nil"
    BY <1>1, <2>2 DEF Begin, TerminalHasReason
  <2>3. CASE ~(crState = "live" /\ ResolveReferences(ko).error # "nil")
    <3> DEFINE r == ResolveReferences(ko).resource
    <3>1. /\ r \in Resources /\ r.CapacityProviders \subseteq ko.CapacityProviders
          /\ r.DefaultCapacityProviderStrategy = ko.DefaultCapacityProviderStrategy
      BY <2>1, OperationsType DEF ResolveReferences, Resources
    <3>2. /\ desired' = [r EXCEPT !.Tags = EnsureTags(@)] /\ ko' = ko
          /\ pc' = "find" /\ crState' # "absent"
      BY <1>1, <2>3 DEF Begin
    <3>3. /\ desired'.CapacityProviders = r.CapacityProviders
          /\ desired'.DefaultCapacityProviderStrategy = r.DefaultCapacityProviderStrategy
      BY <3>1, <3>2 DEF Resources
    <3> QED  BY <3>1, <3>2, <3>3 DEF TerminalHasReason
  <2> QED  BY <2>2, <2>3
<1>2. CASE FindFails
  BY <1>2, <1>f DEF FindFails
<1>3. CASE FindNothing
  BY <1>3, <1>d DEF FindNothing, Continue
<1>4. CASE FindForSync
  <2>1. CASE ~finalizer /\ Finish("Terminal", Merge(ecs))
    <3>1. crState = "live" => events["lives"] >= 2
      BY <1>4, <2>1
      DEF FindForSync, Found, IInv, TypeOK, ClusterStatuses, HoldInv, LivesInv, Exists
    <3>2. crState # "deleting"
      BY <2>1 DEF IInv, HoldInv
    <3> QED  BY <1>b, <2>1, <3>1, <3>2, FinishEffect DEF IInv, TypeOK, TerminalHasReason
  <2>2. CASE Finish("nil", Merge(ecs))
    BY <1>f, <2>2
  <2>3. CASE /\ desired' = [desired EXCEPT !.Tags = mirrorAWSTags(@, Merge(ecs).Tags)]
             /\ pc' \in UpdateCalls
             /\ UNCHANGED <<crVars, mode, statusVars>>
    <3>1. /\ desired'.CapacityProviders = desired.CapacityProviders
          /\ desired'.DefaultCapacityProviderStrategy
                = desired.DefaultCapacityProviderStrategy
      BY <2>3 DEF IInv, TypeOK, Resources
    <3> QED  BY <1>4, <1>d, <2>3, <3>1 DEF FindForSync, UpdateCalls
  <2> QED  BY <1>4, <2>1, <2>2, <2>3, FindForSyncEffect
<1>5. CASE FindForDelete
  BY <1>5, <1>d DEF FindForDelete, Continue
<1>6. CASE SetManaged
  BY <1>6, <1>d, <1>f DEF SetManaged
<1>7. CASE CreateCluster
  <2>1. CASE CreatePayloadError(desired)
    BY <1>7, <2>1, <1>f DEF CreateCluster
  <2>2. CASE ~CreatePayloadError(desired)
    BY <1>7, <2>2, <1>d DEF CreateCluster, Continue
  <2> QED  BY <2>1, <2>2
<1>8. CASE CreateFails
  BY <1>8, <1>f, <1>g DEF CreateFails
<1>9. CASE CreateReplyLost
  BY <1>9, <1>f DEF CreateReplyLost
<1>10. CASE TagResource \/ UntagResource \/ PutClusterCapacityProviders
  <2>1. PICK done \in UpdateCalls : ContinueUpdate(done)
    BY <1>10 DEF TagResource, UntagResource, PutClusterCapacityProviders, UpdateCalls
  <2>2. pc # "idle" /\ pc' # "idle"
    BY <1>10, <2>1, ContinueUpdateEffect
    DEF TagResource, UntagResource, PutClusterCapacityProviders, UpdateCalls
  <2> QED  BY <1>d, <2>1, <2>2, ContinueUpdateEffect
<1>11. CASE SyncTagsPanics
  BY <1>11, <1>e DEF SyncTagsPanics
<1>12. CASE UpdateCluster
  BY <1>12, <1>d DEF UpdateCluster, Continue
<1>13. CASE UpdateRefused
  BY <1>13, <1>f, <1>g DEF UpdateRefused, UpdateCalls
<1>14. CASE UpdateFails
  BY <1>14, <1>f DEF UpdateFails
<1>15. CASE PatchSpec
  BY <1>15, <1>e DEF PatchSpec
<1>16. CASE PatchFails
  BY <1>16, <1>e DEF PatchFails
<1>17. CASE DeleteCluster
  BY <1>17, <1>d, <1>f DEF DeleteCluster, Continue
<1>18. CASE DeleteFails
  BY <1>18, <1>f DEF DeleteFails
<1>19. CASE Release
  BY <1>19, <1>e DEF Release
<1>20. CASE ReleaseFails
  BY <1>20, <1>e DEF ReleaseFails
<1>21. CASE Crash
  <2>1. pc' = "idle" /\ (queued' \/ crState' = "absent") /\ outcome' = outcome
    BY <1>21 DEF Crash
  <2>2. crState' = "absent" => outcome' = "none"
    BY <1>21, <2>1 DEF Crash, IInv, ReasonInv
  <2> QED  BY <2>1, <2>2 DEF TerminalHasReason
<1>22. CASE Resync
  BY <1>22 DEF Resync, TerminalHasReason
<1>23. CASE UserCreates
  BY <1>23 DEF UserCreates, TerminalHasReason
<1>24. CASE UserEdits
  BY <1>24 DEF UserEdits, TerminalHasReason
<1>25. CASE UserDeletes
  BY <1>25 DEF UserDeletes, TerminalHasReason
<1>26. CASE Drift \/ Vacated \/ Provisioned \/ Forgotten \/ ReferenceChanges
  BY <1>26, <1>c DEF Drift, Vacated, Provisioned, Forgotten, ReferenceChanges
<1>27. CASE UNCHANGED vars
  BY <1>27, <1>c DEF vars
<1> QED
  BY <1>1, <1>2, <1>3, <1>4, <1>5, <1>6, <1>7, <1>8, <1>9, <1>10, <1>11, <1>12,
     <1>13, <1>14, <1>15, <1>16, <1>17, <1>18, <1>19, <1>20, <1>21, <1>22, <1>23, <1>24,
     <1>25, <1>26, <1>27
  DEF Next, Reconcile, Environment

\* Before the user creates the object everything is as the invariant says.
LEMMA InitInv == Init => IInv
<1> SUFFICES ASSUME Init PROVE IInv
  OBVIOUS
<1>1. TypeOK
  BY EmptyType DEF Init, TypeOK, PCs, ClusterStatuses, Events
<1>2. \A k \in SystemKeys : ko.Tags[k] = NoTag
  BY DEF Init, EmptyResource, NoTags, Keys
<1>3. HoldInv /\ PhaseInv /\ TagInv
  BY <1>2 DEF Init, HoldInv, PhaseInv, TagInv, SpecHoldsUserTagsOnly, Exists, UpdateCalls
<1>4. ReferenceInv /\ LivesInv /\ ReasonInv
  BY DEF Init, EmptyResource, ReferenceInv, Whole, LivesInv, ReasonInv, TerminalHasReason
<1> QED  BY <1>1, <1>3, <1>4 DEF IInv

-----------------------------------------------------------------------------
(* What the invariant gives.                                               *)

\* The inductive invariant.
THEOREM Invariance == Spec => []IInv
<1>1. Init => IInv
  BY InitInv
<1>2. IInv /\ [Next]_vars => IInv'
  BY TypeStep, HoldStep, PhaseStep, TagStep, ReferenceStep, LivesStep, ReasonStep
  DEF IInv
<1> QED  BY <1>1, <1>2, PTL DEF Spec

\* The variables keep their types.
THEOREM TypeCorrect == Spec => []TypeOK
<1>1. IInv => TypeOK
  BY DEF IInv
<1> QED  BY <1>1, Invariance, PTL

\* No fault, crash, edit or deletion, in whatever order, leaves a cluster behind
\* that no object holds, by name or by references and with either runtime.
THEOREM ClusterIsNeverOrphaned == Spec => []NoOrphan
<1>1. IInv => NoOrphan
  BY DEF IInv, HoldInv, NoOrphan
<1> QED  BY <1>1, Invariance, PTL

\* SyncTags never asks ECS to change the tag of an AWS service.
THEOREM AwsTagsLeftAlone == Spec => []LeavesAwsTagsAlone
<1>1. IInv => LeavesAwsTagsAlone
  BY DEF IInv, TagInv, LeavesAwsTagsAlone, UpdateCalls, toAdd, toDelete
<1> QED  BY <1>1, Invariance, PTL

\* No tag of the controller or of an AWS service gets into the user's spec.
THEOREM SpecHoldsUserTags == Spec => []SpecHoldsUserTagsOnly
<1>1. IInv => SpecHoldsUserTagsOnly
  BY DEF IInv, TagInv
<1> QED  BY <1>1, Invariance, PTL

\* The cluster never gets a part of a list of references.
THEOREM ReferencesWhole == Spec => []NoPartialReference
<1>1. IInv => NoPartialReference
  BY DEF IInv, ReferenceInv, Whole, NoPartialReference
<1> QED  BY <1>1, Invariance, PTL

\* An object that stays terminal has its reason in what users see, and no fault,
\* drift or crash is one.
THEOREM TerminalErrorsHaveReasons == Spec => []TerminalHasReason
<1>1. IInv => TerminalHasReason
  BY DEF IInv, ReasonInv
<1> QED  BY <1>1, Invariance, PTL

-----------------------------------------------------------------------------
(* The manager implements the contract of ManagedResource.                 *)

\* Every step of the manager is a step of the contract or leaves it alone.
LEMMA LifecycleStep ==
    ASSUME IInv, IInv', [Next]_vars
    PROVE  [Lifecycle!Next]_(Lifecycle!vars)
<1>1. SUFFICES \/ crState = "absent" /\ crState' = "live"
                  /\ finalizer' = finalizer /\ Exists' = Exists
               \/ crState # "absent" /\ finalizer' = TRUE
                  /\ crState' = crState /\ Exists' = Exists
               \/ crState # "absent" /\ finalizer /\ ~Exists /\ Exists' = TRUE
                  /\ crState' = crState /\ finalizer' = finalizer
               \/ crState = "live"
                  /\ crState' = (IF finalizer THEN "deleting" ELSE "absent")
                  /\ finalizer' = finalizer /\ Exists' = Exists
               \/ crState = "deleting" /\ Exists /\ Exists' = FALSE
                  /\ crState' = crState /\ finalizer' = finalizer
               \/ finalizer /\ ~Exists /\ finalizer' = FALSE
                  /\ crState' = (IF crState = "deleting" THEN "absent" ELSE crState)
                  /\ Exists' = Exists
               \/ crState' = crState /\ finalizer' = finalizer /\ Exists' = Exists
  BY DEF Lifecycle!Next, Lifecycle!Declare, Lifecycle!Hold,
     Lifecycle!Provision, Lifecycle!Retire, Lifecycle!Deprovision,
     Lifecycle!LetGo, Lifecycle!vars
<1> USE DEF IInv, TypeOK, HoldInv, PhaseInv, Exists, UpdateCalls,
            crVars, statusVars, workVars, ecsVars
<1>2. CASE Begin
  BY <1>2 DEF Begin
<1>3. CASE FindFails
  BY <1>3, FinishEffect DEF FindFails
<1>4. CASE FindNothing
  BY <1>4 DEF FindNothing, Continue
<1>5. CASE FindForSync
  BY <1>5, FindForSyncEffect, FinishEffect
<1>6. CASE FindForDelete
  BY <1>6 DEF FindForDelete, Continue
<1>7. CASE SetManaged
  BY <1>7, FinishEffect DEF SetManaged
<1>8. CASE CreateCluster
  BY <1>8, CreateEndsEffect DEF CreateCluster, EcsCreates, Found, Continue, RemoveFinalizer
<1>9. CASE CreateFails
  BY <1>9, CreateEndsEffect DEF CreateFails, RemoveFinalizer
<1>10. CASE CreateReplyLost
  BY <1>10, FinishEffect DEF CreateReplyLost, EcsCreates, Found
<1>11. CASE TagResource
  BY <1>11, ContinueUpdateEffect DEF TagResource, EcsDoes
<1>12. CASE UntagResource
  BY <1>12, ContinueUpdateEffect DEF UntagResource, EcsDoes
<1>13. CASE SyncTagsPanics
  BY <1>13 DEF SyncTagsPanics
<1>14. CASE PutClusterCapacityProviders
  BY <1>14, ContinueUpdateEffect DEF PutClusterCapacityProviders, EcsDoes
<1>15. CASE UpdateCluster
  BY <1>15 DEF UpdateCluster, EcsDoes, Continue
<1>16. CASE UpdateRefused
  BY <1>16, FinishEffect DEF UpdateRefused
<1>17. CASE UpdateFails
  BY <1>17, FinishEffect DEF UpdateFails, EcsDoes
<1>18. CASE PatchSpec
  BY <1>18 DEF PatchSpec
<1>19. CASE PatchFails
  BY <1>19 DEF PatchFails
<1>20. CASE DeleteCluster
  <2>1. CASE Deletable
    <3>1. crState = "deleting" /\ Exists /\ ~Exists'
      BY <1>20, <2>1 DEF DeleteCluster, EcsDeletes, Deletable
    <3>2. crState' = crState /\ finalizer' = finalizer
      BY <1>20, <2>1 DEF DeleteCluster, Continue
    <3> QED  BY <3>1, <3>2
  <2>2. CASE ~Deletable
    BY <1>20, <2>2, FinishEffect DEF DeleteCluster
  <2> QED  BY <2>1, <2>2
<1>21. CASE DeleteFails
  <2>1. crState' = crState /\ finalizer' = finalizer
    BY <1>21, FinishEffect DEF DeleteFails
  <2>2. CASE UNCHANGED status
    BY <2>1, <2>2
  <2>3. CASE Deletable /\ EcsDeletes
    <3>1. crState = "deleting" /\ Exists /\ ~Exists'
      BY <1>21, <2>3 DEF DeleteFails, EcsDeletes, Deletable
    <3> QED  BY <2>1, <3>1
  <2> QED  BY <1>21, <2>2, <2>3 DEF DeleteFails
<1>22. CASE Release
  BY <1>22 DEF Release, RemoveFinalizer
<1>23. CASE ReleaseFails
  BY <1>23 DEF ReleaseFails
<1>24. CASE Crash
  BY <1>24 DEF Crash
<1>25. CASE Resync
  BY <1>25 DEF Resync
<1>26. CASE UserCreates
  BY <1>26 DEF UserCreates
<1>27. CASE UserEdits
  BY <1>27 DEF UserEdits
<1>28. CASE UserDeletes
  BY <1>28 DEF UserDeletes
<1>29. CASE Drift
  BY <1>29 DEF Drift
<1>30. CASE Vacated
  BY <1>30 DEF Vacated
<1>31. CASE Provisioned
  BY <1>31 DEF Provisioned
<1>32. CASE Forgotten
  BY <1>32 DEF Forgotten
<1>33. CASE ReferenceChanges
  BY <1>33 DEF ReferenceChanges
<1>34. CASE UNCHANGED vars
  BY <1>34 DEF vars
<1> QED
  BY <1>2, <1>3, <1>4, <1>5, <1>6, <1>7, <1>8, <1>9, <1>10, <1>11, <1>12, <1>13,
     <1>14, <1>15, <1>16, <1>17, <1>18, <1>19, <1>20, <1>21, <1>22, <1>23, <1>24, <1>25,
     <1>26, <1>27, <1>28, <1>29, <1>30, <1>31, <1>32, <1>33, <1>34
  DEF Next, Reconcile, Environment

\* The manager of a Cluster implements the contract of ManagedResource.
THEOREM ManagerImplementsLifecycle == Spec => ImplementsLifecycle
<1>1. Init => Lifecycle!Init
  BY DEF Init, Lifecycle!Init, Exists
<1>2. IInv /\ IInv' /\ [Next]_vars => [Lifecycle!Next]_(Lifecycle!vars)
  BY LifecycleStep
<1> QED
  BY <1>1, <1>2, Invariance, PTL DEF Spec, ImplementsLifecycle, Lifecycle!Spec

-----------------------------------------------------------------------------
(* The spec patch keeps the user's edits.                                  *)

\* The tags in ECS, key by key: those of desired where the calls made so far have
\* set or removed one, and those of latest everywhere else.
TagsFollow ==
    \A k \in Keys :
       ecs.Tags[k] = IF \/ k \in toAdd(desired.Tags, latest.Tags) /\ pc # "tag"
                        \/ /\ k \in toDelete(desired.Tags, latest.Tags)
                           /\ pc \in {"put", "update"}
                     THEN desired.Tags[k] ELSE latest.Tags[k]

\* The same for the two lists PutClusterCapacityProviders sends.
ProvidersFollow ==
    IF pc = "update"
    THEN /\ ecs.CapacityProviders = desired.CapacityProviders
         /\ ecs.DefaultCapacityProviderStrategy \in
               {desired.DefaultCapacityProviderStrategy,
                Stored(desired.DefaultCapacityProviderStrategy)}
    ELSE /\ ecs.CapacityProviders = latest.CapacityProviders
         /\ ecs.DefaultCapacityProviderStrategy = latest.DefaultCapacityProviderStrategy

\* a carries what b sets.
Carries(a, b) ==
    /\ a.Tags = b.Tags /\ a.CapacityProviders = b.CapacityProviders
    /\ b.DefaultCapacityProviderStrategy \notin {Bare, Huge} =>
          a.DefaultCapacityProviderStrategy = b.DefaultCapacityProviderStrategy
    /\ b.Settings # Nil => a.Settings = b.Settings

\* Unless others change the cluster, the calls of an update lead ECS from latest to
\* desired, and what is patched carries what was read.
CalmInv ==
    events["drifts"] = 0 =>
       /\ pc \in UpdateCalls =>
             TagsFollow /\ ProvidersFollow /\ ecs.Settings = latest.Settings
       /\ pc = "patch" => Carries(latest, desired)

\* The call an update goes on with passes over none it has to make.
LEMMA NextCallEffect ==
    ASSUME NEW d, NEW l, NEW done \in {"find"} \cup UpdateCalls,
           NEW first, first = FirstOf(NextCalls(d, l, done)),
           NextCalls(d, l, done) # {}
    PROVE  /\ first \in UpdateCalls
           /\ done = "find" /\ first # "tag" => toAdd(d.Tags, l.Tags) = {}
           /\ done \in {"find", "tag"} /\ first \in {"put", "update"} =>
                 toDelete(d.Tags, l.Tags) = {}
           /\ done \in {"find", "tag", "untag"} /\ first = "update" =>
                 "put" \notin CallsOfUpdate(d, l)
           /\ done # "find" => first # "tag"
           /\ done \in {"untag", "put", "update"} => first \in {"put", "update"}
           /\ done \in {"put", "update"} => first = "update"
<1> DEFINE calls == NextCalls(d, l, done)
<1>1. /\ CallOrder["find"] = 0 /\ CallOrder["tag"] = 1 /\ CallOrder["untag"] = 2
      /\ CallOrder["put"] = 3 /\ CallOrder["update"] = 4
  BY DEF CallOrder
<1>2. calls \in SUBSET UpdateCalls
  BY DEF NextCalls, CallsOfUpdate
<1>3. first \in calls /\ \A e \in calls : CallOrder[first] <= CallOrder[e]
  BY <1>2, FirstOfType
<1>4. first \in UpdateCalls /\ CallOrder[first] > CallOrder[done]
  BY <1>2, <1>3 DEF NextCalls
<1>5. /\ "tag" \in calls <=> toAdd(d.Tags, l.Tags) # {} /\ CallOrder["tag"] > CallOrder[done]
      /\ "untag" \in calls <=>
            toDelete(d.Tags, l.Tags) # {} /\ CallOrder["untag"] > CallOrder[done]
      /\ "put" \in calls <=>
            "put" \in CallsOfUpdate(d, l) /\ CallOrder["put"] > CallOrder[done]
  BY DEF NextCalls, CallsOfUpdate, UpdateCalls
<1>6. /\ "tag" \in calls => first = "tag"
      /\ "untag" \in calls => first \in {"tag", "untag"}
      /\ "put" \in calls => first # "update"
  BY <1>1, <1>3, <1>4 DEF UpdateCalls
<1> QED  BY <1>1, <1>4, <1>5, <1>6 DEF UpdateCalls

\* Once all tags are set and removed ECS has those of desired.
LEMMA TagsArrive ==
    ASSUME TypeOK, TagsFollow, pc = "update"
    PROVE  ecs.Tags = desired.Tags
<1>1. ecs.Tags \in TagLists /\ desired.Tags \in TagLists /\ latest.Tags \in TagLists
  BY ResourceType DEF TypeOK
<1>2. ASSUME NEW k \in Keys PROVE ecs.Tags[k] = desired.Tags[k]
  BY <1>2 DEF TagsFollow, toAdd, toDelete
<1> QED  BY <1>1, <1>2 DEF TagLists

\* The cluster has been created as desired, but for what ECS sets by itself.
LEMMA CreatedCarries ==
    ASSUME IInv, CreateCluster, pc' = "patch"
    PROVE  Carries(latest', desired')
<1>1. desired \in Resources /\ ~CreatePayloadError(desired) /\ ~Found(status)
  BY CreateEndsEffect DEF IInv, TypeOK, PhaseInv, CreateCluster, Found
<1>2. latest' = Merge(EcsCreate(desired)) /\ desired' = desired
  BY <1>1 DEF CreateCluster, EcsCreates, Continue
<1>3. EcsCreate(desired) \in Resources
  BY <1>1, OperationsType
<1> QED  BY <1>1, <1>2, <1>3 DEF Carries, Merge, EcsCreate, Stored, Resources

\* The same for the end of an update.
LEMMA UpdatedCarries ==
    ASSUME ~RepliesWithoutTags, IInv, UpdateCluster, TagsFollow, ProvidersFollow
    PROVE  Carries(latest', desired')
<1>1. ecs \in Resources /\ desired \in Resources /\ ecs' = EcsUpdate(ecs, desired)
  BY DEF IInv, TypeOK, UpdateCluster, EcsDoes, EcsAfter
<1>2. latest' = Merge(ecs') /\ desired' = desired /\ pc = "update"
  BY DEF UpdateCluster, EcsReply, Continue
<1>3. ecs.Tags = desired.Tags
  BY <1>2, TagsArrive DEF IInv
<1>4. /\ latest'.Tags = ecs.Tags /\ latest'.CapacityProviders = ecs.CapacityProviders
      /\ latest'.DefaultCapacityProviderStrategy = ecs.DefaultCapacityProviderStrategy
      /\ desired.Settings # Nil => latest'.Settings = desired.Settings
  BY <1>1, <1>2 DEF Merge, EcsUpdate, Resources
<1> QED  BY <1>2, <1>3, <1>4 DEF Carries, ProvidersFollow, Stored

\* A call of an update that goes on to another one brings ECS a step nearer.
LEMMA FollowStep ==
    ASSUME IInv, TagsFollow, ProvidersFollow, ecs.Settings = latest.Settings,
           TagResource \/ UntagResource \/ PutClusterCapacityProviders,
           pc' \in UpdateCalls
    PROVE  TagsFollow' /\ ProvidersFollow' /\ ecs'.Settings = latest'.Settings
<1> DEFINE add == toAdd(desired.Tags, latest.Tags)
           delete == toDelete(desired.Tags, latest.Tags)
<1>1. ecs \in Resources /\ desired \in Resources /\ latest \in Resources
  BY DEF IInv, TypeOK
<1>2. /\ pc \in UpdateCalls /\ ContinueUpdate(pc)
      /\ ecs' = EcsAfter(pc)
  BY DEF TagResource, UntagResource, PutClusterCapacityProviders, EcsDoes, UpdateCalls
<1>3. /\ latest' = latest /\ desired' = desired
      /\ NextCalls(desired, latest, pc) # {}
      /\ pc' = FirstOf(NextCalls(desired, latest, pc))
  BY <1>2, ContinueUpdateEffect DEF UpdateCalls
<1>4. /\ pc \in {"find", "tag"} /\ pc' \in {"put", "update"} => delete = {}
      /\ pc \in {"find", "tag", "untag"} /\ pc' = "update" =>
            "put" \notin CallsOfUpdate(desired, latest)
      /\ pc # "find" => pc' # "tag"
      /\ pc \in {"untag", "put", "update"} => pc' \in {"put", "update"}
      /\ pc \in {"put", "update"} => pc' = "update"
  <2>1. pc \in {"find"} \cup UpdateCalls
    BY <1>2
  <2> QED  BY <1>3, <2>1, NextCallEffect
<1>5. "put" \notin CallsOfUpdate(desired, latest) =>
         /\ desired.CapacityProviders = latest.CapacityProviders
         /\ desired.DefaultCapacityProviderStrategy = latest.DefaultCapacityProviderStrategy
  BY DEF CallsOfUpdate, UpdateCalls, newResourceDelta, SpecFields
<1>6. pc \in {"tag", "untag", "put"}
  BY DEF TagResource, UntagResource, PutClusterCapacityProviders
<1>7. CASE pc = "tag"
  <2>1. ecs' = [ecs EXCEPT !.Tags = Tagged(@, desired.Tags, add)]
    BY <1>2, <1>7 DEF EcsAfter
  <2>2. /\ ecs'.Tags = Tagged(ecs.Tags, desired.Tags, add)
        /\ ecs'.CapacityProviders = ecs.CapacityProviders
        /\ ecs'.DefaultCapacityProviderStrategy = ecs.DefaultCapacityProviderStrategy
        /\ ecs'.Settings = ecs.Settings
    BY <1>1, <2>1, TagsSetEffect
  <2>3. TagsFollow'
    BY <1>3, <1>4, <1>7, <2>2 DEF TagsFollow, Tagged
  <2>4. ProvidersFollow'
    BY <1>3, <1>4, <1>5, <1>7, <2>2 DEF ProvidersFollow
  <2> QED  BY <1>3, <2>2, <2>3, <2>4
<1>8. CASE pc = "untag"
  <2>1. ecs' = [ecs EXCEPT !.Tags = Untagged(@, delete)]
    BY <1>2, <1>8 DEF EcsAfter
  <2>2. /\ ecs'.Tags = Untagged(ecs.Tags, delete)
        /\ ecs'.CapacityProviders = ecs.CapacityProviders
        /\ ecs'.DefaultCapacityProviderStrategy = ecs.DefaultCapacityProviderStrategy
        /\ ecs'.Settings = ecs.Settings
    BY <1>1, <2>1, TagsSetEffect
  <2>3. \A k \in delete : desired.Tags[k] = NoTag
    BY DEF toDelete
  <2>4. TagsFollow'
    BY <1>3, <1>4, <1>8, <2>2, <2>3 DEF TagsFollow, Untagged
  <2>5. ProvidersFollow'
    BY <1>3, <1>4, <1>5, <1>8, <2>2 DEF ProvidersFollow
  <2> QED  BY <1>3, <2>2, <2>4, <2>5
<1>9. CASE pc = "put"
  <2>1. ecs' = EcsPut(ecs, desired)
    BY <1>2, <1>9 DEF EcsAfter
  <2>2. /\ ecs'.Tags = ecs.Tags /\ ecs'.Settings = ecs.Settings
        /\ ecs'.CapacityProviders = desired.CapacityProviders
        /\ ecs'.DefaultCapacityProviderStrategy =
              Stored(desired.DefaultCapacityProviderStrategy)
    BY <1>1, <2>1 DEF EcsPut, Resources
  <2>3. TagsFollow'
    BY <1>3, <1>4, <1>9, <2>2 DEF TagsFollow
  <2>4. ProvidersFollow'
    BY <1>3, <1>4, <1>9, <2>2 DEF ProvidersFollow
  <2> QED  BY <1>3, <2>2, <2>3, <2>4
<1> QED  BY <1>6, <1>7, <1>8, <1>9

\* An update starts with ECS as it was observed.
LEMMA FollowStart ==
    ASSUME IInv, FindForSync, pc' \in UpdateCalls
    PROVE  TagsFollow' /\ ProvidersFollow' /\ ecs'.Settings = latest'.Settings
<1>1. /\ ecs' = ecs /\ latest' = Merge(ecs) /\ ecs \in Resources
      /\ NextCalls(desired', latest', "find") # {}
      /\ pc' = FirstOf(NextCalls(desired', latest', "find"))
  BY FindForSyncEffect, FinishEffect DEF IInv, TypeOK, ecsVars, UpdateCalls
<1>2. /\ pc' # "tag" => toAdd(desired'.Tags, latest'.Tags) = {}
      /\ pc' \in {"put", "update"} => toDelete(desired'.Tags, latest'.Tags) = {}
      /\ pc' = "update" => "put" \notin CallsOfUpdate(desired', latest')
  BY <1>1, NextCallEffect
<1>3. "put" \notin CallsOfUpdate(desired', latest') =>
         /\ desired'.CapacityProviders = latest'.CapacityProviders
         /\ desired'.DefaultCapacityProviderStrategy = latest'.DefaultCapacityProviderStrategy
  BY DEF CallsOfUpdate, UpdateCalls, newResourceDelta, SpecFields
<1>4. /\ latest'.Tags = ecs.Tags /\ latest'.CapacityProviders = ecs.CapacityProviders
      /\ latest'.DefaultCapacityProviderStrategy = ecs.DefaultCapacityProviderStrategy
      /\ latest'.Settings = ecs.Settings
  BY <1>1 DEF Merge, Resources
<1>5. TagsFollow'
  BY <1>1, <1>2, <1>4 DEF TagsFollow
<1>6. ProvidersFollow'
  BY <1>1, <1>2, <1>3, <1>4 DEF ProvidersFollow
<1> QED  BY <1>1, <1>4, <1>5, <1>6

\* Which steps come to a call of an update or to the patch, and from where.
LEMMA WaysToPatch ==
    ASSUME IInv, [Next]_vars, ~Drift, pc' \in UpdateCalls \cup {"patch"}
    PROVE  \/ FindForSync /\ pc' \in UpdateCalls
           \/ CreateCluster /\ pc' = "patch"
           \/ TagResource \/ UntagResource \/ PutClusterCapacityProviders
           \/ UpdateCluster /\ pc' = "patch"
           \/ UNCHANGED <<pc, desired, latest>> /\ (pc = "patch" \/ UNCHANGED ecs)
<1> USE DEF crVars, statusVars, workVars, ecsVars, UpdateCalls
<1>1. CASE Reconcile
  <2>1. ~(FindFails \/ CreateReplyLost \/ UpdateRefused \/ UpdateFails \/ DeleteFails)
    BY FinishEffect
    DEF FindFails, CreateReplyLost, UpdateRefused, UpdateFails, DeleteFails
  <2>2. ~(SyncTagsPanics \/ PatchSpec \/ PatchFails \/ Release \/ ReleaseFails)
    BY EndEffect DEF SyncTagsPanics, PatchSpec, PatchFails, Release, ReleaseFails
  <2>3. ~(FindNothing \/ FindForDelete \/ SetManaged \/ DeleteCluster \/ CreateFails)
    BY FinishEffect, CreateEndsEffect
    DEF FindNothing, FindForDelete, SetManaged, DeleteCluster, CreateFails, Continue
  <2>4. ~Begin
    BY DEF Begin
  <2>5. FindForSync => pc' \in UpdateCalls
    BY FindForSyncEffect, FinishEffect
  <2>6. CreateCluster => pc' = "patch"
    BY CreateEndsEffect DEF CreateCluster, Continue
  <2>7. UpdateCluster => pc' = "patch"
    BY DEF UpdateCluster, Continue
  <2> QED  BY <1>1, <2>1, <2>2, <2>3, <2>4, <2>5, <2>6, <2>7 DEF Reconcile
<1>2. CASE Environment
  <2>1. ~Crash
    BY DEF Crash
  <2>2. Forgotten => UNCHANGED workVars /\ pc = "patch"
    BY DEF Forgotten, IInv, PhaseInv, Exists
  <2>3. CASE \/ Resync \/ UserCreates \/ UserEdits \/ UserDeletes
             \/ Vacated \/ Provisioned \/ ReferenceChanges
    BY <2>3
    DEF Resync, UserCreates, UserEdits, UserDeletes, Vacated, Provisioned, ReferenceChanges
  <2> QED  BY <1>2, <2>1, <2>2, <2>3 DEF Environment
<1>3. CASE UNCHANGED vars
  BY <1>3 DEF vars
<1> QED  BY <1>1, <1>2, <1>3 DEF Next

\* No step disturbs that.
LEMMA CalmStep ==
    ASSUME ~RepliesWithoutTags, IInv, CalmInv, [Next]_vars
    PROVE  CalmInv'
<1> SUFFICES ASSUME events'["drifts"] = 0, pc' \in UpdateCalls \cup {"patch"}
             PROVE  /\ pc' \in UpdateCalls =>
                          TagsFollow' /\ ProvidersFollow' /\ ecs'.Settings = latest'.Settings
                    /\ pc' = "patch" => Carries(latest', desired')
  BY DEF CalmInv
<1>1. events["drifts"] = 0 /\ ~Drift
  <2>1. events["drifts"] \in Nat
    BY DEF IInv, TypeOK, Events
  <2>2. \A k \in Events : Happens(k) => events'["drifts"] >= events["drifts"]
    BY <2>1, HappensType DEF IInv, Events
  <2>3. Happens("drifts") => events'["drifts"] = events["drifts"] + 1
    BY <2>1, HappensType DEF IInv, Events
  <2> QED  BY <2>1, <2>2, <2>3, EventsStep DEF Drift
<1>2. CASE FindForSync /\ pc' \in UpdateCalls
  BY <1>2, FollowStart DEF UpdateCalls
<1>3. CASE CreateCluster /\ pc' = "patch"
  BY <1>3, CreatedCarries DEF UpdateCalls
<1>4. CASE TagResource \/ UntagResource \/ PutClusterCapacityProviders
  <2>1. pc \in UpdateCalls /\ ContinueUpdate(pc)
    BY <1>4 DEF TagResource, UntagResource, PutClusterCapacityProviders, UpdateCalls
  <2>2. /\ desired' = desired
        /\ pc' \in UpdateCalls \/ (pc' = "patch" /\ latest' = desired)
    BY <2>1, ContinueUpdateEffect
  <2>3. TagsFollow /\ ProvidersFollow /\ ecs.Settings = latest.Settings
    BY <1>1, <2>1 DEF CalmInv
  <2>4. CASE pc' \in UpdateCalls
    BY <1>4, <2>3, <2>4, FollowStep DEF UpdateCalls
  <2>5. CASE pc' = "patch" /\ latest' = desired
    BY <2>2, <2>5 DEF Carries, UpdateCalls
  <2> QED  BY <2>2, <2>4, <2>5
<1>5. CASE UpdateCluster /\ pc' = "patch"
  <2>1. TagsFollow /\ ProvidersFollow
    BY <1>1, <1>5 DEF CalmInv, UpdateCluster, UpdateCalls
  <2> QED  BY <1>5, <2>1, UpdatedCarries DEF UpdateCalls
<1>6. CASE UNCHANGED <<pc, desired, latest>> /\ (pc = "patch" \/ UNCHANGED ecs)
  BY <1>1, <1>6 DEF CalmInv, TagsFollow, ProvidersFollow, UpdateCalls
<1> QED  BY <1>1, <1>2, <1>3, <1>4, <1>5, <1>6, WaysToPatch

\* Unless others change the cluster and as long as the replies of UpdateCluster are
\* complete, the patch after an update or a creation leaves what the user wrote,
\* also what was written while it ran.
THEOREM PatchKeepsWhatUsersWrote ==
    ASSUME ~RepliesWithoutTags
    PROVE  Spec => PatchKeepsEdits
<1> DEFINE kept ==
        pc = "patch" /\ pc' = "idle" /\ events["drifts"] = 0 =>
            \A f \in SpecFields : desired[f] \notin {Nil, Bare, Huge} => ko'[f] = ko[f]
<1>1. Init => CalmInv
  BY DEF Init, CalmInv, UpdateCalls
<1>2. IInv /\ CalmInv /\ [Next]_vars => CalmInv'
  BY CalmStep
<1>3. IInv /\ CalmInv /\ [Next]_vars => [kept]_vars
  <2> SUFFICES ASSUME IInv, CalmInv, Next, pc = "patch", pc' = "idle",
                      events["drifts"] = 0,
                      NEW f \in SpecFields, desired[f] \notin {Nil, Bare, Huge}
               PROVE  ko'[f] = ko[f]
    OBVIOUS
  <2>1. f \in DOMAIN ko /\ f # "ARN"
    BY DEF IInv, TypeOK, Resources, SpecFields
  <2>2. Patched(latest, f) = Patched(desired, f)
    BY DEF CalmInv, Carries, Patched, SpecFields
  <2>3. CASE PatchSpec
    BY <2>1, <2>2, <2>3 DEF PatchSpec, WrittenBack
  <2>4. CASE PatchFails \/ Crash
    BY <2>4 DEF PatchFails, Crash, crVars
  <2>5. Reconcile => PatchSpec \/ PatchFails
    BY DEF Reconcile, Begin, FindFails, FindNothing, FindForSync, FindForDelete,
           SetManaged, CreateCluster, CreateFails, CreateReplyLost, TagResource,
           UntagResource, SyncTagsPanics, HasTarget, PutClusterCapacityProviders,
           UpdateCluster, UpdateRefused, UpdateFails, DeleteCluster, DeleteFails,
           Release, ReleaseFails, UpdateCalls
  <2>6. Environment => Crash
    BY DEF Environment, Resync, UserCreates, UserEdits, UserDeletes, Drift, Vacated,
           Provisioned, Forgotten, ReferenceChanges, workVars
  <2> QED  BY <2>3, <2>4, <2>5, <2>6 DEF Next
<1> QED  BY <1>1, <1>2, <1>3, Invariance, PTL DEF Spec, PatchKeepsEdits
=============================================================================
