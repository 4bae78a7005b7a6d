-------------------- MODULE CapacityProviderManagerProofs --------------------
(***************************************************************************)
(* Proofs, for every choice of settings, tags and bounds and with the role *)
(* named or referenced, of the safety properties of                        *)
(* CapacityProviderManager.                                                *)
(***************************************************************************)
EXTENDS CapacityProviderManager, TLAPS

\* The finalizer holds an object that is being deleted, and ECS updates only what is
\* active.
HoldInv ==
    /\ crState = "deleting" => finalizer
    /\ crState = "absent" => ~finalizer
    /\ updateStatus = "UPDATE_IN_PROGRESS" => status = "ACTIVE"

\* What a reconcile that has come to a call may rely on.
PhaseInv ==
    /\ mode = "delete" => crState = "deleting"
    /\ pc \in {"delete", "release"} => mode = "delete"
    /\ pc \in {"create", "update"} => finalizer
    /\ pc \in {"manage", "create"} => status \in {"MISSING", "INACTIVE"}
    /\ pc = "release" => ~Exists \/ updateStatus = "DELETE_FAILED"

\* Where the role and the reference to it are: the role is in every resource that
\* ECS has or replied with, the reference only in the object and in what was read
\* from it, and the two resources of a patch never differ in it but in the one
\* that follows a creation.
ReferenceInv ==
    /\ RefStaysDeclared
    /\ ~ecs.InfrastructureRoleRef /\ ~pending.InfrastructureRoleRef
    /\ status # "MISSING" => ecs.InfrastructureRoleARN
    /\ updateStatus = "UPDATE_IN_PROGRESS" => pending.InfrastructureRoleARN
    /\ pc \in {"find", "manage", "create", "update", "patch"} =>
          desired.InfrastructureRoleARN /\ desired.InfrastructureRoleRef = ByRef
    /\ pc \in {"patch", "late", "lateInit"} =>
          latest.InfrastructureRoleARN /\ (latest.InfrastructureRoleRef => ByRef)
    /\ pc \in {"late", "lateInit"} =>
          /\ desired.InfrastructureRoleARN
          /\ desired.InfrastructureRoleRef = latest.InfrastructureRoleRef

\* What is patched has the settings that were read.
SettingsKept ==
    /\ desired.Settings # Nil => latest.Settings = desired.Settings
    /\ desired.AutoRepairConfiguration # Nil =>
          latest.AutoRepairConfiguration = desired.AutoRepairConfiguration

PatchInv == pc \in {"patch", "late", "lateInit"} => SettingsKept

IInv == TypeOK /\ HoldInv /\ PhaseInv /\ ReferenceInv /\ PatchInv

-----------------------------------------------------------------------------
(* Types and fields.                                                       *)

\* What the tag functions make of lists of tags are lists of tags.
LEMMA TagsType ==
    ASSUME NEW a \in TagLists, NEW b \in TagLists
    PROVE  /\ NoTags \in TagLists
           /\ EnsureTags(a) \in TagLists
           /\ mirrorAWSTags(a, b) \in TagLists
           /\ FilterSystemTags(a) \in TagLists
BY TagsAssumption DEF TagLists, NoTags, EnsureTags, mirrorAWSTags, FilterSystemTags,
   Keys, SystemKeys

\* The fields of a resource, and a resource with other tags.
LEMMA ResourceType ==
    ASSUME NEW r \in Resources
    PROVE  /\ r.Settings \in Settings \cup {Nil}
           /\ r.AutoRepairConfiguration \in Settings \cup {Nil}
           /\ r.InfrastructureRoleARN \in BOOLEAN
           /\ r.InfrastructureRoleRef \in BOOLEAN
           /\ r.Tags \in TagLists /\ r.Active \in BOOLEAN
           /\ \A v \in TagLists : [r EXCEPT !.Tags = v] \in Resources
BY DEF Resources

\* The resource without any field is one.
LEMMA EmptyType == EmptyResource \in Resources
BY DEF EmptyResource, Resources, NoTags, TagLists

\* Changing the tags changes nothing else.
LEMMA TagsSetEffect ==
    ASSUME NEW r \in Resources, NEW v
    PROVE  /\ [r EXCEPT !.Tags = v].Settings = r.Settings
           /\ [r EXCEPT !.Tags = v].AutoRepairConfiguration = r.AutoRepairConfiguration
           /\ [r EXCEPT !.Tags = v].InfrastructureRoleARN = r.InfrastructureRoleARN
           /\ [r EXCEPT !.Tags = v].InfrastructureRoleRef = r.InfrastructureRoleRef
BY DEF Resources

\* What ReadOne and Create make of a reply.
LEMMA MergeEffect ==
    ASSUME NEW r \in Resources, NEW s
    PROVE  /\ Merge(r, s) \in Resources
           /\ Merge(r, s).Settings = r.Settings
           /\ Merge(r, s).AutoRepairConfiguration = r.AutoRepairConfiguration
           /\ Merge(r, s).InfrastructureRoleARN = r.InfrastructureRoleARN
           /\ Merge(r, s).InfrastructureRoleRef = r.InfrastructureRoleRef
           /\ Merge(r, s).Tags = r.Tags
BY DEF Merge, Resources

\* What ECS makes of a request to create.
LEMMA EcsCreateEffect ==
    ASSUME NEW r \in Resources
    PROVE  /\ EcsCreate(r) \in Resources
           /\ r.Settings # Nil => EcsCreate(r).Settings = r.Settings
           /\ r.AutoRepairConfiguration # Nil =>
                 EcsCreate(r).AutoRepairConfiguration = r.AutoRepairConfiguration
           /\ EcsCreate(r).InfrastructureRoleARN = r.InfrastructureRoleARN
           /\ ~EcsCreate(r).InfrastructureRoleRef
BY ConstantsAssumption DEF EcsCreate, Resources

\* What it makes of a request to update leaves the role alone.
LEMMA EcsUpdateEffect ==
    ASSUME NEW c \in Resources, NEW r \in Resources
    PROVE  /\ EcsUpdate(c, r) \in Resources
           /\ EcsUpdate(c, r).InfrastructureRoleARN = c.InfrastructureRoleARN
           /\ EcsUpdate(c, r).InfrastructureRoleRef = c.InfrastructureRoleRef
BY DEF EcsUpdate, Resources

\* sdkUpdate's merge takes over nothing but the tags of the stale reply.
LEMMA UpdateMergeEffect ==
    ASSUME NEW d \in Resources, NEW reply \in StaleReplies, ecs \in Resources
    PROVE  /\ UpdateMerge(d, reply) \in Resources
           /\ UpdateMerge(d, reply).Settings = d.Settings
           /\ UpdateMerge(d, reply).AutoRepairConfiguration = d.AutoRepairConfiguration
           /\ UpdateMerge(d, reply).InfrastructureRoleARN = d.InfrastructureRoleARN
           /\ UpdateMerge(d, reply).InfrastructureRoleRef = d.InfrastructureRoleRef
<1>1. NoTags \in TagLists
  BY DEF NoTags, TagLists
<1>2. reply.Tags \in TagLists
  BY <1>1, ResourceType DEF StaleReplies, Resources
<1> QED  BY <1>2 DEF UpdateMerge, Resources

\* The late initialization sets no field that is set.
LEMMA LateInitializedEffect ==
    ASSUME NEW o \in Resources, NEW l \in Resources
    PROVE  /\ LateInitialized(o, l) \in Resources
           /\ LateInitialized(o, l).Settings = l.Settings
           /\ l.AutoRepairConfiguration # Nil =>
                 LateInitialized(o, l).AutoRepairConfiguration = l.AutoRepairConfiguration
           /\ LateInitialized(o, l).InfrastructureRoleARN = l.InfrastructureRoleARN
           /\ LateInitialized(o, l).InfrastructureRoleRef = l.InfrastructureRoleRef
<1>1. mirrorAWSTags(l.Tags, o.Tags) \in TagLists
  BY TagsType, ResourceType
<1> QED  BY <1>1 DEF LateInitialized, Resources

\* The resource a reconcile starts with: the object's with its role resolved.
LEMMA BeginEffect ==
    ASSUME NEW r \in Resources
    PROVE  LET d == [ResolveReferences(r) EXCEPT !.Tags = EnsureTags(@)]
           IN  /\ d \in Resources
               /\ d.InfrastructureRoleARN =
                     (r.InfrastructureRoleARN \/ r.InfrastructureRoleRef)
               /\ d.InfrastructureRoleRef = r.InfrastructureRoleRef
<1>1. /\ ResolveReferences(r) \in Resources
      /\ ResolveReferences(r).InfrastructureRoleARN =
            (r.InfrastructureRoleARN \/ r.InfrastructureRoleRef)
      /\ ResolveReferences(r).InfrastructureRoleRef = r.InfrastructureRoleRef
      /\ ResolveReferences(r).Tags = r.Tags
  BY DEF ResolveReferences, Resources
<1>2. EnsureTags(ResolveReferences(r).Tags) \in TagLists
  BY <1>1, TagsType, ResourceType
<1> QED  BY <1>1, <1>2, ResourceType, TagsSetEffect

\* The two sides of a patch.
LEMMA PatchedEffect ==
    ASSUME NEW r \in Resources
    PROVE  /\ Patched(r) \in Resources
           /\ Patched(r).Settings = r.Settings
           /\ Patched(r).AutoRepairConfiguration = r.AutoRepairConfiguration
           /\ Patched(r).InfrastructureRoleARN =
                 (r.InfrastructureRoleARN /\ ~r.InfrastructureRoleRef)
           /\ Patched(r).InfrastructureRoleRef = r.InfrastructureRoleRef
<1> DEFINE c == ClearResolvedReferences(r)
<1>1. /\ c \in Resources /\ c.Settings = r.Settings
      /\ c.AutoRepairConfiguration = r.AutoRepairConfiguration
      /\ c.InfrastructureRoleARN = (r.InfrastructureRoleARN /\ ~r.InfrastructureRoleRef)
      /\ c.InfrastructureRoleRef = r.InfrastructureRoleRef
  BY DEF ClearResolvedReferences, Resources
<1>2. FilterSystemTags(c.Tags) \in TagLists
  BY <1>1, TagsType, ResourceType
<1>3. Patched(r) = [c EXCEPT !.Tags = FilterSystemTags(c.Tags)]
  BY DEF Patched
<1> HIDE DEF c
<1> QED  BY <1>1, <1>2, <1>3, ResourceType, TagsSetEffect

\* EnsureReferences adds the reference and nothing else.
LEMMA EnsureEffect ==
    ASSUME NEW d \in Resources, NEW l \in Resources
    PROVE  /\ EnsureReferences(d, l) \in Resources
           /\ EnsureReferences(d, l).Settings = l.Settings
           /\ EnsureReferences(d, l).AutoRepairConfiguration = l.AutoRepairConfiguration
           /\ EnsureReferences(d, l).InfrastructureRoleARN = l.InfrastructureRoleARN
           /\ EnsureReferences(d, l).InfrastructureRoleRef =
                 (l.InfrastructureRoleRef \/ d.InfrastructureRoleRef)
BY DEF EnsureReferences, Resources

\* What a patch leaves in the object: a resource that differs from what it was only
\* where the two sides of the patch differ.
LEMMA WrittenBackEffect ==
    ASSUME ko \in Resources, NEW base \in Resources, NEW r \in Resources
    PROVE  LET w == WrittenBack(base, r)
               from == Patched(base)
               to == Patched(EnsureReferences(base, r))
           IN  /\ w \in Resources
               /\ w.Settings = IF from.Settings = to.Settings
                               THEN ko.Settings ELSE to.Settings
               /\ w.AutoRepairConfiguration =
                     IF from.AutoRepairConfiguration = to.AutoRepairConfiguration
                     THEN ko.AutoRepairConfiguration ELSE to.AutoRepairConfiguration
               /\ w.InfrastructureRoleARN =
                     IF from.InfrastructureRoleARN = to.InfrastructureRoleARN
                     THEN ko.InfrastructureRoleARN ELSE to.InfrastructureRoleARN
               /\ w.InfrastructureRoleRef =
                     IF from.InfrastructureRoleRef = to.InfrastructureRoleRef
                     THEN ko.InfrastructureRoleRef ELSE to.InfrastructureRoleRef
<1> DEFINE from == Patched(base)
           to == Patched(EnsureReferences(base, r))
           w == WrittenBack(base, r)
<1>1. from \in Resources /\ to \in Resources
  BY PatchedEffect, EnsureEffect
<1>2. w = [f \in DOMAIN ko |->
              IF f \in SpecFields /\ from[f] = to[f] THEN ko[f] ELSE to[f]]
  BY DEF WrittenBack
<1>3. /\ DOMAIN ko = {"Settings", "AutoRepairConfiguration", "InfrastructureRoleARN",
                      "InfrastructureRoleRef", "Tags", "Active"}
      /\ SpecFields = {"Settings", "AutoRepairConfiguration", "InfrastructureRoleARN",
                       "InfrastructureRoleRef", "Tags"}
  BY DEF Resources, SpecFields, EmptyResource
<1> HIDE DEF from, to, w
<1>4. /\ w.Settings = IF from.Settings = to.Settings THEN ko.Settings ELSE to.Settings
      /\ w.AutoRepairConfiguration =
            IF from.AutoRepairConfiguration = to.AutoRepairConfiguration
            THEN ko.AutoRepairConfiguration ELSE to.AutoRepairConfiguration
      /\ w.InfrastructureRoleARN =
            IF from.InfrastructureRoleARN = to.InfrastructureRoleARN
            THEN ko.InfrastructureRoleARN ELSE to.InfrastructureRoleARN
      /\ w.InfrastructureRoleRef =
            IF from.InfrastructureRoleRef = to.InfrastructureRoleRef
            THEN ko.InfrastructureRoleRef ELSE to.InfrastructureRoleRef
      /\ w.Tags \in {ko.Tags, to.Tags} /\ w.Active \in {ko.Active, to.Active}
  BY <1>2, <1>3
<1>5. /\ w.Settings \in Settings \cup {Nil}
      /\ w.AutoRepairConfiguration \in Settings \cup {Nil}
      /\ w.InfrastructureRoleARN \in BOOLEAN /\ w.InfrastructureRoleRef \in BOOLEAN
      /\ w.Tags \in TagLists /\ w.Active \in BOOLEAN
  BY <1>1, <1>4, ResourceType
<1>6. w \in Resources
  BY <1>2, <1>3, <1>5 DEF Resources
<1> QED  BY <1>4, <1>6 DEF from, to, w

\* The end of a reconcile keeps the types of what it sets.
LEMMA EndEffect ==
    ASSUME NEW err, NEW r, End(err, r)
    PROVE  /\ pc' = "idle" /\ mode' = "sync"
           /\ desired' = EmptyResource /\ latest' = EmptyResource
           /\ outcome' \in {"none", "success", "unsynced", "error", "terminal"}
           /\ queued' \in BOOLEAN
BY DEF End, OutcomeOf

\* The same for an operation that failed, which leaves the object alone.
LEMMA FinishEffect ==
    ASSUME NEW err, NEW r, Finish(err, r)
    PROVE  /\ pc' = "idle" /\ mode' = "sync"
           /\ desired' = EmptyResource /\ latest' = EmptyResource
           /\ outcome' \in {"none", "success", "unsynced", "error", "terminal"}
           /\ queued' \in BOOLEAN
           /\ crState' = crState /\ finalizer' = finalizer /\ ko' = ko
BY EndEffect DEF Finish, crVars

\* A creation that returned no resource ends the reconcile, with the finalizer or
\* without it.
LEMMA CreateEndsEffect ==
    ASSUME NEW err, CreateEnds(err)
    PROVE  /\ pc' = "idle" /\ mode' = "sync"
           /\ desired' = EmptyResource /\ latest' = EmptyResource
           /\ outcome' \in {"none", "success", "unsynced", "error", "terminal"}
           /\ queued' \in BOOLEAN
           /\ \/ RemoveFinalizer
              \/ crState' = crState /\ finalizer' = finalizer /\ ko' = ko
BY EndEffect, FinishEffect DEF CreateEnds

\* ReadOne in a sync: a refusal, or an object and resource for what comes next.
LEMMA FindForSyncEffect ==
    ASSUME TypeOK, FindForSync
    PROVE  /\ pc = "find" /\ mode = "sync" /\ status \notin {"MISSING", "INACTIVE"}
           /\ UNCHANGED <<ecsVars, events>>
           /\ \/ Finish("Terminal", Merge(ecs, status))
              \/ /\ finalizer /\ pc' \in {"late", "update"}
                 /\ latest' = Merge(ecs, status)
                 /\ pc' = "late" => desired' = latest'
                 /\ pc' = "update" => desired' =
                       [desired EXCEPT !.Tags =
                            mirrorAWSTags(desired.Tags, Merge(ecs, status).Tags)]
                 /\ UNCHANGED <<crVars, mode, statusVars>>
<1>1. CASE ~finalizer
  BY <1>1 DEF FindForSync
<1>2. CASE finalizer
  BY <1>2 DEF FindForSync
<1> QED  BY <1>1, <1>2

\* What is compared with an observed provider has other tags and the same fields.
LEMMA MirrorType ==
    ASSUME TypeOK
    PROVE  [desired EXCEPT !.Tags = mirrorAWSTags(desired.Tags, Merge(ecs, status).Tags)]
              \in Resources
<1>1. desired.Tags \in TagLists /\ Merge(ecs, status).Tags \in TagLists
  BY ResourceType, MergeEffect DEF TypeOK
<1> QED  BY <1>1, TagsType, ResourceType DEF TypeOK

\* Every step of the reconcile keeps the types.
LEMMA ReconcileTypeStep ==
    ASSUME TypeOK, Reconcile
    PROVE  TypeOK'
<1> USE DEF crVars, statusVars, workVars, ecsVars
<1>0. /\ desired \in Resources /\ latest \in Resources /\ ko \in Resources
      /\ ecs \in Resources /\ \A s : Merge(ecs, s) \in Resources
      /\ EmptyResource \in Resources
  BY EmptyType, MergeEffect DEF TypeOK
<1>a. Happens => events' \in Nat
  BY DEF Happens, TypeOK
<1>1. CASE Begin
  BY <1>1, <1>0, BeginEffect DEF Begin, TypeOK
<1>2. CASE ReferenceFails
  BY <1>2, <1>a DEF ReferenceFails, TypeOK
<1>3. CASE FindFails
  BY <1>3, <1>0, <1>a, FinishEffect DEF FindFails, TypeOK
<1>4. CASE FindNothing
  BY <1>4 DEF FindNothing, Continue, TypeOK
<1>5. CASE FindForSync
  <2>1. CASE Finish("Terminal", Merge(ecs, status))
    BY <1>5, <1>0, <2>1, FinishEffect, FindForSyncEffect DEF TypeOK
  <2>2. CASE ~Finish("Terminal", Merge(ecs, status))
    <3>1. desired' \in Resources /\ latest' \in Resources
      BY <1>5, <1>0, <2>2, FindForSyncEffect, MirrorType
    <3> QED  BY <1>5, <2>2, <3>1, FindForSyncEffect DEF TypeOK
  <2> QED  BY <2>1, <2>2
<1>6. CASE FindForDelete
  BY <1>6, <1>0 DEF FindForDelete, Continue, TypeOK
<1>7. CASE SetManaged
  <2>1. CASE crState = "absent"
    BY <1>7, <1>0, <2>1, FinishEffect DEF SetManaged, TypeOK
  <2>2. CASE crState \notin {"absent"}
    BY <1>7, <2>2 DEF SetManaged, TypeOK
  <2> QED  BY <2>1, <2>2
<1>8. CASE CreateCapacityProvider
  <2>1. ecs' \in Resources /\ latest' \in Resources
    BY <1>8, <1>0, EcsCreateEffect, MergeEffect DEF CreateCapacityProvider, EcsCreates, Continue
  <2> QED  BY <1>8, <2>1 DEF CreateCapacityProvider, EcsCreates, Continue, TypeOK
<1>9. CASE CreateFails \/ CreateReplyLost
  BY <1>9, <1>0, <1>a, EcsCreateEffect, CreateEndsEffect
  DEF CreateFails, CreateReplyLost, EcsCreates, RemoveFinalizer, TypeOK
<1>10. CASE UpdateCapacityProvider
  <2>1. pending' \in Resources
    BY <1>10, <1>0, EcsUpdateEffect DEF UpdateCapacityProvider, EcsUpdates
  <2>2. latest' \in Resources
    BY <1>10, <1>0, UpdateMergeEffect DEF UpdateCapacityProvider, Continue
  <2> QED  BY <1>10, <2>1, <2>2 DEF UpdateCapacityProvider, EcsUpdates, Continue, TypeOK
<1>11. CASE UpdateRefused
  BY <1>11, <1>0, FinishEffect DEF UpdateRefused, TypeOK
<1>12. CASE UpdateFails
  <2>1. pending' \in Resources
    BY <1>12, <1>0, EcsUpdateEffect DEF UpdateFails, EcsUpdates, TypeOK
  <2> QED  BY <1>12, <1>0, <1>a, <2>1, FinishEffect DEF UpdateFails, EcsUpdates, TypeOK
<1>13. CASE PatchSpec
  <2>1. ko' \in Resources
    BY <1>13, <1>0, WrittenBackEffect DEF PatchSpec
  <2> QED  BY <1>13, <1>0, <2>1 DEF PatchSpec, TypeOK
<1>14. CASE PatchFails
  BY <1>14, <1>0, <1>a, FinishEffect DEF PatchFails, TypeOK
<1>15. CASE LateInitialize
  <2>1. CASE status \in {"MISSING", "INACTIVE"}
    BY <1>15, <1>0, <2>1, FinishEffect DEF LateInitialize, TypeOK
  <2>2. CASE status \notin {"MISSING", "INACTIVE"}
    <3>1. latest' \in Resources
      BY <1>15, <1>0, <2>2, LateInitializedEffect DEF LateInitialize, Continue
    <3> QED  BY <1>15, <2>2, <3>1 DEF LateInitialize, Continue, TypeOK
  <2> QED  BY <2>1, <2>2
<1>16. CASE LateInitializeFails
  BY <1>16, <1>0, <1>a, FinishEffect DEF LateInitializeFails, TypeOK
<1>17. CASE PatchLateInitialized
  <2>1. ko' \in Resources
    BY <1>17, <1>0, WrittenBackEffect DEF PatchLateInitialized
  <2> QED  BY <1>17, <1>0, <2>1, EndEffect DEF PatchLateInitialized, TypeOK
<1>18. CASE DeleteCapacityProvider
  <2>1. CASE Deletable
    BY <1>18, <2>1 DEF DeleteCapacityProvider, EcsDeletes, Continue, TypeOK
  <2>2. CASE ~Deletable
    BY <1>18, <1>0, <2>2, FinishEffect DEF DeleteCapacityProvider, TypeOK
  <2> QED  BY <2>1, <2>2
<1>19. CASE DeleteFails
  BY <1>19, <1>0, <1>a, FinishEffect DEF DeleteFails, EcsDeletes, TypeOK
<1>20. CASE Release
  BY <1>20, <1>0, EndEffect DEF Release, RemoveFinalizer, TypeOK
<1>21. CASE ReleaseFails
  BY <1>21, <1>0, <1>a, FinishEffect DEF ReleaseFails, TypeOK
<1> QED
  BY <1>1, <1>2, <1>3, <1>4, <1>5, <1>6, <1>7, <1>8, <1>9, <1>10, <1>11, <1>12,
     <1>13, <1>14, <1>15, <1>16, <1>17, <1>18, <1>19, <1>20, <1>21
  DEF Reconcile

\* A user's edit keeps the type of the object and the role in it.
LEMMA EditEffect ==
    ASSUME TypeOK, UserEdits
    PROVE  /\ ko' \in Resources
           /\ ko'.InfrastructureRoleARN = ko.InfrastructureRoleARN
           /\ ko'.InfrastructureRoleRef = ko.InfrastructureRoleRef
<1>1. PICK f \in {"Settings", "AutoRepairConfiguration", "Tags"}, r \in UserSpecs :
            ko' = [ko EXCEPT ![f] = r[f]]
  BY DEF UserEdits
<1>2. r \in Resources /\ ko \in Resources
  BY DEF UserSpecs, TypeOK
<1>3. CASE f = "Settings"
  <2>1. r.Settings \in Settings \cup {Nil} /\ ko' = [ko EXCEPT !.Settings = r.Settings]
    BY <1>1, <1>2, <1>3, ResourceType
  <2> QED  BY <1>2, <2>1 DEF Resources
<1>4. CASE f = "AutoRepairConfiguration"
  <2>1. /\ r.AutoRepairConfiguration \in Settings \cup {Nil}
        /\ ko' = [ko EXCEPT !.AutoRepairConfiguration = r.AutoRepairConfiguration]
    BY <1>1, <1>2, <1>4, ResourceType
  <2> QED  BY <1>2, <2>1 DEF Resources
<1>5. CASE f = "Tags"
  <2>1. r.Tags \in TagLists /\ ko' = [ko EXCEPT !.Tags = r.Tags]
    BY <1>1, <1>2, <1>5, ResourceType
  <2> QED  BY <1>2, <2>1 DEF Resources
<1> QED  BY <1>1, <1>3, <1>4, <1>5

\* Drift keeps the type of the provider and its role.
LEMMA DriftEffect ==
    ASSUME TypeOK, Drift
    PROVE  /\ ecs' \in Resources
           /\ ecs'.InfrastructureRoleARN = ecs.InfrastructureRoleARN
           /\ ecs'.InfrastructureRoleRef = ecs.InfrastructureRoleRef
<1>1. ecs \in Resources
  BY DEF TypeOK
<1>2. CASE \E v \in Settings : ecs' = [ecs EXCEPT !.Settings = v]
  BY <1>1, <1>2 DEF Resources
<1>3. CASE \E v \in TagValues : ecs' = [ecs EXCEPT !.Tags[AwsKey] = v]
  <2>1. PICK v \in TagValues : ecs' = [ecs EXCEPT !.Tags[AwsKey] = v]
    BY <1>3
  <2>2. [ecs.Tags EXCEPT ![AwsKey] = v] \in TagLists
    BY <1>1, <2>1, ResourceType DEF TagLists
  <2> QED  BY <1>1, <2>1, <2>2 DEF Resources
<1>4. CASE UNCHANGED ecs
  BY <1>1, <1>4
<1> QED  BY <1>2, <1>3, <1>4 DEF Drift

\* Every step of the environment keeps the types.
LEMMA EnvironmentTypeStep ==
    ASSUME TypeOK, Environment
    PROVE  TypeOK'
<1> USE DEF crVars, statusVars, workVars, ecsVars
<1>0. EmptyResource \in Resources
  BY EmptyType
<1>a. Happens => events' \in Nat
  BY DEF Happens, TypeOK
<1>1. CASE Crash
  BY <1>1, <1>0, <1>a DEF Crash, TypeOK
<1>2. CASE Resync
  BY <1>2 DEF Resync, TypeOK
<1>3. CASE UserCreates
  BY <1>3, <1>a DEF UserCreates, UserSpecs, TypeOK
<1>4. CASE UserEdits
  <2>1. ko' \in Resources
    BY <1>4, EditEffect
  <2> QED  BY <1>4, <1>a, <2>1 DEF UserEdits, TypeOK
<1>5. CASE UserDeletes
  BY <1>5, <1>0 DEF UserDeletes, TypeOK
<1>6. CASE Drift
  <2>1. /\ ecs' \in Resources /\ attached' \in BOOLEAN
        /\ UNCHANGED <<crState, finalizer, ko, outcome, queued, pc, mode, desired,
                       latest, status, updateStatus, pending>>
    BY <1>6, DriftEffect DEF Drift, TypeOK
  <2> QED  BY <1>6, <1>a, <2>1 DEF Drift, TypeOK
<1>7. CASE Detached
  <2>1. attached' \in BOOLEAN
    BY <1>7 DEF Detached
  <2> QED  BY <1>7, <2>1 DEF Detached, TypeOK
<1>8. CASE Settled
  <2>1. /\ ecs' \in Resources
        /\ status' \in {"MISSING", "PROVISIONING", "ACTIVE", "DEPROVISIONING", "INACTIVE"}
        /\ updateStatus' \in {"NONE", "UPDATE_IN_PROGRESS", "DELETE_FAILED"}
    BY <1>8 DEF Settled, TypeOK
  <2> QED  BY <1>8, <2>1 DEF Settled, TypeOK
<1>9. CASE Failed
  BY <1>9, <1>a DEF Failed, TypeOK
<1> QED
  BY <1>1, <1>2, <1>3, <1>4, <1>5, <1>6, <1>7, <1>8, <1>9 DEF Environment

\* Every step keeps the types.
LEMMA TypeStep == ASSUME TypeOK, [Next]_vars PROVE TypeOK'
<1>1. CASE UNCHANGED vars
  BY <1>1 DEF TypeOK, vars, crVars, statusVars, workVars, ecsVars
<1> QED  BY <1>1, ReconcileTypeStep, EnvironmentTypeStep DEF Next

-----------------------------------------------------------------------------
(* The other conjuncts.                                                    *)

\* Whatever happens, the finalizer stays on an object that is being deleted.
LEMMA HoldStep ==
    ASSUME IInv, [Next]_vars
    PROVE  HoldInv'
<1> USE DEF IInv, crVars, statusVars, workVars, ecsVars, HoldInv, PhaseInv, Exists
<1>1. CASE Begin
  BY <1>1 DEF Begin
<1>2. CASE ReferenceFails
  BY <1>2 DEF ReferenceFails
<1>3. CASE FindFails
  BY <1>3, FinishEffect DEF FindFails
<1>4. CASE FindNothing
  BY <1>4 DEF FindNothing, Continue
<1>5. CASE FindForSync
  BY <1>5, FindForSyncEffect, FinishEffect
<1>6. CASE FindForDelete
  BY <1>6 DEF FindForDelete, Continue
<1>7. CASE SetManaged
  BY <1>7, FinishEffect DEF SetManaged
<1>8. CASE CreateCapacityProvider
  BY <1>8 DEF CreateCapacityProvider, EcsCreates, Continue
<1>9. CASE CreateFails \/ CreateReplyLost
  BY <1>9, CreateEndsEffect DEF CreateFails, CreateReplyLost, EcsCreates, RemoveFinalizer
<1>10. CASE UpdateCapacityProvider
  BY <1>10 DEF UpdateCapacityProvider, Updatable, EcsUpdates, Continue
<1>11. CASE UpdateRefused
  BY <1>11, FinishEffect DEF UpdateRefused
<1>12. CASE UpdateFails
  BY <1>12, FinishEffect DEF UpdateFails, Updatable, EcsUpdates
<1>13. CASE PatchSpec
  BY <1>13 DEF PatchSpec
<1>14. CASE PatchFails
  BY <1>14, FinishEffect DEF PatchFails
<1>15. CASE LateInitialize
  BY <1>15, FinishEffect DEF LateInitialize, Continue
<1>16. CASE LateInitializeFails
  BY <1>16, FinishEffect DEF LateInitializeFails
<1>17. CASE PatchLateInitialized
  BY <1>17, EndEffect DEF PatchLateInitialized
<1>18. CASE DeleteCapacityProvider
  BY <1>18, FinishEffect DEF DeleteCapacityProvider, EcsDeletes, Continue
<1>19. CASE DeleteFails
  BY <1>19, FinishEffect DEF DeleteFails, EcsDeletes
<1>20. CASE Release
  BY <1>20, EndEffect DEF Release, RemoveFinalizer
<1>21. CASE ReleaseFails
  BY <1>21, FinishEffect DEF ReleaseFails
<1>22. CASE Crash
  BY <1>22 DEF Crash
<1>23. CASE Resync
  BY <1>23 DEF Resync
<1>24. CASE UserCreates
  BY <1>24 DEF UserCreates
<1>25. CASE UserEdits
  BY <1>25 DEF UserEdits
<1>26. CASE UserDeletes
  BY <1>26 DEF UserDeletes
<1>27. CASE Drift
  BY <1>27 DEF Drift
<1>28. CASE Detached
  BY <1>28 DEF Detached
<1>29. CASE Settled
  BY <1>29 DEF Settled
<1>30. CASE Failed
  BY <1>30 DEF Failed
<1>31. CASE UNCHANGED vars
  BY <1>31 DEF vars
<1> QED
  BY <1>1, <1>2, <1>3, <1>4, <1>5, <1>6, <1>7, <1>8, <1>9, <1>10, <1>11, <1>12,
     <1>13, <1>14, <1>15, <1>16, <1>17, <1>18, <1>19, <1>20, <1>21, <1>22, <1>23, <1>24,
     <1>25, <1>26, <1>27, <1>28, <1>29, <1>30, <1>31
  DEF Next, Reconcile, Environment

\* A reconcile that has come to a call got there in the right mode and state.
LEMMA PhaseStep ==
    ASSUME IInv, [Next]_vars
    PROVE  PhaseInv'
<1> USE DEF IInv, crVars, statusVars, workVars, ecsVars, HoldInv, PhaseInv, Exists
<1>1. CASE Begin
  BY <1>1 DEF Begin, TypeOK
<1>2. CASE ReferenceFails
  BY <1>2 DEF ReferenceFails
<1>3. CASE FindFails
  BY <1>3, FinishEffect DEF FindFails
<1>4. CASE FindNothing
  BY <1>4 DEF FindNothing, Continue, TypeOK
<1>5. CASE FindForSync
  BY <1>5, FindForSyncEffect, FinishEffect
<1>6. CASE FindForDelete
  BY <1>6 DEF FindForDelete, Continue
<1>7. CASE SetManaged
  BY <1>7, FinishEffect DEF SetManaged
<1>8. CASE CreateCapacityProvider
  BY <1>8 DEF CreateCapacityProvider, EcsCreates, Continue
<1>9. CASE CreateFails \/ CreateReplyLost
  BY <1>9, CreateEndsEffect DEF CreateFails, CreateReplyLost, EcsCreates, RemoveFinalizer
<1>10. CASE UpdateCapacityProvider
  BY <1>10 DEF UpdateCapacityProvider, Updatable, EcsUpdates, Continue
<1>11. CASE UpdateRefused
  BY <1>11, FinishEffect DEF UpdateRefused
<1>12. CASE UpdateFails
  BY <1>12, FinishEffect DEF UpdateFails, Updatable, EcsUpdates
<1>13. CASE PatchSpec
  BY <1>13 DEF PatchSpec
<1>14. CASE PatchFails
  BY <1>14, FinishEffect DEF PatchFails
<1>15. CASE LateInitialize
  BY <1>15, FinishEffect DEF LateInitialize, Continue
<1>16. CASE LateInitializeFails
  BY <1>16, FinishEffect DEF LateInitializeFails
<1>17. CASE PatchLateInitialized
  BY <1>17, EndEffect DEF PatchLateInitialized
<1>18. CASE DeleteCapacityProvider
  BY <1>18, FinishEffect DEF DeleteCapacityProvider, EcsDeletes, Continue
<1>19. CASE DeleteFails
  BY <1>19, FinishEffect DEF DeleteFails, EcsDeletes
<1>20. CASE Release
  BY <1>20, EndEffect DEF Release, RemoveFinalizer
<1>21. CASE ReleaseFails
  BY <1>21, FinishEffect DEF ReleaseFails
<1>22. CASE Crash
  BY <1>22 DEF Crash
<1>23. CASE Resync
  BY <1>23 DEF Resync
<1>24. CASE UserCreates
  BY <1>24 DEF UserCreates
<1>25. CASE UserEdits
  BY <1>25 DEF UserEdits
<1>26. CASE UserDeletes
  BY <1>26 DEF UserDeletes
<1>27. CASE Drift
  BY <1>27 DEF Drift
<1>28. CASE Detached
  BY <1>28 DEF Detached
<1>29. CASE Settled
  BY <1>29 DEF Settled
<1>30. CASE Failed
  BY <1>30 DEF Failed
<1>31. CASE UNCHANGED vars
  BY <1>31 DEF vars
<1> QED
  BY <1>1, <1>2, <1>3, <1>4, <1>5, <1>6, <1>7, <1>8, <1>9, <1>10, <1>11, <1>12,
     <1>13, <1>14, <1>15, <1>16, <1>17, <1>18, <1>19, <1>20, <1>21, <1>22, <1>23, <1>24,
     <1>25, <1>26, <1>27, <1>28, <1>29, <1>30, <1>31
  DEF Next, Reconcile, Environment

\* A patch of resources that the invariant allows keeps the declaration of the role.
LEMMA DeclarationSurvives ==
    ASSUME ko \in Resources, NEW base \in Resources, NEW r \in Resources,
           ByRef \in BOOLEAN,
           ko.InfrastructureRoleRef = ByRef, ko.InfrastructureRoleARN = ~ByRef,
           base.InfrastructureRoleARN, r.InfrastructureRoleARN,
           r.InfrastructureRoleRef => ByRef,
           \/ base.InfrastructureRoleRef = ByRef
           \/ base.InfrastructureRoleRef = r.InfrastructureRoleRef
    PROVE  /\ WrittenBack(base, r).InfrastructureRoleRef = ByRef
           /\ WrittenBack(base, r).InfrastructureRoleARN = ~ByRef
<1> DEFINE from == Patched(base)
           ensured == EnsureReferences(base, r)
           to == Patched(ensured)
           w == WrittenBack(base, r)
<1>1. /\ ensured \in Resources /\ ensured.InfrastructureRoleARN
      /\ r.InfrastructureRoleRef \/ base.InfrastructureRoleRef =>
            ensured.InfrastructureRoleRef
      /\ ~r.InfrastructureRoleRef /\ ~base.InfrastructureRoleRef =>
            ~ensured.InfrastructureRoleRef
  BY EnsureEffect
<1>2. /\ base.InfrastructureRoleRef =>
            from.InfrastructureRoleARN = FALSE /\ from.InfrastructureRoleRef = TRUE
      /\ ~base.InfrastructureRoleRef =>
            from.InfrastructureRoleARN = TRUE /\ from.InfrastructureRoleRef = FALSE
  BY PatchedEffect, ResourceType
<1>3. /\ ensured.InfrastructureRoleRef =>
            to.InfrastructureRoleARN = FALSE /\ to.InfrastructureRoleRef = TRUE
      /\ ~ensured.InfrastructureRoleRef =>
            to.InfrastructureRoleARN = TRUE /\ to.InfrastructureRoleRef = FALSE
  BY <1>1, PatchedEffect, ResourceType
<1>4. /\ w.InfrastructureRoleARN =
            IF from.InfrastructureRoleARN = to.InfrastructureRoleARN
            THEN ko.InfrastructureRoleARN ELSE to.InfrastructureRoleARN
      /\ w.InfrastructureRoleRef =
            IF from.InfrastructureRoleRef = to.InfrastructureRoleRef
            THEN ko.InfrastructureRoleRef ELSE to.InfrastructureRoleRef
  BY WrittenBackEffect
<1> HIDE DEF from, ensured, to, w
<1>5. CASE ByRef
  <2>1. ko.InfrastructureRoleRef = TRUE /\ ko.InfrastructureRoleARN = FALSE
    BY <1>5
  <2>2. w.InfrastructureRoleRef = TRUE /\ w.InfrastructureRoleARN = FALSE
    BY <1>1, <1>2, <1>3, <1>4, <1>5, <2>1
  <2> QED  BY <1>5, <2>2 DEF w
<1>6. CASE ~ByRef
  <2>1. ko.InfrastructureRoleRef = FALSE /\ ko.InfrastructureRoleARN = TRUE
    BY <1>6
  <2>2. ~base.InfrastructureRoleRef /\ ~r.InfrastructureRoleRef
    BY <1>6
  <2>3. w.InfrastructureRoleRef = FALSE /\ w.InfrastructureRoleARN = TRUE
    BY <1>1, <1>2, <1>3, <1>4, <2>1, <2>2
  <2> QED  BY <1>6, <2>3 DEF w
<1> QED  BY <1>5, <1>6

\* No step takes the reference out of the object or the role into it.
LEMMA ReferenceStep ==
    ASSUME IInv, [Next]_vars
    PROVE  ReferenceInv'
<1> USE DEF IInv, HoldInv, PhaseInv, ReferenceInv, RefStaysDeclared,
        crVars, statusVars, workVars, ecsVars
<1>0. /\ ko \in Resources /\ ecs \in Resources /\ pending \in Resources
      /\ desired \in Resources /\ latest \in Resources
      /\ ByRef \in BOOLEAN
  BY ConstantsAssumption DEF TypeOK
<1>1. CASE Begin
  <2>1. desired'.InfrastructureRoleARN /\ desired'.InfrastructureRoleRef = ByRef
    BY <1>1, <1>0, BeginEffect DEF Begin
  <2> QED  BY <1>1, <2>1 DEF Begin
<1>2. CASE ReferenceFails
  BY <1>2 DEF ReferenceFails
<1>3. CASE FindFails
  BY <1>3, FinishEffect DEF FindFails
<1>4. CASE FindNothing
  BY <1>4 DEF FindNothing, Continue
<1>5. CASE FindForSync
  <2>1. CASE Finish("Terminal", Merge(ecs, status))
    BY <1>5, <2>1, FinishEffect, FindForSyncEffect
  <2>2. CASE ~Finish("Terminal", Merge(ecs, status))
    <3>1. /\ Merge(ecs, status).InfrastructureRoleARN
          /\ ~Merge(ecs, status).InfrastructureRoleRef
      BY <1>5, <1>0, FindForSyncEffect, MergeEffect
    <3>2. /\ pc' \in {"late", "update"} /\ latest' = Merge(ecs, status)
          /\ pc' = "late" => desired' = latest'
      BY <1>5, <2>2, FindForSyncEffect
    <3>3. ASSUME pc' = "update"
          PROVE  desired'.InfrastructureRoleARN /\ desired'.InfrastructureRoleRef = ByRef
      <4>1. PICK v : desired' = [desired EXCEPT !.Tags = v]
        BY <1>5, <2>2, <3>3, FindForSyncEffect
      <4>2. desired.InfrastructureRoleARN /\ desired.InfrastructureRoleRef = ByRef
        BY <1>5, FindForSyncEffect
      <4> QED  BY <1>0, <4>1, <4>2, TagsSetEffect
    <3> QED  BY <1>5, <2>2, <3>1, <3>2, <3>3, FindForSyncEffect
  <2> QED  BY <2>1, <2>2
<1>6. CASE FindForDelete
  BY <1>6 DEF FindForDelete, Continue
<1>7. CASE SetManaged
  BY <1>7, FinishEffect DEF SetManaged
<1>8. CASE CreateCapacityProvider
  <2>1. /\ ecs' \in Resources
        /\ ecs'.InfrastructureRoleARN /\ ~ecs'.InfrastructureRoleRef
    BY <1>8, <1>0, EcsCreateEffect DEF CreateCapacityProvider, EcsCreates
  <2>2. latest'.InfrastructureRoleARN /\ ~latest'.InfrastructureRoleRef
    BY <1>8, <2>1, MergeEffect DEF CreateCapacityProvider, EcsCreates, Continue
  <2> QED  BY <1>8, <2>1, <2>2 DEF CreateCapacityProvider, EcsCreates, Continue
<1>9. CASE CreateFails \/ CreateReplyLost
  <2>1. EcsCreate(desired).InfrastructureRoleARN /\ ~EcsCreate(desired).InfrastructureRoleRef
    BY <1>9, <1>0, EcsCreateEffect DEF CreateFails, CreateReplyLost
  <2> QED
    BY <1>9, <2>1, CreateEndsEffect
    DEF CreateFails, CreateReplyLost, EcsCreates, RemoveFinalizer
<1>10. CASE UpdateCapacityProvider
  <2>1. pending'.InfrastructureRoleARN /\ ~pending'.InfrastructureRoleRef
    BY <1>10, <1>0, EcsUpdateEffect DEF UpdateCapacityProvider, EcsUpdates, Updatable
  <2>2. latest'.InfrastructureRoleARN /\ latest'.InfrastructureRoleRef = ByRef
    BY <1>10, <1>0, UpdateMergeEffect DEF UpdateCapacityProvider, Continue
  <2> QED  BY <1>10, <2>1, <2>2 DEF UpdateCapacityProvider, EcsUpdates, Continue
<1>11. CASE UpdateRefused
  BY <1>11, FinishEffect DEF UpdateRefused
<1>12. CASE UpdateFails
  <2>1. Updatable /\ EcsUpdates =>
           pending'.InfrastructureRoleARN /\ ~pending'.InfrastructureRoleRef
    BY <1>0, EcsUpdateEffect DEF EcsUpdates, Updatable
  <2> QED  BY <1>12, <2>1, FinishEffect DEF UpdateFails, EcsUpdates
<1>13. CASE PatchSpec
  <2>1. RefStaysDeclared'
    BY <1>13, <1>0, DeclarationSurvives DEF PatchSpec
  <2> QED  BY <1>13, <2>1 DEF PatchSpec
<1>14. CASE PatchFails
  BY <1>14, FinishEffect DEF PatchFails
<1>15. CASE LateInitialize
  <2>1. CASE status \in {"MISSING", "INACTIVE"}
    BY <1>15, <2>1, FinishEffect DEF LateInitialize
  <2>2. CASE status \notin {"MISSING", "INACTIVE"}
    <3>1. /\ latest'.InfrastructureRoleARN
          /\ latest'.InfrastructureRoleRef = latest.InfrastructureRoleRef
      BY <1>15, <1>0, <2>2, LateInitializedEffect, MergeEffect DEF LateInitialize, Continue
    <3> QED  BY <1>15, <2>2, <3>1 DEF LateInitialize, Continue
  <2> QED  BY <2>1, <2>2
<1>16. CASE LateInitializeFails
  BY <1>16, FinishEffect DEF LateInitializeFails
<1>17. CASE PatchLateInitialized
  <2>1. RefStaysDeclared'
    BY <1>17, <1>0, DeclarationSurvives DEF PatchLateInitialized
  <2> QED  BY <1>17, <2>1, EndEffect DEF PatchLateInitialized
<1>18. CASE DeleteCapacityProvider
  BY <1>18, FinishEffect DEF DeleteCapacityProvider, Deletable, Updatable, EcsDeletes, Continue
<1>19. CASE DeleteFails
  BY <1>19, FinishEffect DEF DeleteFails, Deletable, Updatable, EcsDeletes
<1>20. CASE Release
  BY <1>20, EndEffect DEF Release, RemoveFinalizer
<1>21. CASE ReleaseFails
  BY <1>21, FinishEffect DEF ReleaseFails
<1>22. CASE Crash
  BY <1>22 DEF Crash
<1>23. CASE Resync
  BY <1>23 DEF Resync
<1>24. CASE UserCreates
  BY <1>24, <1>0 DEF UserCreates, UserSpecs
<1>25. CASE UserEdits
  BY <1>25, EditEffect DEF UserEdits
<1>26. CASE UserDeletes
  BY <1>26 DEF UserDeletes
<1>27. CASE Drift
  BY <1>27, <1>0, DriftEffect DEF Drift
<1>28. CASE Detached
  BY <1>28 DEF Detached
<1>29. CASE Settled
  BY <1>29 DEF Settled
<1>30. CASE Failed
  BY <1>30 DEF Failed
<1>31. CASE UNCHANGED vars
  BY <1>31 DEF vars
<1> QED
  BY <1>1, <1>2, <1>3, <1>4, <1>5, <1>6, <1>7, <1>8, <1>9, <1>10, <1>11, <1>12,
     <1>13, <1>14, <1>15, <1>16, <1>17, <1>18, <1>19, <1>20, <1>21, <1>22, <1>23, <1>24,
     <1>25, <1>26, <1>27, <1>28, <1>29, <1>30, <1>31
  DEF Next, Reconcile, Environment

\* No step brings an older setting into what is patched.
LEMMA PatchStep ==
    ASSUME IInv, [Next]_vars
    PROVE  PatchInv'
<1> USE DEF IInv, PatchInv, SettingsKept, crVars, statusVars, workVars, ecsVars
<1>0. ecs \in Resources /\ desired \in Resources /\ latest \in Resources
  BY DEF TypeOK
<1>1. CASE Begin
  BY <1>1 DEF Begin
<1>2. CASE ReferenceFails
  BY <1>2 DEF ReferenceFails
<1>3. CASE FindFails
  BY <1>3, FinishEffect DEF FindFails
<1>4. CASE FindNothing
  BY <1>4 DEF FindNothing, Continue
<1>5. CASE FindForSync
  BY <1>5, FindForSyncEffect, FinishEffect
<1>6. CASE FindForDelete
  BY <1>6 DEF FindForDelete, Continue
<1>7. CASE SetManaged
  BY <1>7, FinishEffect DEF SetManaged
<1>8. CASE CreateCapacityProvider
  BY <1>8, <1>0, EcsCreateEffect, MergeEffect DEF CreateCapacityProvider, EcsCreates, Continue
<1>9. CASE CreateFails \/ CreateReplyLost
  BY <1>9, CreateEndsEffect DEF CreateFails, CreateReplyLost, EcsCreates, RemoveFinalizer
<1>10. CASE UpdateCapacityProvider
  BY <1>10, <1>0, UpdateMergeEffect DEF UpdateCapacityProvider, Continue
<1>11. CASE UpdateRefused
  BY <1>11, FinishEffect DEF UpdateRefused
<1>12. CASE UpdateFails
  BY <1>12, FinishEffect DEF UpdateFails, Updatable, EcsUpdates
<1>13. CASE PatchSpec
  BY <1>13 DEF PatchSpec
<1>14. CASE PatchFails
  BY <1>14, FinishEffect DEF PatchFails
<1>15. CASE LateInitialize
  BY <1>15, <1>0, LateInitializedEffect, MergeEffect, FinishEffect DEF LateInitialize, Continue
<1>16. CASE LateInitializeFails
  BY <1>16, FinishEffect DEF LateInitializeFails
<1>17. CASE PatchLateInitialized
  BY <1>17, EndEffect DEF PatchLateInitialized
<1>18. CASE DeleteCapacityProvider
  BY <1>18, FinishEffect DEF DeleteCapacityProvider, EcsDeletes, Continue
<1>19. CASE DeleteFails
  BY <1>19, FinishEffect DEF DeleteFails, EcsDeletes
<1>20. CASE Release
  BY <1>20, EndEffect DEF Release, RemoveFinalizer
<1>21. CASE ReleaseFails
  BY <1>21, FinishEffect DEF ReleaseFails
<1>22. CASE Crash
  BY <1>22 DEF Crash
<1>23. CASE Resync
  BY <1>23 DEF Resync
<1>24. CASE UserCreates
  BY <1>24 DEF UserCreates
<1>25. CASE UserEdits
  BY <1>25 DEF UserEdits
<1>26. CASE UserDeletes
  BY <1>26 DEF UserDeletes
<1>27. CASE Drift
  BY <1>27 DEF Drift
<1>28. CASE Detached
  BY <1>28 DEF Detached
<1>29. CASE Settled
  BY <1>29 DEF Settled
<1>30. CASE Failed
  BY <1>30 DEF Failed
<1>31. CASE UNCHANGED vars
  BY <1>31 DEF vars
<1> QED
  BY <1>1, <1>2, <1>3, <1>4, <1>5, <1>6, <1>7, <1>8, <1>9, <1>10, <1>11, <1>12,
     <1>13, <1>14, <1>15, <1>16, <1>17, <1>18, <1>19, <1>20, <1>21, <1>22, <1>23, <1>24,
     <1>25, <1>26, <1>27, <1>28, <1>29, <1>30, <1>31
  DEF Next, Reconcile, Environment

\* Before the user creates the object everything is as the invariant says.
LEMMA InitInv == Init => IInv
<1> SUFFICES ASSUME Init PROVE IInv
  OBVIOUS
<1>1. TypeOK
  BY EmptyType DEF Init, TypeOK
<1>2. ~EmptyResource.InfrastructureRoleRef
  BY DEF EmptyResource
<1>3. HoldInv /\ PhaseInv /\ ReferenceInv /\ PatchInv
  BY <1>2 DEF Init, HoldInv, PhaseInv, ReferenceInv, PatchInv, RefStaysDeclared, Exists
<1> QED  BY <1>1, <1>3 DEF IInv

-----------------------------------------------------------------------------
(* What the invariant gives.                                               *)

\* The inductive invariant.
THEOREM Invariance == Spec => []IInv
<1>1. Init => IInv
  BY InitInv
<1>2. IInv /\ [Next]_vars => IInv'
  BY TypeStep, HoldStep, PhaseStep, ReferenceStep, PatchStep DEF IInv
<1> QED  BY <1>1, <1>2, PTL DEF Spec

\* The variables keep their types.
THEOREM TypeCorrect == Spec => []TypeOK
<1>1. IInv => TypeOK
  BY DEF IInv
<1> QED  BY <1>1, Invariance, PTL

\* Every step but the two leaves a provider with the object that holds it.
LEMMA OrphanStep ==
    ASSUME IInv, [Next]_vars, ~Orphaned, Orphaned'
    PROVE  \/ updateStatus' = "DELETE_FAILED"
           \/ pc = "create" /\ pc' = "idle"
<1> USE DEF IInv, crVars, statusVars, workVars, ecsVars, HoldInv, PhaseInv, Exists, Orphaned
<1>a. /\ ~(crState' = crState /\ finalizer' = finalizer /\ status' = status)
      /\ ~(crState' = crState /\ finalizer' = finalizer /\ ~Exists')
  OBVIOUS
<1>1. CASE Begin \/ ReferenceFails \/ FindNothing \/ FindForDelete
  BY <1>a, <1>1 DEF Begin, ReferenceFails, FindNothing, FindForDelete, Continue
<1>2. CASE FindFails \/ LateInitializeFails \/ PatchFails \/ ReleaseFails
  BY <1>a, <1>2, FinishEffect DEF FindFails, LateInitializeFails, PatchFails, ReleaseFails
<1>3. CASE FindForSync
  BY <1>a, <1>3, FindForSyncEffect, FinishEffect
<1>4. CASE SetManaged
  BY <1>a, <1>4, FinishEffect DEF SetManaged
<1>5. CASE CreateCapacityProvider
  BY <1>5 DEF CreateCapacityProvider, EcsCreates, Continue
<1>6. CASE CreateFails \/ CreateReplyLost
  BY <1>6, CreateEndsEffect DEF CreateFails, CreateReplyLost
<1>7. CASE UpdateCapacityProvider
  BY <1>a, <1>7 DEF UpdateCapacityProvider, EcsUpdates, Continue
<1>8. CASE UpdateRefused \/ UpdateFails
  BY <1>a, <1>8, FinishEffect DEF UpdateRefused, UpdateFails, EcsUpdates
<1>9. CASE PatchSpec
  BY <1>a, <1>9 DEF PatchSpec
<1>10. CASE LateInitialize
  BY <1>a, <1>10, FinishEffect DEF LateInitialize, Continue
<1>11. CASE PatchLateInitialized
  BY <1>a, <1>11 DEF PatchLateInitialized
<1>12. CASE DeleteCapacityProvider
  BY <1>a, <1>12, FinishEffect DEF DeleteCapacityProvider, EcsDeletes, Continue
<1>13. CASE DeleteFails
  BY <1>a, <1>13, FinishEffect DEF DeleteFails, EcsDeletes
<1>14. CASE Release
  BY <1>14 DEF Release
<1>15. CASE Crash \/ Resync \/ UserEdits \/ Drift \/ Detached
  BY <1>a, <1>15 DEF Crash, Resync, UserEdits, Drift, Detached
<1>16. CASE UserCreates
  BY <1>16 DEF UserCreates
<1>17. CASE UserDeletes
  BY <1>17 DEF UserDeletes
<1>18. CASE Settled
  BY <1>18 DEF Settled
<1>19. CASE Failed
  BY <1>a, <1>19 DEF Failed
<1>20. CASE UNCHANGED vars
  BY <1>a, <1>20 DEF vars
<1> QED
  BY <1>1, <1>2, <1>3, <1>4, <1>5, <1>6, <1>7, <1>8, <1>9, <1>10, <1>11, <1>12,
     <1>13, <1>14, <1>15, <1>16, <1>17, <1>18, <1>19, <1>20
  DEF Next, Reconcile, Environment

\* A provider gets out of hand only by a deletion that failed after it was accepted,
\* or by a creation of which sdkCreate did not hear.
THEOREM OrphansHaveTwoCauses == Spec => OrphansHaveKnownCauses
<1> DEFINE known ==
        ~Orphaned /\ Orphaned'
          => \/ updateStatus' = "DELETE_FAILED"
             \/ pc = "create" /\ pc' = "idle"
<1>1. IInv /\ [Next]_vars => [known]_vars
  BY OrphanStep
<1> QED  BY <1>1, Invariance, PTL DEF Spec, OrphansHaveKnownCauses

\* The spec keeps the declared reference and never gets the role it resolves to,
\* whichever reply the resources of a patch were built from.
THEOREM ReferenceStaysDeclared == Spec => []RefStaysDeclared
<1>1. IInv => RefStaysDeclared
  BY DEF IInv, ReferenceInv
<1> QED  BY <1>1, Invariance, PTL

\* Neither a stale reply nor the late initialization replaces a setting that the
\* user wrote, before or while the reconcile ran.
THEOREM StaleRepliesAreNotAdopted == Spec => StaleReplyNotAdopted
<1> DEFINE kept ==
        pc' # pc /\ pc \in {"patch", "lateInit"} =>
            \A f \in {"Settings", "AutoRepairConfiguration"} :
               desired[f] # Nil => ko'[f] = ko[f]
<1>1. IInv /\ [Next]_vars => [kept]_vars
  <2> SUFFICES ASSUME IInv, Next, pc' # pc, pc \in {"patch", "lateInit"}
               PROVE  /\ desired.Settings # Nil => ko'.Settings = ko.Settings
                      /\ desired.AutoRepairConfiguration # Nil =>
                            ko'.AutoRepairConfiguration = ko.AutoRepairConfiguration
    OBVIOUS
  <2>1. ko \in Resources /\ desired \in Resources /\ latest \in Resources
    BY DEF IInv, TypeOK
  <2>2. SettingsKept
    BY DEF IInv, PatchInv
  <2>3. CASE PatchSpec \/ PatchLateInitialized
    BY <2>1, <2>2, <2>3, WrittenBackEffect, PatchedEffect, EnsureEffect
    DEF PatchSpec, PatchLateInitialized, SettingsKept
  <2>4. CASE PatchFails \/ Crash
    BY <2>4, FinishEffect DEF PatchFails, Crash, crVars
  <2>5. Reconcile => PatchSpec \/ PatchLateInitialized \/ PatchFails
    BY DEF Reconcile, Begin, ReferenceFails, FindFails, FindNothing, FindForSync,
           FindForDelete, SetManaged, CreateCapacityProvider, CreateFails,
           CreateReplyLost, UpdateCapacityProvider, UpdateRefused, UpdateFails, LateInitialize,
           LateInitializeFails, DeleteCapacityProvider, DeleteFails, Release,
           ReleaseFails
  <2>6. Environment => Crash
    BY DEF Environment, Resync, UserCreates, UserEdits, UserDeletes, Drift, Detached,
           Settled, Failed, workVars
  <2> QED  BY <2>3, <2>4, <2>5, <2>6 DEF Next
<1> QED  BY <1>1, Invariance, PTL DEF Spec, StaleReplyNotAdopted
==============================================================================
