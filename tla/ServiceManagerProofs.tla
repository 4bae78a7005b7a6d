------------------------ MODULE ServiceManagerProofs ------------------------
(***************************************************************************)
(* Proofs, for every choice of fields, values and bounds, of the safety    *)
(* properties of ServiceManager.                                           *)
(***************************************************************************)
EXTENDS ServiceManager, TLAPS

\* The finalizer holds the object for as long as the service may be used, and
\* nothing is ever created in ECS's default cluster.
HoldInv ==
    /\ crState = "deleting" => finalizer
    /\ crState = "absent" => ~finalizer
    /\ ~ByRef /\ svcStatus["named"] = "ACTIVE" => finalizer
    /\ svcStatus["default"] = "MISSING"

\* What a reconcile that has come to a call may rely on.
PhaseInv ==
    /\ mode = "sync" \/ ~ByRef => cluster = "named"
    /\ pc \in {"idle", "manage", "create", "update", "patch"} => mode = "sync"
    /\ pc \in {"scale", "delete", "release"} => mode = "delete"
    /\ mode = "delete" => crState = "deleting"
    /\ pc \in {"create", "update", "patch"} => finalizer
    /\ pc \in {"manage", "create"} => svcStatus["named"] \in {"MISSING", "INACTIVE"}
    /\ pc = "release" => svcStatus[cluster] # "ACTIVE"

NoFailure(c) == c.terminal # "True" /\ c.recoverable # "True"

\* Success leaves clean conditions, and an active service unless others delete it.
OutcomeInv ==
    /\ pc = "patch" => NoFailure(work)
    /\ outcome = "success" => NoFailure(cond)
    /\ crState = "absent" => outcome = "none"
    /\ ~OthersDelete /\ pc = "patch" => svcStatus["named"] = "ACTIVE"
    /\ ~OthersDelete => SyncedMeansActive

\* A patch differs from what was asked for only where nothing was asked for.
PatchInv ==
    pc = "patch" =>
        \A f \in newUpdateRequestPayloadFields :
            desired[f] # Nil => latest[f] = desired[f]

\* As long as nothing drifted, what the reconcile read is still so.
CalmInv ==
    /\ left["drifts"] <= MaxDrifts
    /\ ~ByRef /\ left["drifts"] = MaxDrifts =>
        /\ outcome # "terminal"
        /\ pc = "update" =>
              /\ svcStatus["named"] = "ACTIVE"
              /\ \A f \in sdkFindFields : latest[f] = svcSpec["named"][f]
        /\ pc = "delete" /\ svcStatus[cluster] = "ACTIVE" =>
              svcSpec[cluster]["DesiredCount"] \in {Nil, 0}

IInv == TypeOK /\ HoldInv /\ PhaseInv /\ OutcomeInv /\ PatchInv /\ CalmInv

-----------------------------------------------------------------------------
(* Types.                                                                  *)

\* The conditions an operation leaves behind are conditions.
LEMMA ConditionsType ==
    ASSUME NEW c \in Conditions, NEW err
    PROVE  /\ updateConditions(c, err) \in Conditions
           /\ onError(c, err).conditions = updateConditions(c, err)
           /\ onError(c, err).conditions \in Conditions
           /\ onSuccess(c).conditions \in Conditions
           /\ [c EXCEPT !.terminal = "True"] \in Conditions
<1>1. \A s \in ConditionStatus : Clear(s) \in ConditionStatus
  BY DEF Clear, ConditionStatus
<1>2. \A e : updateConditions(c, e) \in Conditions
  BY <1>1 DEF updateConditions, Conditions, ConditionStatus
<1>3. [c EXCEPT !.terminal = "True"] \in Conditions
  BY DEF Conditions, ConditionStatus
<1> QED  BY <1>2, <1>3 DEF onError, onSuccess

\* How a reconcile ended is one of the outcomes.
LEMMA OutcomeType == ASSUME NEW err PROVE OutcomeOf(err) \in Outcomes
BY DEF OutcomeOf, Outcomes

\* What ECS and the manager make of specs are specs.
LEMMA SpecsType ==
    ASSUME NEW a \in Specs, NEW b \in Specs, NEW c \in Specs
    PROVE  /\ Observe(a, b) \in Specs
           /\ Merge(a, b) \in Specs
           /\ EcsCreate(a) \in Specs
           /\ EcsUpdate(a, b) \in Specs
           /\ EcsReply(a) \subseteq Specs
           /\ [f \in Fields |-> IF a[f] # b[f] THEN a[f] ELSE c[f]] \in Specs
BY ConstantsAssumption DEF Specs, Observe, Merge, EcsCreate, EcsUpdate, EcsReply

\* The end of a reconcile keeps the types of what it sets.
LEMMA FinishType ==
    ASSUME TypeOK, NEW err, NEW c \in Conditions, NEW event \in BOOLEAN,
           Finish(err, c, event)
    PROVE  /\ cond' \in Conditions /\ outcome' \in Outcomes /\ queued' \in BOOLEAN
           /\ pc' \in PCs /\ mode' \in {"sync", "delete"} /\ cluster' \in Clusters
           /\ desired' \in Specs /\ latest' \in Specs /\ work' \in Conditions
<1>1. NoConditions \in Conditions /\ EmptySpec \in Specs /\ "none" \in Outcomes
  BY DEF NoConditions, Conditions, ConditionStatus, EmptySpec, Specs, Outcomes
<1> QED
  BY <1>1, OutcomeType DEF Finish, TypeOK, PCs, Clusters

\* The same for an operation that failed.
LEMMA FinishOnErrorType ==
    ASSUME TypeOK, NEW err, FinishOnError(err)
    PROVE  /\ cond' \in Conditions /\ outcome' \in Outcomes /\ queued' \in BOOLEAN
           /\ pc' \in PCs /\ mode' \in {"sync", "delete"} /\ cluster' \in Clusters
           /\ desired' \in Specs /\ latest' \in Specs /\ work' \in Conditions
<1> DEFINE r == onError(work, err)
<1>1. r.conditions \in Conditions /\ work \in Conditions
  BY ConditionsType DEF TypeOK
<1>2. Finish(r.error, r.conditions, FALSE)
  BY DEF FinishOnError
<1> HIDE DEF r
<1> QED
  BY <1>1, <1>2, FinishType

\* Spending a budget leaves a natural number of it.
LEMMA SpendType ==
    ASSUME TypeOK, NEW k \in Budgets, Spend(k)
    PROVE  left' \in [Budgets -> Nat]
BY DEF Spend, TypeOK

\* An ECS operation on one cluster keeps the types.
LEMMA EcsType ==
    ASSUME TypeOK
    PROVE  /\ \A c \in Clusters, s \in ServiceStatuses :
                 [svcStatus EXCEPT ![c] = s] \in [Clusters -> ServiceStatuses]
           /\ \A c \in Clusters, s \in Specs :
                 [svcSpec EXCEPT ![c] = s] \in [Clusters -> Specs]
           /\ \A c \in Clusters, f \in Fields, v \in Values \cup {Nil} :
                 [svcSpec EXCEPT ![c][f] = v] \in [Clusters -> Specs]
BY DEF TypeOK, Specs

\* Scaling a service down keeps the types.
LEMMA ScaleType ==
    ASSUME TypeOK
    PROVE  [svcSpec EXCEPT ![cluster]["DesiredCount"] = 0] \in [Clusters -> Specs]
<1>1. "DesiredCount" \in Fields /\ 0 \in Values \cup {Nil}
  BY ConstantsAssumption
<1>2. cluster \in Clusters
  BY DEF TypeOK
<1> QED  BY <1>1, <1>2, EcsType

\* A description or a response that is merged into a resource gives a resource.
LEMMA MergedType ==
    ASSUME TypeOK
    PROVE  /\ svcSpec[cluster] \in Specs
           /\ Observe(desired, svcSpec[cluster]) \in Specs
           /\ EcsCreate(desired) \in Specs
           /\ Merge(desired, EcsCreate(desired)) \in Specs
           /\ EcsUpdate(svcSpec[cluster], desired) \in Specs
           /\ \A reply \in EcsReply(EcsUpdate(svcSpec[cluster], desired)) :
                  Merge(desired, reply) \in Specs
<1>1. svcSpec[cluster] \in Specs /\ desired \in Specs /\ latest \in Specs
  BY DEF TypeOK
<1>2. EcsCreate(desired) \in Specs /\ EcsUpdate(svcSpec[cluster], desired) \in Specs
  BY <1>1, SpecsType
<1>3. EcsReply(EcsUpdate(svcSpec[cluster], desired)) \subseteq Specs
  BY <1>2, SpecsType
<1> QED  BY <1>1, <1>2, <1>3, SpecsType

\* Every step of the reconcile keeps the types.
LEMMA ReconcileTypeStep ==
    ASSUME TypeOK, Reconcile
    PROVE  TypeOK'
<1> USE DEF crVars, statusVars, workVars, ecsVars
<1>1. CASE Begin
  BY <1>1 DEF Begin, TypeOK, PCs, Outcomes, Clusters, ResolveReferences, EmptySpec, Specs
<1>2. CASE FindFails
  BY <1>2, FinishOnErrorType, SpendType DEF FindFails, TypeOK, Budgets
<1>3. CASE FindNothing
  BY <1>3 DEF FindNothing, Continue, TypeOK, PCs
<1>4. CASE FindDraining
  BY <1>4, FinishOnErrorType DEF FindDraining, TypeOK
<1>5. CASE FindForSync
  <2> DEFINE observed == Observe(desired, svcSpec[cluster])
             c == onSuccess(work).conditions
             d == [c EXCEPT !.terminal = "True"]
  <2>1. observed \in Specs /\ c \in Conditions /\ d \in Conditions
    BY MergedType, ConditionsType DEF TypeOK
  <2>2. \/ Finish("Terminal", d, FALSE)
        \/ Finish("nil", c, FALSE)
        \/ Continue("update") /\ latest' = observed /\ work' = c
    BY <1>5 DEF FindForSync
  <2>3. UNCHANGED <<crVars, ecsVars, refReady, left>>
    BY <1>5 DEF FindForSync
  <2> HIDE DEF observed, c, d
  <2>4. CASE Finish("Terminal", d, FALSE)
    BY <2>1, <2>3, <2>4, FinishType DEF TypeOK
  <2>5. CASE Finish("nil", c, FALSE)
    BY <2>1, <2>3, <2>5, FinishType DEF TypeOK
  <2>6. CASE Continue("update") /\ latest' = observed /\ work' = c
    BY <2>1, <2>3, <2>6 DEF Continue, TypeOK, PCs
  <2> QED  BY <2>2, <2>4, <2>5, <2>6
<1>6. CASE FindForDelete
  <2>1. latest' \in Specs /\ work' \in Conditions
    BY <1>6, MergedType, ConditionsType DEF FindForDelete, TypeOK
  <2>2. pc' \in PCs
    BY <1>6 DEF FindForDelete, Continue, FirstCallOfDelete, PCs
  <2> QED  BY <1>6, <2>1, <2>2 DEF FindForDelete, Continue, TypeOK
<1>7. CASE SetManaged
  <2>1. CASE crState = "absent"
    <3>1. work \in Conditions /\ Finish("Retryable", work, FALSE)
      BY <1>7, <2>1 DEF SetManaged, TypeOK
    <3> QED  BY <1>7, <2>1, <3>1, FinishType DEF SetManaged, TypeOK
  <2>2. CASE crState # "absent"
    BY <1>7, <2>2 DEF SetManaged, Continue, TypeOK, PCs
  <2> QED  BY <2>1, <2>2
<1>8. CASE CreateService
  <2>1. CASE svcStatus[cluster] \in {"MISSING", "INACTIVE"}
    <3>1. /\ svcStatus' \in [Clusters -> ServiceStatuses]
          /\ svcSpec' \in [Clusters -> Specs]
      BY <1>8, <2>1, MergedType DEF CreateService, TypeOK, ServiceStatuses
    <3>2. latest' \in Specs /\ work' \in Conditions
      BY <1>8, <2>1, MergedType, ConditionsType DEF CreateService, TypeOK
    <3> QED  BY <1>8, <2>1, <3>1, <3>2 DEF CreateService, Continue, TypeOK, PCs
  <2>2. CASE svcStatus[cluster] \notin {"MISSING", "INACTIVE"}
    BY <1>8, <2>2, FinishOnErrorType DEF CreateService, TypeOK
  <2> QED  BY <2>1, <2>2
<1>9. CASE CreateFails
  <2>1. /\ crState' \in {"absent", "live", "deleting"}
        /\ finalizer' \in BOOLEAN /\ spec' \in Specs
    BY <1>9 DEF CreateFails, RemoveFinalizer, TypeOK, EmptySpec, Specs
  <2> QED
    BY <1>9, <2>1, FinishOnErrorType, SpendType DEF CreateFails, TypeOK, Budgets
<1>10. CASE CreateReplyLost
  <2>1. /\ svcStatus' \in [Clusters -> ServiceStatuses]
        /\ svcSpec' \in [Clusters -> Specs]
    BY <1>10, MergedType DEF CreateReplyLost, TypeOK, ServiceStatuses
  <2> QED
    BY <1>10, <2>1, FinishOnErrorType, SpendType DEF CreateReplyLost, TypeOK, Budgets
<1>11. CASE UpdateService
  <2>1. CASE UpdateAccepted
    <3>1. svcSpec' \in [Clusters -> Specs]
      BY <1>11, <2>1, MergedType DEF UpdateService, TypeOK
    <3>2. latest' \in Specs /\ work' \in Conditions
      BY <1>11, <2>1, MergedType, ConditionsType DEF UpdateService, TypeOK
    <3> QED  BY <1>11, <2>1, <3>1, <3>2 DEF UpdateService, Continue, TypeOK, PCs
  <2>2. CASE ~UpdateAccepted
    BY <1>11, <2>2, FinishOnErrorType DEF UpdateService, TypeOK
  <2> QED  BY <2>1, <2>2
<1>12. CASE UpdateFails
  <2>1. svcSpec' \in [Clusters -> Specs]
    BY <1>12, MergedType DEF UpdateFails, TypeOK
  <2> QED
    BY <1>12, <2>1, FinishOnErrorType, SpendType DEF UpdateFails, TypeOK, Budgets
<1>13. CASE PatchSpec
  <2>1. spec' \in Specs
    BY <1>13 DEF PatchSpec, TypeOK, Specs
  <2>2. OutcomeOf("nil") \in Outcomes /\ "none" \in Outcomes
    BY DEF OutcomeOf, Outcomes
  <2>3. NoConditions \in Conditions /\ EmptySpec \in Specs
    BY DEF NoConditions, Conditions, ConditionStatus, EmptySpec, Specs
  <2> QED
    BY <1>13, <2>1, <2>2, <2>3 DEF PatchSpec, Finish, TypeOK, PCs, Clusters
<1>14. CASE PatchFails
  <2>1. work \in Conditions /\ Finish("Retryable", work, FALSE)
    BY <1>14 DEF PatchFails, TypeOK
  <2> QED  BY <1>14, <2>1, FinishType, SpendType DEF PatchFails, TypeOK, Budgets
<1>15. CASE ScaleDown
  <2>1. CASE svcStatus[cluster] = "ACTIVE"
    <3>1. svcSpec' \in [Clusters -> Specs]
      BY <1>15, <2>1, ScaleType DEF ScaleDown
    <3> QED  BY <1>15, <2>1, <3>1 DEF ScaleDown, Continue, TypeOK, PCs
  <2>2. CASE svcStatus[cluster] # "ACTIVE"
    BY <1>15, <2>2, FinishOnErrorType DEF ScaleDown, TypeOK
  <2> QED  BY <2>1, <2>2
<1>16. CASE ScaleDownFails
  <2>1. svcSpec' \in [Clusters -> Specs]
    BY <1>16, ScaleType DEF ScaleDownFails, TypeOK
  <2> QED
    BY <1>16, <2>1, FinishOnErrorType, SpendType DEF ScaleDownFails, TypeOK, Budgets
<1>17. CASE DeleteService
  <2> DEFINE deletable == /\ svcStatus[cluster] = "ACTIVE"
                          /\ svcSpec[cluster]["DesiredCount"] \in {Nil, 0}
  <2>1. CASE deletable
    <3>1. svcStatus' \in [Clusters -> ServiceStatuses]
      BY <1>17, <2>1 DEF DeleteService, TypeOK, ServiceStatuses
    <3> QED  BY <1>17, <2>1, <3>1 DEF DeleteService, Continue, TypeOK, PCs
  <2>2. CASE ~deletable
    BY <1>17, <2>2, FinishOnErrorType DEF DeleteService, TypeOK
  <2> QED  BY <2>1, <2>2
<1>18. CASE DeleteFails
  <2>1. svcStatus' \in [Clusters -> ServiceStatuses]
    BY <1>18 DEF DeleteFails, TypeOK, ServiceStatuses
  <2> QED
    BY <1>18, <2>1, FinishOnErrorType, SpendType DEF DeleteFails, TypeOK, Budgets
<1>19. CASE Release
  <2>1. /\ crState' \in {"absent", "live", "deleting"}
        /\ finalizer' \in BOOLEAN /\ spec' \in Specs
    BY <1>19 DEF Release, RemoveFinalizer, TypeOK, EmptySpec, Specs
  <2>2. work \in Conditions /\ Finish("nil", work, FALSE)
    BY <1>19 DEF Release, TypeOK
  <2> QED  BY <1>19, <2>1, <2>2, FinishType DEF Release, TypeOK
<1>20. CASE ReleaseFails
  <2>1. work \in Conditions /\ Finish("Retryable", work, FALSE)
    BY <1>20 DEF ReleaseFails, TypeOK
  <2> QED  BY <1>20, <2>1, FinishType, SpendType DEF ReleaseFails, TypeOK, Budgets
<1> QED
  BY <1>1, <1>2, <1>3, <1>4, <1>5, <1>6, <1>7, <1>8, <1>9, <1>10, <1>11, <1>12,
     <1>13, <1>14, <1>15, <1>16, <1>17, <1>18, <1>19, <1>20 DEF Reconcile

\* So does every step of the environment.
LEMMA EnvironmentTypeStep ==
    ASSUME TypeOK, Environment
    PROVE  TypeOK'
<1> USE DEF crVars, statusVars, workVars, ecsVars
<1>1. CASE Crash
  <2>1. NoConditions \in Conditions /\ EmptySpec \in Specs
    BY DEF NoConditions, Conditions, ConditionStatus, EmptySpec, Specs
  <2> QED  BY <1>1, <2>1, SpendType DEF Crash, TypeOK, Budgets, PCs, Clusters
<1>2. CASE Resync
  BY <1>2 DEF Resync, TypeOK
<1>3. CASE UserCreates
  BY <1>3, SpendType DEF UserCreates, TypeOK, Budgets
<1>4. CASE UserEdits
  <2>1. spec' \in Specs
    BY <1>4 DEF UserEdits, TypeOK, Specs
  <2> QED  BY <1>4, <2>1, SpendType DEF UserEdits, TypeOK, Budgets
<1>5. CASE UserDeletes
  <2>1. /\ NoConditions \in Conditions /\ EmptySpec \in Specs
        /\ "none" \in Outcomes
    BY DEF NoConditions, Conditions, ConditionStatus, EmptySpec, Specs, Outcomes
  <2> QED  BY <1>5, <2>1 DEF UserDeletes, TypeOK
<1>6. CASE Drift
  <2>1. svcSpec' \in [Clusters -> Specs]
    BY <1>6, ConstantsAssumption DEF Drift, TypeOK, Specs
  <2> QED  BY <1>6, <2>1, SpendType DEF Drift, TypeOK, Budgets
<1>7. CASE OthersDeleteService
  <2>1. svcStatus' \in [Clusters -> ServiceStatuses]
    BY <1>7 DEF OthersDeleteService, TypeOK, ServiceStatuses
  <2> QED  BY <1>7, <2>1, SpendType DEF OthersDeleteService, TypeOK, Budgets
<1>8. CASE Drained
  <2>1. svcStatus' \in [Clusters -> ServiceStatuses]
    BY <1>8 DEF Drained, TypeOK, ServiceStatuses
  <2> QED  BY <1>8, <2>1 DEF Drained, TypeOK
<1>9. CASE Forgotten
  <2>1. /\ svcStatus' \in [Clusters -> ServiceStatuses]
        /\ svcSpec' \in [Clusters -> Specs]
    BY <1>9 DEF Forgotten, TypeOK, ServiceStatuses, EmptySpec, Specs
  <2> QED  BY <1>9, <2>1 DEF Forgotten, TypeOK
<1>10. CASE ReferenceChanges
  BY <1>10, SpendType DEF ReferenceChanges, TypeOK, Budgets
<1> QED
  BY <1>1, <1>2, <1>3, <1>4, <1>5, <1>6, <1>7, <1>8, <1>9, <1>10 DEF Environment

LEMMA TypeStep ==
    ASSUME TypeOK, [Next]_vars
    PROVE  TypeOK'
<1>1. CASE UNCHANGED vars
  BY <1>1 DEF vars, crVars, statusVars, workVars, ecsVars, TypeOK
<1> QED  BY <1>1, ReconcileTypeStep, EnvironmentTypeStep DEF Next

-----------------------------------------------------------------------------
(* The other parts of the invariant.                                       *)

\* What the end of a reconcile leaves behind.
LEMMA FinishEffect ==
    ASSUME NEW err, NEW c, NEW event \in BOOLEAN, Finish(err, c, event)
    PROVE  /\ pc' = "idle" /\ mode' = "sync" /\ cluster' = "named"
           /\ crState' = "absent" => outcome' = "none"
           /\ crState' # "absent" => cond' = c /\ outcome' = OutcomeOf(err)
BY DEF Finish

\* A failure never counts as success, and only an error that ECS's answer makes
\* terminal ends the retries.
LEMMA FinishOnErrorEffect ==
    ASSUME TypeOK, NEW err, FinishOnError(err)
    PROVE  /\ pc' = "idle" /\ mode' = "sync" /\ cluster' = "named"
           /\ crState' = "absent" => outcome' = "none"
           /\ err # "nil" => outcome' # "success"
           /\ err \in {"Retryable", "Requeue"} => outcome' # "terminal"
<1> DEFINE r == onError(work, err)
<1>1. Finish(r.error, r.conditions, FALSE)
  BY DEF FinishOnError
<1>2. r.error \in {"Terminal", err}
  BY DEF onError
<1>3. err \in {"Retryable", "Requeue"} => r.error = err
  <2>1. work.terminal \in ConditionStatus
    BY DEF TypeOK, Conditions
  <2> QED
    BY <2>1 DEF onError, updateConditions, IsTerminal, terminalAWSError, Clear
<1> HIDE DEF r
<1>4. /\ pc' = "idle" /\ mode' = "sync" /\ cluster' = "named"
      /\ crState' = "absent" => outcome' = "none"
      /\ crState' # "absent" => outcome' = OutcomeOf(r.error)
  BY <1>1, FinishEffect
<1> QED  BY <1>2, <1>3, <1>4 DEF OutcomeOf

\* How the errors the actions name end a reconcile.
LEMMA OutcomeValues ==
    /\ OutcomeOf("nil") = "success" /\ OutcomeOf("Retryable") = "error"
    /\ OutcomeOf("Terminal") = "terminal"
BY DEF OutcomeOf

\* Success clears the conditions.
LEMMA SuccessIsClean ==
    ASSUME NEW c \in Conditions
    PROVE  NoFailure(onSuccess(c).conditions)
BY DEF NoFailure, onSuccess, updateConditions, IsTerminal, terminalAWSError, Clear

\* The finalizer holds whatever may be active.
LEMMA HoldStep ==
    ASSUME IInv, [Next]_vars
    PROVE  HoldInv'
<1> USE DEF IInv, crVars, statusVars, workVars, ecsVars, TypeOK, Clusters, HoldInv, PhaseInv
<1>1. CASE Begin
  BY <1>1 DEF Begin
<1>2. CASE FindFails
  BY <1>2, FinishOnErrorEffect DEF FindFails
<1>3. CASE FindNothing
  BY <1>3 DEF FindNothing, Continue
<1>4. CASE FindDraining
  BY <1>4, FinishOnErrorEffect DEF FindDraining
<1>5. CASE FindForSync
  BY <1>5, FinishEffect DEF FindForSync, Continue
<1>6. CASE FindForDelete
  BY <1>6 DEF FindForDelete, Continue
<1>7. CASE SetManaged
  BY <1>7, FinishEffect DEF SetManaged, Continue
<1>8. CASE CreateService
  <2>1. CASE svcStatus[cluster] \in {"MISSING", "INACTIVE"}
    BY <1>8, FinishOnErrorEffect, <2>1 DEF CreateService, Continue
  <2>2. CASE ~(svcStatus[cluster] \in {"MISSING", "INACTIVE"})
    BY <1>8, FinishOnErrorEffect, <2>2 DEF CreateService, Continue
  <2> QED  BY <2>1, <2>2
<1>9. CASE CreateFails
  BY <1>9, FinishOnErrorEffect DEF CreateFails, RemoveFinalizer
<1>10. CASE CreateReplyLost
  BY <1>10, FinishOnErrorEffect DEF CreateReplyLost
<1>11. CASE UpdateService
  BY <1>11, FinishOnErrorEffect DEF UpdateService, Continue
<1>12. CASE UpdateFails
  BY <1>12, FinishOnErrorEffect DEF UpdateFails
<1>13. CASE PatchSpec
  BY <1>13, FinishEffect DEF PatchSpec
<1>14. CASE PatchFails
  BY <1>14, FinishEffect DEF PatchFails
<1>15. CASE ScaleDown
  BY <1>15, FinishOnErrorEffect DEF ScaleDown, Continue
<1>16. CASE ScaleDownFails
  BY <1>16, FinishOnErrorEffect DEF ScaleDownFails
<1>17. CASE DeleteService
  <2>1. CASE svcStatus[cluster] = "ACTIVE" /\ svcSpec[cluster]["DesiredCount"] \in {Nil, 0}
    BY <1>17, FinishOnErrorEffect, <2>1 DEF DeleteService, Continue
  <2>2. CASE ~(svcStatus[cluster] = "ACTIVE" /\ svcSpec[cluster]["DesiredCount"] \in {Nil, 0})
    BY <1>17, FinishOnErrorEffect, <2>2 DEF DeleteService, Continue
  <2> QED  BY <2>1, <2>2
<1>18. CASE DeleteFails
  BY <1>18, FinishOnErrorEffect DEF DeleteFails
<1>19. CASE Release
  BY <1>19, FinishEffect DEF Release, RemoveFinalizer
<1>20. CASE ReleaseFails
  BY <1>20, FinishEffect DEF ReleaseFails
<1>21. CASE Crash
  BY <1>21 DEF Crash
<1>22. CASE Resync
  BY <1>22 DEF Resync
<1>23. CASE UserCreates
  BY <1>23 DEF UserCreates
<1>24. CASE UserEdits
  BY <1>24 DEF UserEdits
<1>25. CASE UserDeletes
  BY <1>25 DEF UserDeletes
<1>26. CASE Drift
  BY <1>26 DEF Drift
<1>27. CASE OthersDeleteService
  BY <1>27 DEF OthersDeleteService
<1>28. CASE Drained
  BY <1>28 DEF Drained
<1>29. CASE Forgotten
  BY <1>29 DEF Forgotten
<1>30. CASE ReferenceChanges
  BY <1>30 DEF ReferenceChanges
<1>31. CASE UNCHANGED vars
  BY <1>31 DEF vars
<1> QED
  BY <1>1, <1>2, <1>3, <1>4, <1>5, <1>6, <1>7, <1>8, <1>9, <1>10, <1>11, <1>12, <1>13, <1>14, <1>15,
     <1>16, <1>17, <1>18, <1>19, <1>20, <1>21, <1>22, <1>23, <1>24, <1>25, <1>26, <1>27, <1>28, <1>29, <1>30, <1>31
  DEF Next, Reconcile, Environment

\* A reconcile that has come to a call got there in the right mode.
LEMMA PhaseStep ==
    ASSUME IInv, [Next]_vars
    PROVE  PhaseInv'
<1> USE DEF IInv, crVars, statusVars, workVars, ecsVars, TypeOK, HoldInv, PhaseInv
<1>1. CASE Begin
  BY <1>1 DEF Begin, ResolveReferences
<1>2. CASE FindFails
  BY <1>2, FinishOnErrorEffect DEF FindFails
<1>3. CASE FindNothing
  BY <1>3 DEF FindNothing, Continue, DescribeError
<1>4. CASE FindDraining
  BY <1>4, FinishOnErrorEffect DEF FindDraining
<1>5. CASE FindForSync
  BY <1>5, FinishEffect DEF FindForSync, Continue, DescribeError
<1>6. CASE FindForDelete
  BY <1>6 DEF FindForDelete, Continue, FirstCallOfDelete
<1>7. CASE SetManaged
  BY <1>7, FinishEffect DEF SetManaged, Continue
<1>8. CASE CreateService
  <2>1. CASE svcStatus[cluster] \in {"MISSING", "INACTIVE"}
    BY <1>8, FinishOnErrorEffect, <2>1 DEF CreateService, Continue
  <2>2. CASE ~(svcStatus[cluster] \in {"MISSING", "INACTIVE"})
    BY <1>8, FinishOnErrorEffect, <2>2 DEF CreateService, Continue
  <2> QED  BY <2>1, <2>2
<1>9. CASE CreateFails
  BY <1>9, FinishOnErrorEffect DEF CreateFails, RemoveFinalizer
<1>10. CASE CreateReplyLost
  BY <1>10, FinishOnErrorEffect DEF CreateReplyLost
<1>11. CASE UpdateService
  BY <1>11, FinishOnErrorEffect DEF UpdateService, Continue
<1>12. CASE UpdateFails
  BY <1>12, FinishOnErrorEffect DEF UpdateFails
<1>13. CASE PatchSpec
  BY <1>13, FinishEffect DEF PatchSpec
<1>14. CASE PatchFails
  BY <1>14, FinishEffect DEF PatchFails
<1>15. CASE ScaleDown
  BY <1>15, FinishOnErrorEffect DEF ScaleDown, Continue
<1>16. CASE ScaleDownFails
  BY <1>16, FinishOnErrorEffect DEF ScaleDownFails
<1>17. CASE DeleteService
  <2>1. CASE svcStatus[cluster] = "ACTIVE" /\ svcSpec[cluster]["DesiredCount"] \in {Nil, 0}
    BY <1>17, FinishOnErrorEffect, <2>1 DEF DeleteService, Continue
  <2>2. CASE ~(svcStatus[cluster] = "ACTIVE" /\ svcSpec[cluster]["DesiredCount"] \in {Nil, 0})
    BY <1>17, FinishOnErrorEffect, <2>2 DEF DeleteService, Continue
  <2> QED  BY <2>1, <2>2
<1>18. CASE DeleteFails
  BY <1>18, FinishOnErrorEffect DEF DeleteFails
<1>19. CASE Release
  BY <1>19, FinishEffect DEF Release, RemoveFinalizer
<1>20. CASE ReleaseFails
  BY <1>20, FinishEffect DEF ReleaseFails
<1>21. CASE Crash
  BY <1>21 DEF Crash
<1>22. CASE Resync
  BY <1>22 DEF Resync
<1>23. CASE UserCreates
  BY <1>23 DEF UserCreates
<1>24. CASE UserEdits
  BY <1>24 DEF UserEdits
<1>25. CASE UserDeletes
  BY <1>25 DEF UserDeletes
<1>26. CASE Drift
  BY <1>26 DEF Drift
<1>27. CASE OthersDeleteService
  BY <1>27 DEF OthersDeleteService
<1>28. CASE Drained
  BY <1>28 DEF Drained
<1>29. CASE Forgotten
  BY <1>29 DEF Forgotten
<1>30. CASE ReferenceChanges
  BY <1>30 DEF ReferenceChanges
<1>31. CASE UNCHANGED vars
  BY <1>31 DEF vars
<1> QED
  BY <1>1, <1>2, <1>3, <1>4, <1>5, <1>6, <1>7, <1>8, <1>9, <1>10, <1>11, <1>12, <1>13, <1>14, <1>15,
     <1>16, <1>17, <1>18, <1>19, <1>20, <1>21, <1>22, <1>23, <1>24, <1>25, <1>26, <1>27, <1>28, <1>29, <1>30, <1>31
  DEF Next, Reconcile, Environment

\* Only an active service is described without an error.
LEMMA FoundIsActive ==
    ASSUME TypeOK, DescribeError(svcStatus[cluster]) = "nil"
    PROVE  svcStatus[cluster] = "ACTIVE"
BY DEF TypeOK, DescribeError, ServiceStatuses

\* The three ways a successful read ends in a sync.
LEMMA FindForSyncCases ==
    ASSUME TypeOK, FindForSync
    PROVE  LET observed == Observe(desired, svcSpec[cluster])
               c == onSuccess(work).conditions
           IN  \/ ~finalizer /\ Finish("Terminal", [c EXCEPT !.terminal = "True"], FALSE)
               \/ finalizer /\ Finish("nil", c, FALSE)
               \/ finalizer /\ Continue("update") /\ latest' = observed /\ work' = c
BY DEF FindForSync, TypeOK

\* Spending another budget leaves the drifts that are left.
LEMMA SpendOther ==
    ASSUME TypeOK, NEW k \in Budgets \ {"drifts"}, Spend(k)
    PROVE  left'["drifts"] = left["drifts"]
BY DEF TypeOK, Spend, Budgets

\* A drift leaves fewer than there were.
LEMMA SpendDrift ==
    ASSUME TypeOK, CalmInv, Spend("drifts")
    PROVE  left'["drifts"] < MaxDrifts
BY ConstantsAssumption DEF TypeOK, Spend, Budgets, CalmInv

\* A created service has every setting that was asked for.
LEMMA CreateKeeps ==
    ASSUME TypeOK, NEW f \in newUpdateRequestPayloadFields, desired[f] # Nil
    PROVE  Merge(desired, EcsCreate(desired))[f] = desired[f]
BY DEF newUpdateRequestPayloadFields, Merge, EcsCreate

\* The response to an update has every setting the request can carry.
LEMMA UpdateKeeps ==
    ASSUME TypeOK, NEW f \in newUpdateRequestPayloadFields, desired[f] # Nil,
           NEW reply \in EcsReply(EcsUpdate(svcSpec[cluster], desired))
    PROVE  Merge(desired, reply)[f] = desired[f]
<1>1. f \in Fields /\ f # "Tags"
  BY DEF newUpdateRequestPayloadFields
<1>2. EcsUpdate(svcSpec[cluster], desired)[f] = desired[f]
  BY <1>1 DEF EcsUpdate
<1>3. reply[f] = desired[f]
  BY <1>1, <1>2 DEF EcsReply
<1> QED  BY <1>1, <1>3 DEF Merge

\* Without drift ECS takes the update.
LEMMA CalmUpdate ==
    ASSUME TypeOK, PhaseInv, CalmInv, pc = "update", ~ByRef,
           left["drifts"] = MaxDrifts
    PROVE  UpdateAccepted
<1>1. svcStatus[cluster] = "ACTIVE" /\ cluster = "named"
  BY DEF PhaseInv, CalmInv
<1>2. ASSUME "CapacityProviderStrategy" \in Fields,
             ~ForceNewDeployment(newResourceDelta(desired, latest))
      PROVE  desired["CapacityProviderStrategy"] = svcSpec[cluster]["CapacityProviderStrategy"]
  <2>1. desired["CapacityProviderStrategy"] = latest["CapacityProviderStrategy"]
    BY <1>2 DEF ForceNewDeployment, newResourceDelta, deltaFields
  <2>2. "CapacityProviderStrategy" \in sdkFindFields
    BY <1>2 DEF sdkFindFields, NotReadBack
  <2> QED  BY <1>1, <2>1, <2>2 DEF CalmInv
<1> QED  BY <1>1, <1>2 DEF UpdateAccepted, EcsAccepts

\* Success is what it says.
LEMMA OutcomeStep ==
    ASSUME IInv, [Next]_vars
    PROVE  OutcomeInv'
<1> USE DEF IInv, crVars, statusVars, workVars, ecsVars, TypeOK, Clusters, HoldInv, PhaseInv, OutcomeInv, SyncedMeansActive
<1>1. CASE Begin
  BY <1>1 DEF Begin
<1>2. CASE FindFails
  BY <1>2, FinishOnErrorEffect DEF FindFails
<1>3. CASE FindNothing
  BY <1>3 DEF FindNothing, Continue
<1>4. CASE FindDraining
  BY <1>4, FinishOnErrorEffect DEF FindDraining
<1>5. CASE FindForSync
  <2>1. svcStatus["named"] = "ACTIVE"
    BY <1>5, FoundIsActive DEF FindForSync
  <2>2. NoFailure(onSuccess(work).conditions)
    BY SuccessIsClean
  <2>3. UNCHANGED <<crVars, ecsVars>>
    BY <1>5 DEF FindForSync
  <2>4. \/ pc' = "idle" /\ (crState' = "absent" => outcome' = "none")
              /\ (crState' # "absent" => outcome' = "terminal")
        \/ pc' = "idle" /\ (crState' = "absent" => outcome' = "none")
              /\ (crState' # "absent" => outcome' = "success"
                      /\ cond' = onSuccess(work).conditions)
        \/ pc' = "update" /\ UNCHANGED <<cond, outcome>>
    BY <1>5, FindForSyncCases, FinishEffect, OutcomeValues DEF Continue
  <2> QED  BY <2>1, <2>2, <2>3, <2>4
<1>6. CASE FindForDelete
  BY <1>6 DEF FindForDelete, Continue, FirstCallOfDelete
<1>7. CASE SetManaged
  BY <1>7, FinishEffect DEF SetManaged, Continue, OutcomeOf
<1>8. CASE CreateService
  <2>1. CASE svcStatus[cluster] \in {"MISSING", "INACTIVE"}
    BY <1>8, FinishOnErrorEffect, SuccessIsClean, <2>1 DEF CreateService, Continue
  <2>2. CASE ~(svcStatus[cluster] \in {"MISSING", "INACTIVE"})
    BY <1>8, FinishOnErrorEffect, SuccessIsClean, <2>2 DEF CreateService, Continue
  <2> QED  BY <2>1, <2>2
<1>9. CASE CreateFails
  BY <1>9, FinishOnErrorEffect DEF CreateFails, RemoveFinalizer
<1>10. CASE CreateReplyLost
  BY <1>10, FinishOnErrorEffect DEF CreateReplyLost
<1>11. CASE UpdateService
  BY <1>11, FinishOnErrorEffect, SuccessIsClean DEF UpdateService, Continue, UpdateAccepted
<1>12. CASE UpdateFails
  BY <1>12, FinishOnErrorEffect DEF UpdateFails
<1>13. CASE PatchSpec
  <2>1. finalizer /\ crState # "absent" /\ UNCHANGED crState
    BY <1>13 DEF PatchSpec
  <2>2. pc' = "idle" /\ cond' = work /\ outcome' = "success"
    BY <1>13, <2>1 DEF PatchSpec, Finish, OutcomeOf
  <2> QED  BY <1>13, <2>1, <2>2 DEF PatchSpec
<1>14. CASE PatchFails
  <2>1. pc' = "idle" /\ outcome' \in {"error", "none"}
    BY <1>14, FinishEffect, OutcomeValues DEF PatchFails
  <2> QED  BY <1>14, <2>1 DEF PatchFails
<1>15. CASE ScaleDown
  BY <1>15, FinishOnErrorEffect DEF ScaleDown, Continue
<1>16. CASE ScaleDownFails
  BY <1>16, FinishOnErrorEffect DEF ScaleDownFails
<1>17. CASE DeleteService
  <2>1. CASE svcStatus[cluster] = "ACTIVE" /\ svcSpec[cluster]["DesiredCount"] \in {Nil, 0}
    BY <1>17, FinishOnErrorEffect, <2>1 DEF DeleteService, Continue
  <2>2. CASE ~(svcStatus[cluster] = "ACTIVE" /\ svcSpec[cluster]["DesiredCount"] \in {Nil, 0})
    BY <1>17, FinishOnErrorEffect, <2>2 DEF DeleteService, Continue
  <2> QED  BY <2>1, <2>2
<1>18. CASE DeleteFails
  BY <1>18, FinishOnErrorEffect DEF DeleteFails
<1>19. CASE Release
  BY <1>19, FinishEffect DEF Release, RemoveFinalizer
<1>20. CASE ReleaseFails
  <2>1. pc' = "idle" /\ outcome' \in {"error", "none"}
    BY <1>20, FinishEffect, OutcomeValues DEF ReleaseFails
  <2> QED  BY <1>20, <2>1 DEF ReleaseFails
<1>21. CASE Crash
  BY <1>21 DEF Crash
<1>22. CASE Resync
  BY <1>22 DEF Resync
<1>23. CASE UserCreates
  BY <1>23 DEF UserCreates
<1>24. CASE UserEdits
  BY <1>24 DEF UserEdits
<1>25. CASE UserDeletes
  BY <1>25 DEF UserDeletes
<1>26. CASE Drift
  BY <1>26 DEF Drift
<1>27. CASE OthersDeleteService
  BY <1>27 DEF OthersDeleteService
<1>28. CASE Drained
  BY <1>28 DEF Drained
<1>29. CASE Forgotten
  BY <1>29 DEF Forgotten
<1>30. CASE ReferenceChanges
  BY <1>30 DEF ReferenceChanges
<1>31. CASE UNCHANGED vars
  BY <1>31 DEF vars
<1> QED
  BY <1>1, <1>2, <1>3, <1>4, <1>5, <1>6, <1>7, <1>8, <1>9, <1>10, <1>11, <1>12, <1>13, <1>14, <1>15,
     <1>16, <1>17, <1>18, <1>19, <1>20, <1>21, <1>22, <1>23, <1>24, <1>25, <1>26, <1>27, <1>28, <1>29, <1>30, <1>31
  DEF Next, Reconcile, Environment

\* The resource to patch with holds what was asked for.
LEMMA PatchStep ==
    ASSUME IInv, [Next]_vars
    PROVE  PatchInv'
<1> USE DEF IInv, crVars, statusVars, workVars, ecsVars, TypeOK, PatchInv
<1>1. CASE Begin
  BY <1>1 DEF Begin
<1>2. CASE FindFails
  BY <1>2, FinishOnErrorEffect DEF FindFails
<1>3. CASE FindNothing
  BY <1>3 DEF FindNothing, Continue
<1>4. CASE FindDraining
  BY <1>4, FinishOnErrorEffect DEF FindDraining
<1>5. CASE FindForSync
  BY <1>5, FinishEffect DEF FindForSync, Continue
<1>6. CASE FindForDelete
  BY <1>6 DEF FindForDelete, Continue, FirstCallOfDelete
<1>7. CASE SetManaged
  BY <1>7, FinishEffect DEF SetManaged, Continue
<1>8. CASE CreateService
  BY <1>8, FinishOnErrorEffect, CreateKeeps DEF CreateService, Continue
<1>9. CASE CreateFails
  BY <1>9, FinishOnErrorEffect DEF CreateFails, RemoveFinalizer
<1>10. CASE CreateReplyLost
  BY <1>10, FinishOnErrorEffect DEF CreateReplyLost
<1>11. CASE UpdateService
  BY <1>11, FinishOnErrorEffect, UpdateKeeps DEF UpdateService, Continue
<1>12. CASE UpdateFails
  BY <1>12, FinishOnErrorEffect DEF UpdateFails
<1>13. CASE PatchSpec
  BY <1>13, FinishEffect DEF PatchSpec
<1>14. CASE PatchFails
  BY <1>14, FinishEffect DEF PatchFails
<1>15. CASE ScaleDown
  BY <1>15, FinishOnErrorEffect DEF ScaleDown, Continue
<1>16. CASE ScaleDownFails
  BY <1>16, FinishOnErrorEffect DEF ScaleDownFails
<1>17. CASE DeleteService
  BY <1>17, FinishOnErrorEffect DEF DeleteService, Continue
<1>18. CASE DeleteFails
  BY <1>18, FinishOnErrorEffect DEF DeleteFails
<1>19. CASE Release
  BY <1>19, FinishEffect DEF Release, RemoveFinalizer
<1>20. CASE ReleaseFails
  BY <1>20, FinishEffect DEF ReleaseFails
<1>21. CASE Crash
  BY <1>21 DEF Crash
<1>22. CASE Resync
  BY <1>22 DEF Resync
<1>23. CASE UserCreates
  BY <1>23 DEF UserCreates
<1>24. CASE UserEdits
  BY <1>24 DEF UserEdits
<1>25. CASE UserDeletes
  BY <1>25 DEF UserDeletes
<1>26. CASE Drift
  BY <1>26 DEF Drift
<1>27. CASE OthersDeleteService
  BY <1>27 DEF OthersDeleteService
<1>28. CASE Drained
  BY <1>28 DEF Drained
<1>29. CASE Forgotten
  BY <1>29 DEF Forgotten
<1>30. CASE ReferenceChanges
  BY <1>30 DEF ReferenceChanges
<1>31. CASE UNCHANGED vars
  BY <1>31 DEF vars
<1> QED
  BY <1>1, <1>2, <1>3, <1>4, <1>5, <1>6, <1>7, <1>8, <1>9, <1>10, <1>11, <1>12, <1>13, <1>14, <1>15,
     <1>16, <1>17, <1>18, <1>19, <1>20, <1>21, <1>22, <1>23, <1>24, <1>25, <1>26, <1>27, <1>28, <1>29, <1>30, <1>31
  DEF Next, Reconcile, Environment

\* Without drift no call meets anything but what was read.
LEMMA CalmStep ==
    ASSUME IInv, [Next]_vars
    PROVE  CalmInv'
<1> USE DEF IInv, crVars, statusVars, workVars, ecsVars, TypeOK, Clusters, HoldInv, PhaseInv, CalmInv
<1>1. CASE Begin
  BY <1>1 DEF Begin
<1>2. CASE FindFails
  BY <1>2, FinishOnErrorEffect, SpendOther DEF FindFails, Budgets
<1>3. CASE FindNothing
  BY <1>3 DEF FindNothing, Continue
<1>4. CASE FindDraining
  BY <1>4, FinishOnErrorEffect DEF FindDraining
<1>5. CASE FindForSync
  <2>1. UNCHANGED <<ecsVars, left>> /\ svcStatus[cluster] = "ACTIVE" /\ cluster = "named"
    BY <1>5, FoundIsActive DEF FindForSync
  <2>2. ~ByRef => finalizer
    BY <2>1
  <2>3. ASSUME ~ByRef
        PROVE  \/ pc' = "idle" /\ outcome' \in {"success", "none"}
               \/ /\ pc' = "update" /\ UNCHANGED outcome
                  /\ latest' = Observe(desired, svcSpec[cluster])
    BY <1>5, <2>2, <2>3, FindForSyncCases, FinishEffect, OutcomeValues DEF Continue
  <2>4. \A f \in sdkFindFields : Observe(desired, svcSpec[cluster])[f] = svcSpec[cluster][f]
    BY DEF Observe, sdkFindFields
  <2> QED  BY <2>1, <2>3, <2>4
<1>6. CASE FindForDelete
  <2>1. UNCHANGED <<ecsVars, left, outcome, cluster>>
    BY <1>6 DEF FindForDelete, Continue
  <2>2. Observe(desired, svcSpec[cluster])["DesiredCount"] = svcSpec[cluster]["DesiredCount"]
    BY ConstantsAssumption DEF Observe, sdkFindFields, NotReadBack
  <2>3. \/ pc' = "scale"
        \/ pc' = "delete" /\ svcSpec[cluster]["DesiredCount"] \in {Nil, 0}
    BY <1>6, <2>2 DEF FindForDelete, Continue, FirstCallOfDelete
  <2> QED  BY <2>1, <2>3
<1>7. CASE SetManaged
  BY <1>7, FinishEffect DEF SetManaged, Continue, OutcomeOf
<1>8. CASE CreateService
  <2>1. CASE svcStatus[cluster] \in {"MISSING", "INACTIVE"}
    BY <1>8, FinishOnErrorEffect, <2>1 DEF CreateService, Continue
  <2>2. CASE ~(svcStatus[cluster] \in {"MISSING", "INACTIVE"})
    BY <1>8, FinishOnErrorEffect, <2>2 DEF CreateService, Continue
  <2> QED  BY <2>1, <2>2
<1>9. CASE CreateFails
  BY <1>9, FinishOnErrorEffect, SpendOther DEF CreateFails, RemoveFinalizer, Budgets
<1>10. CASE CreateReplyLost
  BY <1>10, FinishOnErrorEffect, SpendOther DEF CreateReplyLost, Budgets
<1>11. CASE UpdateService
  <2>1. CASE UpdateAccepted
    BY <1>11, <2>1 DEF UpdateService, Continue
  <2>2. CASE ~UpdateAccepted
    <3>1. ~(~ByRef /\ left["drifts"] = MaxDrifts)
      BY <1>11, <2>2, CalmUpdate DEF UpdateService
    <3> QED  BY <1>11, <2>2, <3>1 DEF UpdateService
  <2> QED  BY <2>1, <2>2
<1>12. CASE UpdateFails
  BY <1>12, FinishOnErrorEffect, SpendOther DEF UpdateFails, Budgets
<1>13. CASE PatchSpec
  <2>1. pc' = "idle" /\ outcome' # "terminal" /\ UNCHANGED left
    BY <1>13 DEF PatchSpec, Finish, OutcomeOf
  <2> QED  BY <2>1
<1>14. CASE PatchFails
  <2>1. UNCHANGED <<svcStatus>> /\ pc' = "idle" /\ outcome' # "terminal"
    BY <1>14, FinishEffect, OutcomeValues DEF PatchFails
  <2>2. left'["drifts"] = left["drifts"]
    BY <1>14, SpendOther DEF PatchFails, Budgets
  <2> QED  BY <2>1, <2>2
<1>15. CASE ScaleDown
  <2>1. CASE svcStatus[cluster] = "ACTIVE"
    <3>1. /\ pc' = "delete" /\ UNCHANGED <<outcome, left, svcStatus, cluster>>
          /\ svcSpec' = [svcSpec EXCEPT ![cluster]["DesiredCount"] = 0]
      BY <1>15, <2>1 DEF ScaleDown, Continue
    <3>2. svcSpec'[cluster]["DesiredCount"] = 0
      BY <3>1, ConstantsAssumption DEF Specs
    <3> QED  BY <3>1, <3>2
  <2>2. CASE svcStatus[cluster] # "ACTIVE"
    BY <1>15, <2>2, FinishOnErrorEffect DEF ScaleDown
  <2> QED  BY <2>1, <2>2
<1>16. CASE ScaleDownFails
  BY <1>16, FinishOnErrorEffect, SpendOther DEF ScaleDownFails, Budgets
<1>17. CASE DeleteService
  <2>1. CASE svcStatus[cluster] = "ACTIVE" /\ svcSpec[cluster]["DesiredCount"] \in {Nil, 0}
    BY <1>17, FinishOnErrorEffect, <2>1 DEF DeleteService, Continue
  <2>2. CASE ~(svcStatus[cluster] = "ACTIVE" /\ svcSpec[cluster]["DesiredCount"] \in {Nil, 0})
    BY <1>17, FinishOnErrorEffect, <2>2 DEF DeleteService, Continue
  <2> QED  BY <2>1, <2>2
<1>18. CASE DeleteFails
  BY <1>18, FinishOnErrorEffect, SpendOther DEF DeleteFails, Budgets
<1>19. CASE Release
  BY <1>19, FinishEffect DEF Release, RemoveFinalizer, OutcomeOf
<1>20. CASE ReleaseFails
  <2>1. UNCHANGED <<svcStatus>> /\ pc' = "idle" /\ outcome' # "terminal"
    BY <1>20, FinishEffect, OutcomeValues DEF ReleaseFails
  <2>2. left'["drifts"] = left["drifts"]
    BY <1>20, SpendOther DEF ReleaseFails, Budgets
  <2> QED  BY <2>1, <2>2
<1>21. CASE Crash
  BY <1>21, SpendOther DEF Crash, Budgets
<1>22. CASE Resync
  BY <1>22 DEF Resync
<1>23. CASE UserCreates
  BY <1>23, SpendOther DEF UserCreates, Budgets
<1>24. CASE UserEdits
  BY <1>24, SpendOther DEF UserEdits, Budgets
<1>25. CASE UserDeletes
  BY <1>25 DEF UserDeletes
<1>26. CASE Drift
  <2>1. left'["drifts"] < MaxDrifts
    BY <1>26, SpendDrift DEF Drift
  <2>2. left'["drifts"] \in Nat /\ MaxDrifts \in Nat
    BY <1>26, SpendType, ConstantsAssumption DEF Drift, Budgets
  <2> QED  BY <2>1, <2>2
<1>27. CASE OthersDeleteService
  <2>1. left'["drifts"] < MaxDrifts
    BY <1>27, SpendDrift DEF OthersDeleteService
  <2>2. left'["drifts"] \in Nat /\ MaxDrifts \in Nat
    BY <1>27, SpendType, ConstantsAssumption DEF OthersDeleteService, Budgets
  <2> QED  BY <2>1, <2>2
<1>28. CASE Drained
  BY <1>28 DEF Drained
<1>29. CASE Forgotten
  BY <1>29 DEF Forgotten
<1>30. CASE ReferenceChanges
  BY <1>30, SpendOther DEF ReferenceChanges, Budgets
<1>31. CASE UNCHANGED vars
  BY <1>31 DEF vars
<1> QED
  BY <1>1, <1>2, <1>3, <1>4, <1>5, <1>6, <1>7, <1>8, <1>9, <1>10, <1>11, <1>12, <1>13, <1>14, <1>15,
     <1>16, <1>17, <1>18, <1>19, <1>20, <1>21, <1>22, <1>23, <1>24, <1>25, <1>26, <1>27, <1>28, <1>29, <1>30, <1>31
  DEF Next, Reconcile, Environment

\* Before the user creates the object everything is as the invariant says.
LEMMA InitInv == Init => IInv
<1> SUFFICES ASSUME Init PROVE IInv
  OBVIOUS
<1>1. TypeOK
  <2>1. NoConditions \in Conditions /\ EmptySpec \in Specs
    BY DEF NoConditions, Conditions, ConditionStatus, EmptySpec, Specs
  <2>2. left \in [Budgets -> Nat]
    BY ConstantsAssumption DEF Init, Budgets
  <2> QED
    BY <2>1, <2>2 DEF Init, TypeOK, Outcomes, PCs, Clusters, ServiceStatuses
<1>2. HoldInv /\ PhaseInv
  BY DEF Init, HoldInv, PhaseInv, Clusters
<1>3. OutcomeInv /\ PatchInv
  BY DEF Init, OutcomeInv, PatchInv, SyncedMeansActive
<1>4. CalmInv
  BY ConstantsAssumption DEF Init, CalmInv
<1> QED  BY <1>1, <1>2, <1>3, <1>4 DEF IInv

-----------------------------------------------------------------------------
(* What the invariant gives.                                               *)

\* The inductive invariant.
THEOREM Invariance == Spec => []IInv
<1>1. Init => IInv
  BY InitInv
<1>2. IInv /\ [Next]_vars => IInv'
  BY TypeStep, HoldStep, PhaseStep, OutcomeStep, PatchStep, CalmStep DEF IInv
<1> QED  BY <1>1, <1>2, PTL DEF Spec

\* The variables keep their types.
THEOREM TypeCorrect == Spec => []TypeOK
<1>1. IInv => TypeOK
  BY DEF IInv
<1> QED  BY <1>1, Invariance, PTL

\* A CR that names its cluster directly never leaves a running service behind:
\* for every set of fields, every fault, crash and edit, and every order of them.
THEOREM ServiceIsNeverOrphaned ==
    ASSUME ~ByRef
    PROVE  Spec => []NoOrphan
<1>1. IInv => NoOrphan
  BY DEF IInv, HoldInv, NoOrphan, Clusters
<1> QED  BY <1>1, Invariance, PTL

\* Whether or not the reference to the cluster resolves, no service is created in
\* ECS's default cluster.
THEOREM DefaultClusterStaysEmpty == Spec => []NothingInDefaultCluster
<1>1. IInv => NothingInDefaultCluster
  BY DEF IInv, HoldInv, NothingInDefaultCluster
<1> QED  BY <1>1, Invariance, PTL

\* Success means an active service, unless others delete it in ECS.
THEOREM SuccessMeansActive ==
    ASSUME ~OthersDelete
    PROVE  Spec => []SyncedMeansActive
<1>1. IInv => SyncedMeansActive
  BY DEF IInv, OutcomeInv
<1> QED  BY <1>1, Invariance, PTL

\* Success leaves no condition that reports a failure.
THEOREM SuccessLeavesCleanConditions == Spec => []CleanAfterSuccess
<1>1. IInv => CleanAfterSuccess
  BY DEF IInv, OutcomeInv, CleanAfterSuccess, NoFailure
<1> QED  BY <1>1, Invariance, PTL

\* The controller never ends in a terminal error by its own doing.
THEOREM TerminalNeedsDrift ==
    ASSUME ~ByRef
    PROVE  Spec => []TerminalOnlyByDrift
<1>1. IInv => TerminalOnlyByDrift
  BY DEF IInv, CalmInv, TerminalOnlyByDrift
<1> QED  BY <1>1, Invariance, PTL

\* The spec patch never undoes what the user wrote while the reconcile ran.
THEOREM EditsSurvive == Spec => UserEditSurvives
<1> DEFINE kept ==
        pc = "patch" /\ pc' = "idle" =>
            \A f \in SyncedFields : desired[f] # Nil => spec'[f] = spec[f]
<1>1. IInv /\ [Next]_vars => [kept]_vars
  <2> SUFFICES ASSUME IInv, Next, pc = "patch", pc' = "idle",
                      NEW f \in SyncedFields, desired[f] # Nil
               PROVE  spec'[f] = spec[f]
    OBVIOUS
  <2>1. latest[f] = desired[f] /\ f \in Fields
    BY DEF IInv, PatchInv, SyncedFields, newUpdateRequestPayloadFields
  <2>2. CASE PatchSpec
    BY <2>1, <2>2 DEF PatchSpec
  <2>3. CASE PatchFails \/ Crash
    BY <2>3 DEF PatchFails, Crash, crVars
  <2>4. mode = "sync" /\ finalizer /\ crState # "absent"
    BY DEF IInv, PhaseInv, HoldInv
  <2>5. ~(UserCreates \/ UserEdits \/ UserDeletes \/ Resync)
    BY <2>4 DEF UserCreates, UserEdits, UserDeletes, Resync, workVars
  <2>6. ~(Drift \/ OthersDeleteService \/ Drained \/ Forgotten \/ ReferenceChanges)
    BY DEF Drift, OthersDeleteService, Drained, Forgotten, ReferenceChanges, workVars
  <2>7. Reconcile => PatchSpec \/ PatchFails
    BY DEF Reconcile, Begin, FindFails, FindNothing, FindDraining, FindForSync,
           FindForDelete, SetManaged, CreateService, CreateFails, CreateReplyLost,
           UpdateService, UpdateFails, ScaleDown, ScaleDownFails, DeleteService,
           DeleteFails, Release, ReleaseFails
  <2> QED
    BY <2>2, <2>3, <2>5, <2>6, <2>7 DEF Next, Environment
<1> QED  BY <1>1, Invariance, PTL DEF Spec, UserEditSurvives

-----------------------------------------------------------------------------
(* The manager implements the contract of ManagedResource.                 *)

\* Every step of the manager is a step of the contract or leaves it alone.
LEMMA LifecycleStep ==
    ASSUME ~ByRef, ~OthersDelete, IInv, IInv', [Next]_vars
    PROVE  [Lifecycle!Next]_(Lifecycle!vars)
<1> DEFINE exists == \E c \in Clusters : svcStatus[c] = "ACTIVE"
           active == svcStatus["named"] = "ACTIVE"
<1>1. exists = active
  BY DEF IInv, HoldInv, Clusters
<1>2. exists' = active'
  BY DEF IInv, HoldInv, Clusters
<1>3. SUFFICES \/ crState = "absent" /\ crState' = "live"
                  /\ finalizer' = finalizer /\ active' = active
               \/ crState # "absent" /\ finalizer' = TRUE
                  /\ crState' = crState /\ active' = active
               \/ crState # "absent" /\ finalizer /\ ~active /\ active' = TRUE
                  /\ crState' = crState /\ finalizer' = finalizer
               \/ crState = "live"
                  /\ crState' = (IF finalizer THEN "deleting" ELSE "absent")
                  /\ finalizer' = finalizer /\ active' = active
               \/ crState = "deleting" /\ active /\ active' = FALSE
                  /\ crState' = crState /\ finalizer' = finalizer
               \/ finalizer /\ ~active /\ finalizer' = FALSE
                  /\ crState' = (IF crState = "deleting" THEN "absent" ELSE crState)
                  /\ active' = active
               \/ crState' = crState /\ finalizer' = finalizer /\ active' = active
  BY <1>1, <1>2 DEF Lifecycle!Next, Lifecycle!Declare, Lifecycle!Hold,
     Lifecycle!Provision, Lifecycle!Retire, Lifecycle!Deprovision,
     Lifecycle!LetGo, Lifecycle!vars
<1> USE DEF IInv, TypeOK, HoldInv, PhaseInv, Clusters,
            crVars, statusVars, workVars, ecsVars
<1>4. CASE SetManaged
  BY <1>4 DEF SetManaged
<1>5. CASE CreateService
  BY <1>5 DEF CreateService
<1>6. CASE CreateFails
  BY <1>6 DEF CreateFails, RemoveFinalizer
<1>7. CASE CreateReplyLost
  BY <1>7 DEF CreateReplyLost
<1>8. CASE DeleteService
  BY <1>8 DEF DeleteService
<1>9. CASE DeleteFails
  BY <1>9 DEF DeleteFails
<1>10. CASE Release
  BY <1>10 DEF Release, RemoveFinalizer
<1>11. CASE UserCreates
  BY <1>11 DEF UserCreates
<1>12. CASE UserDeletes
  BY <1>12 DEF UserDeletes
<1>13. CASE OthersDeleteService
  BY <1>13 DEF OthersDeleteService
<1>14. CASE Drained
  BY <1>14 DEF Drained
<1>15. CASE Forgotten
  BY <1>15 DEF Forgotten
<1>16. CASE UNCHANGED vars
  BY <1>16 DEF vars
<1>17. CASE Begin
  BY <1>17 DEF Begin
<1>18. CASE FindFails
  BY <1>18 DEF FindFails
<1>19. CASE FindNothing
  BY <1>19 DEF FindNothing
<1>20. CASE FindDraining
  BY <1>20 DEF FindDraining
<1>21. CASE FindForSync
  BY <1>21 DEF FindForSync
<1>22. CASE FindForDelete
  BY <1>22 DEF FindForDelete
<1>23. CASE UpdateService
  BY <1>23 DEF UpdateService
<1>24. CASE UpdateFails
  BY <1>24 DEF UpdateFails
<1>25. CASE PatchSpec
  BY <1>25 DEF PatchSpec
<1>26. CASE PatchFails
  BY <1>26 DEF PatchFails
<1>27. CASE ScaleDown
  BY <1>27 DEF ScaleDown
<1>28. CASE ScaleDownFails
  BY <1>28 DEF ScaleDownFails
<1>29. CASE ReleaseFails
  BY <1>29 DEF ReleaseFails
<1>30. CASE Crash
  BY <1>30 DEF Crash
<1>31. CASE Resync
  BY <1>31 DEF Resync
<1>32. CASE UserEdits
  BY <1>32 DEF UserEdits
<1>33. CASE Drift
  BY <1>33 DEF Drift
<1>34. CASE ReferenceChanges
  BY <1>34 DEF ReferenceChanges
<1> QED
  BY <1>4, <1>5, <1>6, <1>7, <1>8, <1>9, <1>10, <1>11, <1>12, <1>13, <1>14, <1>15, <1>16, <1>17, <1>18,
     <1>19, <1>20, <1>21, <1>22, <1>23, <1>24, <1>25, <1>26, <1>27, <1>28, <1>29, <1>30, <1>31, <1>32, <1>33, <1>34
  DEF Next, Reconcile, Environment

\* The manager of a CR that names its cluster directly implements the contract
\* of ManagedResource, as long as nobody else deletes the service.
THEOREM ManagerImplementsLifecycle ==
    ASSUME ~ByRef, ~OthersDelete
    PROVE  Spec => ImplementsLifecycle
<1>1. Init => Lifecycle!Init
  BY DEF Init, Lifecycle!Init, Clusters
<1>2. IInv /\ IInv' /\ [Next]_vars => [Lifecycle!Next]_(Lifecycle!vars)
  BY LifecycleStep
<1> QED
  BY <1>1, <1>2, Invariance, PTL DEF Spec, ImplementsLifecycle, Lifecycle!Spec
=============================================================================
