--------------------- MODULE TaskDefinitionManagerProofs ---------------------
(***************************************************************************)
(* Proofs, for every choice of container definitions and bounds, of the    *)
(* safety properties of TaskDefinitionManager, and of the refinement of    *)
(* ManagedResource as long as the active revisions fit in a page.          *)
(***************************************************************************)
EXTENDS TaskDefinitionManager, FiniteSetTheorems, SequenceTheorems, TLAPS

\* How many events there can be at all, and how many of them are still to come.
Budget == MaxLives + MaxEdits + MaxDrifts + MaxFaults
Remaining == left["lives"] + left["edits"] + left["drifts"] + left["faults"]

\* One page of ListTaskDefinitions holds every active revision of the family.
Fits == Cardinality(Active) <= PageSize

\* How many more revisions have a reason: what has happened so far, less the
\* revisions that were registered for it.
Room == Budget - Remaining - Len(revisions)

\* A sync of this template would register a revision.
Wants(t) == Active = {} \/ t # Observe

\* The user has written something else since the reconcile read the spec.
Edited == crState = "live" /\ template # desired

\* What the patch leaves in the spec.
Patched == IF latest # desired THEN latest ELSE template

\* The finalizer holds an object that is being deleted, and only objects have one.
HoldInv ==
    /\ crState = "deleting" => finalizer
    /\ crState = "absent" => ~finalizer

\* What a reconcile that has come to a call may rely on.
PhaseInv ==
    /\ mode = "delete" => crState = "deleting"
    /\ pc \in {"list", "deregister"} => mode = "delete"
    /\ pc \in {"idle", "manage", "create", "update", "patch"} => mode = "sync"
    /\ pc # "deregister" => arns = {}
    /\ pc \in {"create", "update"} => finalizer

\* There is room for each revision that the running reconcile may yet register,
\* and for the one that the next sync will, because of an edit it has not seen.
RoomInv ==
    /\ Room >= 0
    /\ pc = "idle" /\ crState = "live" /\ Wants(template) => Room >= 1
    /\ pc = "find" /\ mode = "sync" =>
          /\ Wants(desired) => Room >= 1
          /\ Edited => Room >= 1
          /\ Wants(desired) /\ Edited => Room >= 2
    /\ pc \in {"manage", "create", "update"} =>
          /\ Room >= 1
          /\ Edited => Room >= 2
    /\ pc = "patch" /\ crState = "live" /\ Wants(Patched) => Room >= 1

\* The loop of sdkDelete has all active revisions before it, so the finalizer comes
\* off after the last one only.  It takes a family that fits in a page.
PageInv ==
    /\ Active # {} => finalizer
    /\ pc = "deregister" => Active \subseteq arns

IInv == TypeOK /\ HoldInv /\ PhaseInv /\ RoomInv

-----------------------------------------------------------------------------
(* The family.                                                             *)

\* Revisions are numbered from one on.
LEMMA ActiveType ==
    ASSUME TypeOK
    PROVE  /\ Len(revisions) \in Nat
           /\ DOMAIN revisions = 1 .. Len(revisions)
           /\ Active \subseteq 1 .. Len(revisions)
           /\ IsFiniteSet(Active)
           /\ \A n \in 1 .. Len(revisions) : revisions[n] \in Revisions
<1>1. revisions \in Seq(Revisions)
  BY DEF TypeOK
<1>2. /\ Len(revisions) \in Nat
      /\ DOMAIN revisions = 1 .. Len(revisions)
      /\ \A n \in 1 .. Len(revisions) : revisions[n] \in Revisions
  BY <1>1, LenProperties
<1>3. Active \subseteq 1 .. Len(revisions)
  BY <1>2 DEF Active
<1>4. IsFiniteSet(1 .. Len(revisions))
  BY <1>2, FS_Interval
<1> QED  BY <1>2, <1>3, <1>4, FS_Subset

\* An active family has a newest active revision.
LEMMA NewestIsActive ==
    ASSUME TypeOK, Active # {}
    PROVE  Newest \in Active /\ \A m \in Active : m <= Newest
<1> DEFINE back == {Len(revisions) - n : n \in Active}
<1>1. back \subseteq Nat /\ back # {}
  BY ActiveType
<1>2. PICK x \in back : \A y \in back : ~ (<<y, x>> \in OpToRel(<, Nat))
  BY <1>1, NatLessThanWellFounded, WFMin
<1>3. \A y \in back : ~ (y < x)
  BY <1>1, <1>2 DEF OpToRel
<1>4. PICK n \in Active : x = Len(revisions) - n
  OBVIOUS
<1>5. ASSUME NEW m \in Active PROVE m <= n
  <2>1. m \in Nat /\ n \in Nat /\ Len(revisions) \in Nat
    BY ActiveType
  <2>2. ~ (Len(revisions) - m < x)
    BY <1>3
  <2> QED  BY <1>4, <2>1, <2>2
<1> QED  BY <1>4, <1>5 DEF Newest

\* What ECS describes is a template.
LEMMA ObserveType == ASSUME TypeOK, Active # {} PROVE Observe \in Templates
<1>1. revisions[Newest] \in Revisions
  BY NewestIsActive, ActiveType
<1> QED  BY <1>1 DEF Observe, Templates, Revisions

\* A family that is left alone is described as before.
LEMMA SameFamily ==
    ASSUME revisions' = revisions
    PROVE  Active' = Active /\ Observe' = Observe
<1>1. Active' = Active
  BY DEF Active
<1>2. Newest' = Newest
  BY <1>1 DEF Newest
<1> QED  BY <1>1, <1>2 DEF Observe

\* A registered revision is the newest of the family, and is described with the
\* defaults that the response had.
LEMMA Registered ==
    ASSUME TypeOK, NEW t \in Templates, revisions' = Register(t)
    PROVE  /\ revisions' \in Seq(Revisions)
           /\ Len(revisions') = Len(revisions) + 1
           /\ DOMAIN revisions \subseteq DOMAIN revisions'
           /\ Active' = Active \cup {Len(revisions) + 1}
           /\ Observe' = Merge(t)
<1> DEFINE new == [image |-> t.image, status |-> "ACTIVE"]
<1>1. new \in Revisions /\ revisions' = Append(revisions, new)
  BY DEF Register, Revisions, Templates
<1>2. revisions \in Seq(Revisions) /\ Len(revisions) \in Nat
  BY ActiveType DEF TypeOK
<1>3. /\ revisions' \in Seq(Revisions)
      /\ Len(revisions') = Len(revisions) + 1
      /\ \A n \in 1 .. Len(revisions) : revisions'[n] = revisions[n]
      /\ revisions'[Len(revisions) + 1] = new
  BY <1>1, <1>2, AppendProperties
<1>4. /\ DOMAIN revisions' = 1 .. Len(revisions) + 1
      /\ DOMAIN revisions = 1 .. Len(revisions)
  BY <1>2, <1>3, LenProperties
<1>5. Active' = Active \cup {Len(revisions) + 1}
  BY <1>2, <1>3, <1>4 DEF Active
<1>6. Newest' = Len(revisions) + 1
  <2>1. \A m \in Active' : m \in Nat /\ m <= Len(revisions) + 1
    BY <1>2, <1>5, ActiveType
  <2>2. ASSUME NEW n \in Active', \A m \in Active' : m <= n
        PROVE  n = Len(revisions) + 1
    <3>1. Len(revisions) + 1 <= n
      BY <1>5, <2>2
    <3>2. n \in Nat /\ n <= Len(revisions) + 1
      BY <2>1, <2>2
    <3> QED  BY <1>2, <3>1, <3>2
  <2>3. Len(revisions) + 1 \in Active' /\ \A m \in Active' : m <= Len(revisions) + 1
    BY <1>5, <2>1
  <2> QED  BY <2>2, <2>3 DEF Newest
<1>7. Observe' = [image |-> t.image, filled |-> TRUE]
  <2>1. Observe' = [image |-> revisions'[Newest'].image, filled |-> TRUE]
    BY DEF Observe
  <2> QED  BY <1>3, <1>6, <2>1
<1>8. Merge(t) = [image |-> t.image, filled |-> TRUE]
  <2>1. /\ Merge(t) \in Templates
        /\ Merge(t).image = t.image /\ Merge(t).filled = TRUE
    BY DEF Merge, Templates
  <2>2. PICK i \in Images, f \in BOOLEAN : Merge(t) = [image |-> i, filled |-> f]
    BY <2>1 DEF Templates
  <2>3. i = t.image /\ f = TRUE
    BY <2>1, <2>2
  <2> QED  BY <2>2, <2>3
<1> QED  BY <1>3, <1>4, <1>5, <1>7, <1>8

\* A revision that is deregistered stays in the family, inactive.
LEMMA DeregisteredEffect ==
    ASSUME TypeOK, NEW n \in DOMAIN revisions, revisions' = Deregistered(n)
    PROVE  /\ revisions' \in Seq(Revisions)
           /\ Len(revisions') = Len(revisions)
           /\ DOMAIN revisions' = DOMAIN revisions
           /\ Active' = Active \ {n}
<1> DEFINE e == [revisions[n] EXCEPT !.status = "INACTIVE"]
<1>1. revisions \in Seq(Revisions) /\ n \in 1 .. Len(revisions)
  BY ActiveType DEF TypeOK
<1>2. e \in Revisions /\ e.status = "INACTIVE"
  BY <1>1, ActiveType DEF Revisions
<1>3. revisions' = [revisions EXCEPT ![n] = e]
  BY DEF Deregistered
<1> HIDE DEF e
<1>4. /\ revisions' \in Seq(Revisions)
      /\ Len(revisions') = Len(revisions)
      /\ \A j \in 1 .. Len(revisions) :
            revisions'[j] = IF j = n THEN e ELSE revisions[j]
  BY <1>1, <1>2, <1>3, ExceptSeq
<1>5. DOMAIN revisions' = DOMAIN revisions
  BY <1>3
<1>6. Active' = Active \ {n}
  BY <1>2, <1>4, <1>5, ActiveType DEF Active
<1> QED  BY <1>4, <1>5, <1>6

\* When the family fits in a page, a listing has all its active revisions.
LEMMA ListingIsComplete ==
    ASSUME TypeOK, Fits
    PROVE  ListTaskDefinitions = Active
<1>1. SUFFICES ASSUME NEW n \in Active
               PROVE  Cardinality({m \in Active : m < n}) < PageSize
  BY DEF ListTaskDefinitions
<1> DEFINE older == {m \in Active : m < n}
<1>2. IsFiniteSet(Active) /\ n \in Nat
  BY ActiveType
<1>3. older \subseteq Active /\ older # Active
  BY <1>2
<1>4. /\ IsFiniteSet(older)
      /\ Cardinality(older) <= Cardinality(Active)
      /\ Cardinality(older) # Cardinality(Active)
  BY <1>2, <1>3, FS_Subset
<1>5. Cardinality(older) \in Nat /\ Cardinality(Active) \in Nat
  BY <1>2, <1>4, FS_CardinalityType
<1> QED  BY <1>4, <1>5, ConstantsAssumption DEF Fits

-----------------------------------------------------------------------------
(* Types.                                                                  *)

\* The parts of TypeOK that are about the object and its reconcile.
LEMMA ReconcileTypes ==
    ASSUME TypeOK
    PROVE  /\ template \in Templates /\ desired \in Templates /\ latest \in Templates
           /\ NoTemplate \in Templates
           /\ \A t \in Templates : Merge(t) \in Templates
<1>1. NoTemplate \in Templates
  BY ConstantsAssumption DEF NoTemplate, Templates
<1>2. \A t \in Templates : Merge(t) \in Templates
  BY DEF Merge, Templates
<1> QED  BY <1>1, <1>2 DEF TypeOK

\* What the end of a reconcile leaves.
LEMMA FinishEffect ==
    ASSUME TypeOK, NEW err, Finish(err)
    PROVE  /\ pc' = "idle" /\ mode' = "sync" /\ arns' = {}
           /\ desired' \in Templates /\ latest' \in Templates
           /\ outcome' \in {"none", "success", "error", "terminal"} /\ queued' \in BOOLEAN
<1>1. outcome' \in {"none", "success", "error", "terminal"}
  BY DEF Finish, OutcomeOf
<1>2. queued' \in BOOLEAN
  BY DEF Finish, OutcomeOf, TypeOK
<1> QED  BY <1>1, <1>2, ReconcileTypes DEF Finish

\* One event less is left.
LEMMA SpendEffect ==
    ASSUME TypeOK, NEW k \in Budgets, Spend(k)
    PROVE  /\ left' \in [Budgets -> Nat]
           /\ Remaining \in Nat /\ Remaining' = Remaining - 1
<1>1. left \in [Budgets -> Nat] /\ left[k] \in Nat \ {0}
  BY DEF Spend, TypeOK
<1>2. left' = [left EXCEPT ![k] = left[k] - 1]
  BY DEF Spend
<1>3. left' \in [Budgets -> Nat]
  BY <1>1, <1>2
<1>4. \A j \in Budgets : left'[j] = IF j = k THEN left[j] - 1 ELSE left[j]
  BY <1>1, <1>2
<1>5. Remaining' = Remaining - 1
  BY <1>1, <1>4 DEF Remaining, Budgets
<1> QED  BY <1>1, <1>3, <1>5 DEF Remaining, Budgets

\* A reconcile keeps the types.
LEMMA ReconcileTypeStep ==
    ASSUME TypeOK, Reconcile
    PROVE  TypeOK'
<1>f. "faults" \in Budgets
  BY DEF Budgets
<1>1. CASE Begin
  BY <1>1 DEF Begin, TypeOK, crVars
<1>2. CASE FindFails
  BY <1>2, <1>f, FinishEffect, SpendEffect DEF FindFails, TypeOK, crVars
<1>3. CASE FindNothing
  BY <1>3 DEF FindNothing, Continue, TypeOK, crVars, statusVars
<1>4. CASE FindForSync
  <2>1. Active # {}
    BY <1>4 DEF FindForSync, DescribeError
  <2>2. CASE \E err \in {"nil", "Terminal"} : Finish(err)
    BY <1>4, <2>2, FinishEffect DEF FindForSync, TypeOK, crVars
  <2>3. CASE Continue("update") /\ latest' = Observe /\ UNCHANGED arns
    BY <1>4, <2>1, <2>3, ObserveType
       DEF FindForSync, Continue, TypeOK, crVars, statusVars
  <2> QED  BY <1>4, <2>2, <2>3 DEF FindForSync
<1>5. CASE FindForDelete
  BY <1>5 DEF FindForDelete, Continue, TypeOK, crVars, statusVars
<1>6. CASE SetManaged
  <2>1. CASE crState = "absent"
    BY <1>6, <2>1, FinishEffect DEF SetManaged, TypeOK
  <2>2. CASE crState # "absent"
    BY <1>6, <2>2 DEF SetManaged, Continue, TypeOK, statusVars
  <2> QED  BY <2>1, <2>2
<1>7. CASE RegisterTaskDefinition
  <2>1. /\ revisions' \in Seq(Revisions)
        /\ DOMAIN revisions \subseteq DOMAIN revisions'
    BY <1>7, ReconcileTypes, Registered DEF RegisterTaskDefinition
  <2> QED  BY <1>7, <2>1, ReconcileTypes
           DEF RegisterTaskDefinition, Continue, TypeOK, crVars, statusVars
<1>8. CASE RegisterFails
  <2>1. revisions' \in Seq(Revisions)
    BY <1>8, ReconcileTypes, Registered DEF RegisterFails, TypeOK
  <2> QED  BY <1>8, <1>f, <2>1, FinishEffect, SpendEffect
           DEF RegisterFails, TypeOK, crVars
<1>9. CASE PatchSpec
  BY <1>9, FinishEffect DEF PatchSpec, TypeOK
<1>10. CASE PatchFails
  BY <1>10, <1>f, FinishEffect, SpendEffect DEF PatchFails, TypeOK, crVars
<1>11. CASE List
  <2>1. ListTaskDefinitions \subseteq DOMAIN revisions
    BY DEF ListTaskDefinitions, Active
  <2> QED  BY <1>11, <2>1 DEF List, Continue, TypeOK, crVars, statusVars
<1>12. CASE ListFails
  BY <1>12, <1>f, FinishEffect, SpendEffect DEF ListFails, TypeOK, crVars
<1>13. CASE DeregisterTaskDefinition
  <2>1. PICK n \in arns : revisions' = Deregistered(n) /\ arns' = arns \ {n}
    BY <1>13 DEF DeregisterTaskDefinition
  <2>2. /\ revisions' \in Seq(Revisions)
        /\ DOMAIN revisions' = DOMAIN revisions
    BY <2>1, DeregisteredEffect DEF TypeOK
  <2> QED  BY <1>13, <2>1, <2>2
           DEF DeregisterTaskDefinition, Continue, TypeOK, crVars, statusVars
<1>14. CASE DeregisterFails
  <2>1. revisions' \in Seq(Revisions)
    BY <1>14, DeregisteredEffect DEF DeregisterFails, TypeOK
  <2> QED  BY <1>14, <1>f, <2>1, FinishEffect, SpendEffect
           DEF DeregisterFails, TypeOK, crVars
<1>15. CASE Release
  <2>1. crState' \in {"absent", "live", "deleting"} /\ template' \in Templates
    BY <1>15, ReconcileTypes DEF Release, TypeOK
  <2> QED  BY <1>15, <2>1, FinishEffect DEF Release, TypeOK
<1>16. CASE ReleaseFails
  BY <1>16, <1>f, FinishEffect, SpendEffect DEF ReleaseFails, TypeOK, crVars
<1> QED  BY <1>1, <1>2, <1>3, <1>4, <1>5, <1>6, <1>7, <1>8, <1>9, <1>10, <1>11,
            <1>12, <1>13, <1>14, <1>15, <1>16 DEF Reconcile

\* So does the environment.
LEMMA EnvironmentTypeStep ==
    ASSUME TypeOK, Environment
    PROVE  TypeOK'
<1>1. CASE Crash
  BY <1>1, SpendEffect, ReconcileTypes DEF Crash, TypeOK, Budgets, crVars
<1>2. CASE Resync
  BY <1>2 DEF Resync, TypeOK, crVars, workVars
<1>3. CASE UserCreates
  BY <1>3, SpendEffect DEF UserCreates, TypeOK, Budgets, workVars
<1>4. CASE UserEdits
  BY <1>4, SpendEffect DEF UserEdits, TypeOK, Budgets, workVars
<1>5. CASE UserDeletes
  BY <1>5, ReconcileTypes DEF UserDeletes, TypeOK, workVars
<1>6. CASE OthersDeregister
  <2>1. PICK n \in Active : revisions' = Deregistered(n)
    BY <1>6 DEF OthersDeregister
  <2>2. revisions' \in Seq(Revisions) /\ DOMAIN revisions' = DOMAIN revisions
    BY <2>1, DeregisteredEffect DEF Active
  <2> QED  BY <1>6, <2>2, SpendEffect
           DEF OthersDeregister, TypeOK, Budgets, crVars, statusVars, workVars
<1> QED  BY <1>1, <1>2, <1>3, <1>4, <1>5, <1>6 DEF Environment

\* Every step keeps the types.
LEMMA TypeStep == ASSUME TypeOK, [Next]_vars PROVE TypeOK'
<1>1. CASE UNCHANGED vars
  BY <1>1 DEF vars, crVars, statusVars, workVars, TypeOK
<1> QED  BY <1>1, ReconcileTypeStep, EnvironmentTypeStep DEF Next
-----------------------------------------------------------------------------
(* The finalizer and the phases.                                           *)

\* The finalizer comes off only together with the object, or a live one.
LEMMA HoldStep ==
    ASSUME TypeOK, HoldInv, [Next]_vars
    PROVE  HoldInv'
<1>1. CASE UNCHANGED crVars
  BY <1>1 DEF crVars, HoldInv
<1>2. CASE SetManaged
  BY <1>2 DEF SetManaged, HoldInv
<1>3. CASE PatchSpec
  BY <1>3 DEF PatchSpec, HoldInv
<1>4. CASE Release
  BY <1>4 DEF Release, HoldInv, TypeOK
<1>5. CASE UserCreates
  BY <1>5 DEF UserCreates, HoldInv
<1>6. CASE UserEdits
  BY <1>6 DEF UserEdits, HoldInv
<1>7. CASE UserDeletes
  BY <1>7 DEF UserDeletes, HoldInv
<1>8. \/ UNCHANGED crVars
      \/ SetManaged \/ PatchSpec \/ Release
      \/ UserCreates \/ UserEdits \/ UserDeletes
  BY DEF Next, Reconcile, Environment, vars, Begin, FindFails, FindNothing,
         FindForSync, FindForDelete, RegisterTaskDefinition, RegisterFails,
         PatchFails, List, ListFails, DeregisterTaskDefinition, DeregisterFails,
         ReleaseFails, Crash, Resync, OthersDeregister
<1> QED  BY <1>1, <1>2, <1>3, <1>4, <1>5, <1>6, <1>7, <1>8

\* A reconcile that ends leaves nothing behind.
LEMMA FinishPhase ==
    ASSUME TypeOK, NEW err, Finish(err)
    PROVE  PhaseInv'
BY FinishEffect DEF PhaseInv

\* Each call leads to the next one of its mode.
LEMMA PhaseStep ==
    ASSUME TypeOK, HoldInv, PhaseInv, [Next]_vars
    PROVE  PhaseInv'
<1>1. CASE \E err \in {"nil", "Retryable", "Terminal", "InvalidParameter"} : Finish(err)
  BY <1>1, FinishPhase
<1>2. CASE Begin
  BY <1>2 DEF Begin, PhaseInv, TypeOK, crVars
<1>3. CASE FindNothing
  BY <1>3 DEF FindNothing, Continue, PhaseInv, TypeOK, crVars
<1>4. CASE FindForSync /\ finalizer /\ Continue("update") /\ UNCHANGED arns
  BY <1>4 DEF FindForSync, Continue, PhaseInv, crVars
<1>5. CASE FindForDelete
  BY <1>5 DEF FindForDelete, Continue, PhaseInv, crVars
<1>6. CASE SetManaged /\ finalizer' = TRUE /\ Continue("create") /\ UNCHANGED arns
  BY <1>6 DEF SetManaged, Continue, PhaseInv
<1>7. CASE RegisterTaskDefinition
  BY <1>7 DEF RegisterTaskDefinition, Continue, PhaseInv, crVars
<1>8. CASE List
  BY <1>8 DEF List, Continue, PhaseInv, crVars
<1>9. CASE DeregisterTaskDefinition
  BY <1>9 DEF DeregisterTaskDefinition, Continue, PhaseInv, crVars
<1>10. CASE Crash
  BY <1>10 DEF Crash, PhaseInv
<1>11. CASE UNCHANGED workVars /\ UNCHANGED <<crState, finalizer>>
  BY <1>11 DEF workVars, PhaseInv
<1>12. CASE UserCreates
  BY <1>12 DEF UserCreates, workVars, PhaseInv
<1>13. CASE UserDeletes
  BY <1>13 DEF UserDeletes, workVars, PhaseInv
<1>14. Next => \/ \E err \in {"nil", "Retryable", "Terminal", "InvalidParameter"} : Finish(err)
               \/ Begin \/ FindNothing \/ FindForDelete
               \/ FindForSync /\ finalizer /\ Continue("update") /\ UNCHANGED arns
               \/ SetManaged /\ finalizer' = TRUE /\ Continue("create")
                             /\ UNCHANGED arns
               \/ RegisterTaskDefinition \/ List \/ DeregisterTaskDefinition \/ Crash
               \/ UNCHANGED workVars /\ UNCHANGED <<crState, finalizer>>
               \/ UserCreates \/ UserDeletes
  BY DEF Next, Reconcile, Environment, FindFails, FindForSync, SetManaged,
         RegisterFails, PatchSpec, PatchFails, ListFails, DeregisterFails,
         Release, ReleaseFails, Resync, UserEdits, OthersDeregister, crVars
<1>15. CASE UNCHANGED vars
  BY <1>11, <1>15 DEF vars, crVars
<1> QED  BY <1>1, <1>2, <1>3, <1>4, <1>5, <1>6, <1>7, <1>8, <1>9, <1>10, <1>11,
            <1>12, <1>13, <1>14, <1>15
-----------------------------------------------------------------------------
(* Room for the revisions.                                                 *)

\* An event makes room for a revision, and a registration takes it.
LEMMA RoomEffect ==
    ASSUME TypeOK, TypeOK'
    PROVE  /\ Room \in Int /\ Room' \in Int
           /\ left' = left /\ Len(revisions') = Len(revisions) => Room' = Room
           /\ left' = left /\ Len(revisions') = Len(revisions) + 1 => Room' = Room - 1
           /\ \A k \in Budgets : Spend(k) =>
                 /\ Len(revisions') = Len(revisions) => Room' = Room + 1
                 /\ Len(revisions') = Len(revisions) + 1 => Room' = Room
<1>1. Budget \in Nat /\ Budget' = Budget
  BY ConstantsAssumption DEF Budget
<1>2. Remaining \in Nat /\ Remaining' \in Nat
  BY DEF Remaining, Budgets, TypeOK
<1>3. Len(revisions) \in Nat /\ Len(revisions') \in Nat
  BY DEF TypeOK
<1>4. left' = left => Remaining' = Remaining
  BY DEF Remaining
<1>5. \A k \in Budgets : Spend(k) => Remaining' = Remaining - 1
  BY SpendEffect
<1> QED  BY <1>1, <1>2, <1>3, <1>4, <1>5 DEF Room

\* After a fault there is room for the next sync.
LEMMA FinishRoom ==
    ASSUME TypeOK, TypeOK', NEW err, Finish(err), Room' >= 0,
           crState' = "live" /\ Wants(template)' => Room' >= 1
    PROVE  RoomInv'
BY FinishEffect DEF RoomInv

\* A user's or a clean-up job's step makes room for what it calls for, while the
\* reconcile that runs keeps the room it has.
LEMMA EventRoom ==
    ASSUME TypeOK, TypeOK', RoomInv, Room' = Room + 1, UNCHANGED workVars,
           \/ UNCHANGED revisions
           \/ UNCHANGED <<crState, template>>
    PROVE  RoomInv'
<1>1. Room \in Int
  BY RoomEffect
<1>2. pc' = pc /\ mode' = mode /\ desired' = desired /\ latest' = latest
  BY DEF workVars
<1>3. CASE UNCHANGED revisions
  <2>1. Wants(desired)' = Wants(desired)
    BY <1>2, <1>3, SameFamily DEF Wants
  <2> QED  BY <1>1, <1>2, <2>1 DEF RoomInv
<1>4. CASE UNCHANGED <<crState, template>>
  <2>1. Edited' = Edited
    BY <1>2, <1>4 DEF Edited
  <2> QED  BY <1>1, <1>2, <2>1 DEF RoomInv
<1> QED  BY <1>3, <1>4

\* The room suffices.
LEMMA RoomStep ==
    ASSUME TypeOK, TypeOK', HoldInv, PhaseInv, RoomInv, [Next]_vars
    PROVE  RoomInv'
<1>r. Room \in Int /\ Room' \in Int /\ Room >= 0
  BY RoomEffect DEF RoomInv
<1>f. "faults" \in Budgets /\ "lives" \in Budgets /\ "edits" \in Budgets
      /\ "drifts" \in Budgets
  BY DEF Budgets
<1>s. UNCHANGED <<revisions, left>> => Room' = Room
  BY RoomEffect
<1>p. revisions' = revisions => /\ Active' = Active /\ Observe' = Observe
  BY SameFamily
<1>1. CASE UNCHANGED vars
  BY <1>1, <1>s, <1>p DEF vars, crVars, statusVars, workVars, RoomInv, Wants, Edited,
     Patched
<1>2. CASE Begin
  <2>1. Room' = Room /\ Active' = Active /\ Observe' = Observe
    BY <1>2, <1>s, <1>p DEF Begin
  <2>2. desired' = template /\ template' = template /\ crState' = crState
    BY <1>2 DEF Begin, crVars
  <2>3. Wants(desired)' = Wants(template) /\ ~Edited'
    BY <2>1, <2>2 DEF Wants, Edited
  <2>4. pc = "idle" /\ pc' = "find" /\ (mode' = "sync" => crState = "live")
    BY <1>2 DEF Begin
  <2> QED  BY <1>r, <2>1, <2>3, <2>4 DEF RoomInv
<1>3. CASE \/ FindFails \/ PatchFails \/ ListFails \/ ReleaseFails
  <2>1. Spend("faults") /\ Finish("Retryable") /\ UNCHANGED revisions
    BY <1>3 DEF FindFails, PatchFails, ListFails, ReleaseFails
  <2>2. Room' = Room + 1
    BY <1>f, <2>1, RoomEffect
  <2> QED  BY <1>r, <2>1, <2>2, FinishRoom
<1>4. CASE FindNothing
  <2>1. Room' = Room /\ Active = {}
    BY <1>4, <1>s DEF FindNothing, DescribeError
  <2>2. Edited' = Edited
    BY <1>4 DEF FindNothing, Continue, crVars, Edited
  <2>3. Wants(desired)
    BY <2>1 DEF Wants
  <2>4. pc = "find" /\ pc' = (IF mode = "sync" THEN "manage" ELSE "deregister")
    BY <1>4 DEF FindNothing, Continue
  <2> QED  BY <1>r, <2>1, <2>2, <2>3, <2>4 DEF RoomInv
<1>5. CASE FindForSync
  <2>1. /\ Room' = Room /\ Active' = Active /\ Observe' = Observe
        /\ pc = "find" /\ mode = "sync" /\ UNCHANGED crVars
    BY <1>5, <1>s, <1>p DEF FindForSync
  <2>2. crState' = "live" /\ Wants(template)' => Wants(desired) \/ Edited
    BY <2>1 DEF Wants, Edited, crVars
  <2>3. CASE \E err \in {"nil", "Terminal"} : Finish(err)
    BY <1>r, <2>1, <2>2, <2>3, FinishRoom DEF RoomInv
  <2>4. CASE desired # Observe /\ Continue("update")
    <3>1. Wants(desired)
      BY <2>4 DEF Wants
    <3>2. Edited' = Edited /\ pc' = "update"
      BY <2>1, <2>4 DEF Continue, crVars, Edited
    <3> QED  BY <1>r, <2>1, <3>1, <3>2 DEF RoomInv
  <2> QED  BY <1>5, <2>3, <2>4 DEF FindForSync
<1>6. CASE FindForDelete \/ List
  <2>1. Room' = Room /\ pc' \in {"list", "deregister"}
    BY <1>6, <1>s DEF FindForDelete, List, Continue
  <2> QED  BY <1>r, <2>1 DEF RoomInv
<1>7. CASE SetManaged
  <2>1. Room' = Room
    BY <1>7, <1>s DEF SetManaged
  <2>2. CASE crState = "absent"
    BY <1>7, <1>r, <2>1, <2>2, FinishRoom DEF SetManaged
  <2>3. CASE Continue("create")
    <3>1. Edited' = Edited /\ pc = "manage" /\ pc' = "create"
      BY <1>7, <2>3 DEF SetManaged, Continue, Edited
    <3> QED  BY <1>r, <2>1, <3>1 DEF RoomInv
  <2> QED  BY <1>7, <2>2, <2>3 DEF SetManaged
<1>8. CASE RegisterTaskDefinition
  <2>1. /\ Room' = Room - 1 /\ Observe' = latest' /\ Active' # {}
    BY <1>8, RoomEffect, ReconcileTypes, Registered DEF RegisterTaskDefinition
  <2>2. pc \in {"create", "update"} /\ pc' = "patch" /\ desired' = desired
        /\ crState' = crState /\ template' = template
    BY <1>8 DEF RegisterTaskDefinition, Continue, crVars
  <2>3. crState' = "live" /\ Wants(Patched)' => Edited
    BY <2>1, <2>2 DEF Wants, Patched, Edited
  <2> QED  BY <1>r, <2>1, <2>2, <2>3 DEF RoomInv
<1>9. CASE RegisterFails
  <2>1. Len(revisions') \in {Len(revisions), Len(revisions) + 1}
    BY <1>9, ReconcileTypes, Registered DEF RegisterFails
  <2>2. Room' >= Room /\ Room >= 1
    BY <1>9, <1>r, <1>f, <2>1, RoomEffect DEF RegisterFails, RoomInv
  <2> QED  BY <1>9, <1>r, <2>2, FinishRoom DEF RegisterFails
<1>10. CASE PatchSpec
  <2>1. Room' = Room /\ Active' = Active /\ Observe' = Observe
    BY <1>10, <1>s, <1>p DEF PatchSpec
  <2>2. template' = Patched /\ crState' = crState /\ pc = "patch" /\ Finish("nil")
    BY <1>10 DEF PatchSpec, Patched
  <2>3. Wants(template)' = Wants(Patched)
    BY <2>1, <2>2 DEF Wants
  <2> QED  BY <1>r, <2>1, <2>2, <2>3, FinishRoom DEF RoomInv
<1>11. CASE DeregisterTaskDefinition
  <2>1. PICK n \in arns : revisions' = Deregistered(n)
    BY <1>11 DEF DeregisterTaskDefinition
  <2>2. Room' = Room
    BY <1>11, <2>1, DeregisteredEffect, RoomEffect DEF TypeOK, DeregisterTaskDefinition
  <2>3. pc' = "deregister"
    BY <1>11 DEF DeregisterTaskDefinition, Continue
  <2> QED  BY <1>r, <2>2, <2>3 DEF RoomInv
<1>12. CASE DeregisterFails
  <2>1. Len(revisions') = Len(revisions)
    BY <1>12, DeregisteredEffect DEF DeregisterFails, TypeOK
  <2>2. Room' = Room + 1
    BY <1>12, <1>f, <2>1, RoomEffect DEF DeregisterFails
  <2> QED  BY <1>12, <1>r, <2>2, FinishRoom DEF DeregisterFails
<1>13. CASE Release
  <2>1. crState' # "live" /\ Room' = Room
    BY <1>13, <1>s DEF Release, PhaseInv
  <2> QED  BY <1>13, <1>r, <2>1, FinishRoom DEF Release
<1>14. CASE Crash
  <2>1. Room' = Room + 1 /\ pc' = "idle"
    BY <1>14, <1>f, RoomEffect DEF Crash
  <2> QED  BY <1>r, <2>1 DEF RoomInv
<1>15. CASE Resync
  <2>1. Room' = Room /\ Active' = Active /\ Observe' = Observe
    BY <1>15, <1>s, <1>p DEF Resync
  <2>2. pc = "idle" /\ pc' = "idle" /\ crState' = crState /\ template' = template
    BY <1>15 DEF Resync, crVars, workVars
  <2>3. Wants(template)' = Wants(template)
    BY <2>1, <2>2 DEF Wants
  <2> QED  BY <1>r, <2>1, <2>2, <2>3 DEF RoomInv
<1>16. CASE UserCreates \/ UserEdits
  <2>1. UNCHANGED <<workVars, revisions>> /\ Room' = Room + 1
    BY <1>16, <1>f, RoomEffect DEF UserCreates, UserEdits
  <2> QED  BY <2>1, EventRoom
<1>17. CASE OthersDeregister
  <2>1. PICK n \in Active : revisions' = Deregistered(n)
    BY <1>17 DEF OthersDeregister
  <2>2. Len(revisions') = Len(revisions)
    BY <2>1, DeregisteredEffect DEF Active
  <2>3. UNCHANGED <<crState, template, workVars>> /\ Room' = Room + 1
    BY <1>17, <1>f, <2>2, RoomEffect DEF OthersDeregister, crVars
  <2> QED  BY <2>3, EventRoom
<1>18. CASE UserDeletes
  <2>1. Room' = Room /\ Active' = Active /\ Observe' = Observe
    BY <1>18, <1>s, <1>p DEF UserDeletes
  <2>2. crState' # "live" /\ pc' = pc /\ mode' = mode /\ desired' = desired
    BY <1>18 DEF UserDeletes, workVars
  <2>3. Wants(desired)' = Wants(desired) /\ ~Edited'
    BY <2>1, <2>2 DEF Wants, Edited
  <2> QED  BY <1>r, <2>1, <2>2, <2>3 DEF RoomInv
<1> QED  BY <1>1, <1>2, <1>3, <1>4, <1>5, <1>6, <1>7, <1>8, <1>9, <1>10, <1>11,
            <1>12, <1>13, <1>14, <1>15, <1>16, <1>17, <1>18
         DEF Next, Reconcile, Environment
-----------------------------------------------------------------------------
(* The loop of sdkDelete.                                                  *)

\* A revision becomes active by a registration only.
LEMMA FamilyStep ==
    ASSUME TypeOK, [Next]_vars
    PROVE  \/ Active' \subseteq Active
           \/ /\ pc \in {"create", "update"} /\ pc' \in {"patch", "idle"}
              /\ UNCHANGED crVars
              /\ Active' # {}
<1>1. CASE RegisterTaskDefinition \/ RegisterFails
  <2>1. revisions' = revisions \/ revisions' = Register(desired)
    BY <1>1 DEF RegisterTaskDefinition, RegisterFails
  <2>2. \/ Active' = Active
        \/ Active' = Active \cup {Len(revisions) + 1}
    BY <2>1, SameFamily, Registered, ReconcileTypes
  <2>3. /\ pc \in {"create", "update"} /\ pc' \in {"patch", "idle"}
        /\ UNCHANGED crVars
    BY <1>1 DEF RegisterTaskDefinition, RegisterFails, Continue, Finish
  <2> QED  BY <2>2, <2>3
<1>2. CASE DeregisterTaskDefinition \/ DeregisterFails
  <2>1. \/ revisions' = revisions
        \/ \E n \in arns : revisions' = Deregistered(n)
    BY <1>2 DEF DeregisterTaskDefinition, DeregisterFails
  <2> QED  BY <2>1, SameFamily, DeregisteredEffect DEF TypeOK
<1>3. CASE OthersDeregister
  <2>1. PICK n \in Active : revisions' = Deregistered(n)
    BY <1>3 DEF OthersDeregister
  <2> QED  BY <2>1, DeregisteredEffect DEF Active
<1>4. CASE UNCHANGED revisions
  BY <1>4, SameFamily
<1>5. \/ RegisterTaskDefinition \/ RegisterFails
      \/ DeregisterTaskDefinition \/ DeregisterFails \/ OthersDeregister
      \/ UNCHANGED revisions
  BY DEF Next, Reconcile, Environment, vars, Begin, FindFails, FindNothing,
         FindForSync, FindForDelete, SetManaged, PatchSpec, PatchFails, List,
         ListFails, Release, ReleaseFails, Crash, Resync, UserCreates, UserEdits,
         UserDeletes
<1> QED  BY <1>1, <1>2, <1>3, <1>4, <1>5

\* Only a deletion takes the finalizer off, at the end of its loop.
LEMMA FinalizerStep ==
    ASSUME [Next]_vars, finalizer, ~finalizer'
    PROVE  Release
BY DEF Next, Reconcile, Environment, vars, Begin, FindFails, FindNothing,
       FindForSync, FindForDelete, SetManaged, RegisterTaskDefinition, RegisterFails,
       PatchSpec, PatchFails, List, ListFails, DeregisterTaskDefinition,
       DeregisterFails, ReleaseFails, Crash, Resync, UserCreates, UserEdits,
       UserDeletes, OthersDeregister, crVars

\* The ways into a turn of the loop.
LEMMA WaysToDeregister ==
    ASSUME [Next]_vars, pc' = "deregister"
    PROVE  \/ FindNothing \/ List \/ DeregisterTaskDefinition
           \/ pc = "deregister" /\ UNCHANGED arns
BY DEF Next, Reconcile, Environment, vars, workVars, Begin, FindFails,
       FindForSync, FindForDelete, SetManaged, RegisterTaskDefinition, RegisterFails,
       PatchSpec, PatchFails, ListFails, DeregisterFails, Release, ReleaseFails,
       Crash, Resync, UserCreates, UserEdits, UserDeletes, OthersDeregister,
       Continue, Finish

\* The loop leaves no active revision out.
LEMMA PageStep ==
    ASSUME TypeOK, PhaseInv, PageInv, Fits, [Next]_vars
    PROVE  PageInv'
<1>1. (Active # {} => finalizer) /\ (pc = "deregister" => Active \subseteq arns)
  BY DEF PageInv
<1>2. ASSUME Active' # {} PROVE finalizer'
  <2>1. finalizer
    BY <1>1, <1>2, FamilyStep DEF PhaseInv
  <2>2. ~Release
    <3> SUFFICES ASSUME Release PROVE FALSE
      OBVIOUS
    <3>1. pc = "deregister" /\ arns = {} /\ revisions' = revisions
      BY DEF Release
    <3> QED  BY <1>1, <1>2, <3>1, SameFamily
  <2> QED  BY <2>1, <2>2, FinalizerStep
<1>3. ASSUME pc' = "deregister" PROVE Active' \subseteq arns'
  <2>1. CASE FindNothing
    BY <2>1, SameFamily DEF FindNothing, DescribeError
  <2>2. CASE List
    <3>1. arns' = Active /\ revisions' = revisions
      BY <2>2, ListingIsComplete DEF List
    <3> QED  BY <3>1, SameFamily
  <2>3. CASE DeregisterTaskDefinition
    <3>1. PICK n \in arns : revisions' = Deregistered(n) /\ arns' = arns \ {n}
      BY <2>3 DEF DeregisterTaskDefinition
    <3>2. Active' = Active \ {n} /\ Active \subseteq arns
      BY <1>1, <2>3, <3>1, DeregisteredEffect DEF TypeOK, DeregisterTaskDefinition
    <3> QED  BY <3>1, <3>2
  <2>4. CASE pc = "deregister" /\ UNCHANGED arns
    BY <1>1, <1>3, <2>4, FamilyStep
  <2> QED  BY <1>3, <2>1, <2>2, <2>3, <2>4, WaysToDeregister
<1> QED  BY <1>2, <1>3 DEF PageInv

-----------------------------------------------------------------------------
(* What the invariant gives.                                               *)

\* An absent object without revisions satisfies the invariant.
LEMMA InitInv == Init => IInv
<1> SUFFICES ASSUME Init PROVE IInv
  OBVIOUS
<1>1. NoTemplate \in Templates
  BY ConstantsAssumption DEF NoTemplate, Templates
<1>2. revisions = <<>> /\ revisions \in Seq(Revisions) /\ Len(revisions) = 0
  BY DEF Init
<1>3. left \in [Budgets -> Nat]
  BY ConstantsAssumption DEF Init, Budgets
<1>4. TypeOK
  BY <1>1, <1>2, <1>3 DEF Init, TypeOK
<1>5. Room = 0
  <2>1. Remaining = Budget /\ Budget \in Nat
    BY ConstantsAssumption DEF Init, Remaining, Budget
  <2>2. Budget - Budget - 0 = 0
    BY <2>1
  <2> QED  BY <1>2, <2>1, <2>2 DEF Room
<1>6. HoldInv /\ PhaseInv
  BY DEF Init, HoldInv, PhaseInv
<1>7. RoomInv
  BY <1>5 DEF Init, RoomInv
<1> QED  BY <1>4, <1>6, <1>7 DEF IInv

\* The inductive invariant.
THEOREM Invariance == Spec => []IInv
<1>1. Init => IInv
  BY InitInv
<1>2. IInv /\ [Next]_vars => IInv'
  BY TypeStep, HoldStep, PhaseStep, RoomStep DEF IInv
<1> QED  BY <1>1, <1>2, PTL DEF Spec

\* The variables keep their types.
THEOREM TypeCorrect == Spec => []TypeOK
<1>1. IInv => TypeOK
  BY DEF IInv
<1> QED  BY <1>1, Invariance, PTL

\* Revisions are registered only for an object, an edit, a revision lost to others
\* or a fault: the defaults in the response settle the next comparison.
THEOREM RevisionsHaveReasons == Spec => []NoSpuriousRevisions
<1>1. IInv => NoSpuriousRevisions
  <2> SUFFICES ASSUME IInv PROVE NoSpuriousRevisions
    OBVIOUS
  <2>1. /\ MaxLives \in Nat /\ MaxEdits \in Nat
        /\ MaxDrifts \in Nat /\ MaxFaults \in Nat
        /\ left["lives"] \in Nat /\ left["edits"] \in Nat
        /\ left["drifts"] \in Nat /\ left["faults"] \in Nat
    BY ConstantsAssumption DEF IInv, TypeOK, Budgets
  <2>2. Len(revisions) \in Nat /\ Budget - Remaining - Len(revisions) >= 0
    BY ActiveType DEF IInv, RoomInv, Room
  <2>3. Budget \in Nat /\ Remaining \in Nat
    BY <2>1 DEF Budget, Remaining
  <2>4. Len(revisions) <= Budget - Remaining
    BY <2>2, <2>3
  <2>5. Budget - Remaining =
          (MaxLives - left["lives"]) + (MaxEdits - left["edits"])
          + (MaxDrifts - left["drifts"]) + (MaxFaults - left["faults"])
    BY <2>1 DEF Budget, Remaining
  <2> QED  BY <2>4, <2>5 DEF NoSpuriousRevisions, Spent
<1> QED  BY <1>1, Invariance, PTL

\* While a page holds the active revisions, the loop leaves none out.
LEMMA PageInvariance == Spec /\ []Fits => []PageInv
<1>1. Init => PageInv
  BY DEF Init, PageInv, Active
<1>2. IInv /\ Fits /\ PageInv /\ [Next]_vars => PageInv'
  BY PageStep DEF IInv
<1> QED  BY <1>1, <1>2, Invariance, PTL DEF Spec

\* As long as a page of the listing holds the active revisions of the family, none
\* is left behind, wherever a deletion is interrupted.
THEOREM FamilyIsNeverOrphaned == Spec /\ []Fits => []NoOrphan
<1>1. IInv /\ PageInv => NoOrphan
  BY DEF IInv, HoldInv, PageInv, NoOrphan
<1> QED  BY <1>1, Invariance, PageInvariance, PTL

-----------------------------------------------------------------------------
(* The manager implements the lifecycle.                                   *)

\* Each step is one of the abstract lifecycle or leaves all of it alone.
LEMMA LifecycleStep ==
    ASSUME IInv, IInv', PageInv, [Next]_vars
    PROVE  [Lifecycle!Next]_(Lifecycle!vars)
<1> DEFINE same == UNCHANGED <<crState, finalizer>>
<1> USE DEF Lifecycle!vars
<1>i. TypeOK /\ TypeOK' /\ HoldInv /\ HoldInv' /\ PhaseInv
      /\ (Active # {} => finalizer) /\ (pc = "deregister" => Active \subseteq arns)
  BY DEF IInv, PageInv
<1>p. revisions' = revisions => Active' = Active
  BY SameFamily
<1>1. CASE UNCHANGED <<crState, finalizer, revisions>>
  BY <1>1, <1>p
<1>2. CASE SetManaged
  <2>1. Active' = Active /\ crState' = crState
    BY <1>2, <1>p DEF SetManaged
  <2>2. finalizer' = finalizer \/ (crState # "absent" /\ finalizer' = TRUE)
    BY <1>2 DEF SetManaged
  <2> QED  BY <2>1, <2>2 DEF Lifecycle!Next, Lifecycle!Hold
<1>3. CASE RegisterTaskDefinition \/ RegisterFails
  <2>1. /\ same /\ pc \in {"create", "update"}
        /\ revisions' = revisions \/ revisions' = Register(desired)
    BY <1>3 DEF RegisterTaskDefinition, RegisterFails, crVars
  <2>2. CASE revisions' = revisions
    BY <1>1, <2>1, <2>2
  <2>3. CASE revisions' = Register(desired)
    <3>1. Active' # {}
      BY <1>i, <2>3, Registered, ReconcileTypes
    <3>2. finalizer /\ crState # "absent"
      BY <1>i, <2>1 DEF PhaseInv, HoldInv
    <3>3. CASE Active = {}
      BY <2>1, <3>1, <3>2, <3>3 DEF Lifecycle!Next, Lifecycle!Provision
    <3>4. CASE Active # {}
      BY <2>1, <3>1, <3>4
    <3> QED  BY <3>3, <3>4
  <2> QED  BY <2>1, <2>2, <2>3
<1>4. CASE DeregisterTaskDefinition \/ DeregisterFails
  <2>1. /\ same /\ crState = "deleting"
        /\ Active' \subseteq Active
    <3>1. same /\ pc = "deregister"
      BY <1>4 DEF DeregisterTaskDefinition, DeregisterFails, crVars
    <3>2. crState = "deleting"
      BY <1>i, <3>1 DEF PhaseInv
    <3> QED  BY <1>i, <3>1, <3>2, FamilyStep
  <2>2. CASE Active # {} /\ Active' = {}
    BY <2>1, <2>2 DEF Lifecycle!Next, Lifecycle!Deprovision
  <2>3. CASE (Active = {}) = (Active' = {})
    BY <2>1, <2>3
  <2> QED  BY <2>1, <2>2, <2>3
<1>5. CASE Release
  <2>1. /\ Active = {} /\ Active' = {} /\ crState = "deleting" /\ finalizer
    <3>1. pc = "deregister" /\ arns = {} /\ revisions' = revisions
      BY <1>5 DEF Release
    <3> QED  BY <1>i, <1>p, <3>1 DEF PhaseInv, HoldInv
  <2>2. crState' = "absent" /\ finalizer' = FALSE
    BY <1>5, <2>1 DEF Release
  <2> QED  BY <2>1, <2>2 DEF Lifecycle!Next, Lifecycle!LetGo
<1>6. CASE UserCreates
  <2>1. crState = "absent" /\ crState' = "live" /\ finalizer' = finalizer
        /\ Active' = Active
    BY <1>6, <1>p DEF UserCreates
  <2> QED  BY <2>1 DEF Lifecycle!Next, Lifecycle!Declare
<1>7. CASE UserDeletes
  <2>1. /\ crState = "live" /\ finalizer' = finalizer /\ Active' = Active
        /\ crState' = IF finalizer THEN "deleting" ELSE "absent"
    BY <1>7, <1>p DEF UserDeletes
  <2> QED  BY <2>1 DEF Lifecycle!Next, Lifecycle!Retire
<1>8. CASE OthersDeregister
  <2>1. PICK n \in Active : revisions' = Deregistered(n)
    BY <1>8 DEF OthersDeregister
  <2>2. Active' = Active \ {n}
    BY <1>i, <2>1, DeregisteredEffect DEF Active
  <2>3. Active # {n}
    <3>1. Cardinality({n}) = 1
      BY FS_Singleton
    <3> QED  BY <1>8, <3>1 DEF OthersDeregister
  <2>4. Active # {} /\ Active' # {}
    BY <2>2, <2>3
  <2> QED  BY <1>8, <2>4 DEF OthersDeregister, crVars
<1>9. \/ UNCHANGED <<crState, finalizer, revisions>>
      \/ SetManaged \/ RegisterTaskDefinition \/ RegisterFails
      \/ DeregisterTaskDefinition \/ DeregisterFails \/ Release
      \/ UserCreates \/ UserDeletes \/ OthersDeregister
  BY DEF Next, Reconcile, Environment, vars, crVars, Begin, FindFails, FindNothing,
         FindForSync, FindForDelete, PatchSpec, PatchFails, List, ListFails,
         ReleaseFails, Crash, Resync, UserEdits
<1> QED  BY <1>1, <1>2, <1>3, <1>4, <1>5, <1>6, <1>7, <1>8, <1>9

\* As long as a page holds the active revisions, every behaviour of the task
\* definition manager is one of the abstract lifecycle.
THEOREM ManagerImplementsLifecycle == Spec /\ []Fits => ImplementsLifecycle
<1>1. Init => Lifecycle!Init
  <2> SUFFICES ASSUME Init PROVE Lifecycle!Init
    OBVIOUS
  <2>1. Active = {}
    BY DEF Init, Active
  <2> QED  BY <2>1 DEF Init, Lifecycle!Init
<1>2. IInv /\ IInv' /\ PageInv /\ [Next]_vars => [Lifecycle!Next]_(Lifecycle!vars)
  BY LifecycleStep
<1> QED
  BY <1>1, <1>2, Invariance, PageInvariance, PTL
     DEF Spec, ImplementsLifecycle, Lifecycle!Spec
=============================================================================
