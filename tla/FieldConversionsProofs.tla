------------------------ MODULE FieldConversionsProofs ------------------------
(***************************************************************************)
(* Proofs about the conversions of the fields, for every width of the      *)
(* integers and any number of interventions: the reply of a call puts      *)
(* nothing into the spec that was not in its request, and so the           *)
(* controller keeps what the user wrote.                                   *)
(*                                                                         *)
(* What a table has is found by the rules of FieldTablesProofs.  The       *)
(* tables of each kind come through an INSTANCE and have operators of      *)
(* their own, which are shown to be those of FieldTables first.            *)
(***************************************************************************)
EXTENDS FieldConversions, FieldTablesProofs, TLAPS

LEMMA TaskDefinitionOperators ==
    /\ \A class, names : TD!As(class, names) = As(class, names)
    /\ \A parent, t : TD!In(parent, t) = In(parent, t)
    /\ \A a, b : TD!@@(a, b) = a @@ b
    /\ \A names : TD!Paths(names) = Paths(names)
    /\ \A parent, paths : TD!Below(parent, paths) = Below(parent, paths)
BY Merge
   DEF TD!As, TD!In, TD!@@, TD!Paths, TD!Below, As, In, Paths, Below

LEMMA ServiceOperators ==
    /\ \A class, names : S!As(class, names) = As(class, names)
    /\ \A parent, t : S!In(parent, t) = In(parent, t)
    /\ \A a, b : S!@@(a, b) = a @@ b
    /\ \A names : S!Paths(names) = Paths(names)
    /\ \A parent, paths : S!Below(parent, paths) = Below(parent, paths)
BY Merge
   DEF S!As, S!In, S!@@, S!Paths, S!Below, As, In, Paths, Below

LEMMA ClusterOperators ==
    /\ \A class, names : C!As(class, names) = As(class, names)
    /\ \A parent, t : C!In(parent, t) = In(parent, t)
    /\ \A a, b : C!@@(a, b) = a @@ b
    /\ \A names : C!Paths(names) = Paths(names)
    /\ \A parent, paths : C!Below(parent, paths) = Below(parent, paths)
BY Merge
   DEF C!As, C!In, C!@@, C!Paths, C!Below, As, In, Paths, Below

LEMMA CapacityProviderOperators ==
    /\ \A class, names : CP!As(class, names) = As(class, names)
    /\ \A parent, t : CP!In(parent, t) = In(parent, t)
    /\ \A a, b : CP!@@(a, b) = a @@ b
    /\ \A names : CP!Paths(names) = Paths(names)
    /\ \A parent, paths : CP!Below(parent, paths) = Below(parent, paths)
BY Merge
   DEF CP!As, CP!In, CP!@@, CP!Paths, CP!Below, As, In, Paths, Below

-----------------------------------------------------------------------------
(* sdkCreate: what comes back was in the request, and its width was checked *)

LEMMA TaskDefinitionReply == Covers(TD!CreatePayload, TD!Read)
<1>1. Covers(TD!CreatePayloadContainersA, TD!ReadContainersA)
  BY TaskDefinitionOperators, CoversAs, CoversIn, CoversBoth, CoversLeft,
         HasAs, HasMerge
     DEF TD!CreatePayloadContainersA, TD!ReadContainersA
<1>2. Covers(TD!CreatePayloadContainersB, TD!ReadContainersB)
  BY TaskDefinitionOperators, CoversAs, CoversIn, CoversBoth, CoversLeft,
         HasAs, HasMerge
     DEF TD!CreatePayloadContainersB, TD!ReadContainersB
<1>3. Covers(TD!CreatePayloadContainersC, TD!ReadContainersC)
  BY TaskDefinitionOperators, CoversAs, CoversIn, CoversBoth, CoversLeft,
         HasAs, HasMerge
     DEF TD!CreatePayloadContainersC, TD!ReadContainersC
<1>4. Covers(TD!CreatePayloadContainersD, TD!ReadContainersD)
  BY TaskDefinitionOperators, CoversAs, CoversIn, CoversBoth, CoversLeft,
         HasAs, HasMerge
     DEF TD!CreatePayloadContainersD, TD!ReadContainersD
<1>5. Covers(TD!CreatePayloadTaskA, TD!ReadTaskA)
  BY TaskDefinitionOperators, CoversAs, CoversIn, CoversBoth, CoversLeft,
         HasAs, HasMerge
     DEF TD!CreatePayloadTaskA, TD!ReadTaskA
<1>6. Covers(TD!CreatePayloadTaskB, TD!ReadTaskB)
  BY TaskDefinitionOperators, CoversAs, CoversIn, CoversBoth, CoversLeft,
         HasAs, HasMerge
     DEF TD!CreatePayloadTaskB, TD!ReadTaskB
<1>7. Covers(TD!CreatePayloadVolumes, TD!ReadVolumes)
  BY TaskDefinitionOperators, CoversAs, CoversIn, CoversBoth, CoversLeft,
         HasAs, HasMerge
     DEF TD!CreatePayloadVolumes, TD!ReadVolumes
<1> QED
  BY <1>1, <1>2, <1>3, <1>4, <1>5, <1>6, <1>7, TaskDefinitionOperators,
         CoversBoth, CoversLeft
     DEF TD!CreatePayload, TD!Read

LEMMA TaskDefinitionChecked == CutOnlyAt(TD!CreatePayload, {})
<1>1. CutOnlyAt(TD!CreatePayloadContainersA, {})
  BY TaskDefinitionOperators, CutAs, CutIn, CutMerge
     DEF TD!CreatePayloadContainersA
<1>2. CutOnlyAt(TD!CreatePayloadContainersB, {})
  BY TaskDefinitionOperators, CutAs, CutIn, CutMerge
     DEF TD!CreatePayloadContainersB
<1>3. CutOnlyAt(TD!CreatePayloadContainersC, {})
  BY TaskDefinitionOperators, CutAs, CutIn, CutMerge
     DEF TD!CreatePayloadContainersC
<1>4. CutOnlyAt(TD!CreatePayloadContainersD, {})
  BY TaskDefinitionOperators, CutAs, CutIn, CutMerge
     DEF TD!CreatePayloadContainersD
<1>5. CutOnlyAt(TD!CreatePayloadTaskA, {})
  BY TaskDefinitionOperators, CutAs, CutIn, CutMerge
     DEF TD!CreatePayloadTaskA
<1>6. CutOnlyAt(TD!CreatePayloadTaskB, {})
  BY TaskDefinitionOperators, CutAs, CutIn, CutMerge
     DEF TD!CreatePayloadTaskB
<1>7. CutOnlyAt(TD!CreatePayloadVolumes, {})
  BY TaskDefinitionOperators, CutAs, CutIn, CutMerge
     DEF TD!CreatePayloadVolumes
<1> QED
  BY <1>1, <1>2, <1>3, <1>4, <1>5, <1>6, <1>7, TaskDefinitionOperators,
         CutMerge
     DEF TD!CreatePayload

LEMMA ServiceReply == Covers(S!CreatePayload, S!Read)
<1>1. Covers(S!CreatePayloadDeployment, S!ReadDeployment)
  BY ServiceOperators, CoversAs, CoversIn, CoversBoth, CoversLeft, HasAs,
         HasMerge
     DEF S!CreatePayloadDeployment, S!ReadDeployment
<1>2. Covers(S!CreatePayloadPlacement, S!ReadPlacement)
  BY ServiceOperators, CoversAs, CoversIn, CoversBoth, CoversLeft, HasAs,
         HasMerge
     DEF S!CreatePayloadPlacement, S!ReadPlacement
<1>3. Covers(S!CreatePayloadTask, S!ReadTask)
  BY ServiceOperators, CoversAs, CoversIn, CoversBoth, CoversLeft, HasAs,
         HasMerge
     DEF S!CreatePayloadTask, S!ReadTask
<1> QED
  BY <1>1, <1>2, <1>3, ServiceOperators, CoversBoth, CoversLeft
     DEF S!CreatePayload, S!Read

LEMMA ServiceChecked == CutOnlyAt(S!CreatePayload, {})
<1>1. CutOnlyAt(S!CreatePayloadDeployment, {})
  BY ServiceOperators, CutAs, CutIn, CutMerge
     DEF S!CreatePayloadDeployment
<1>2. CutOnlyAt(S!CreatePayloadPlacement, {})
  BY ServiceOperators, CutAs, CutIn, CutMerge
     DEF S!CreatePayloadPlacement
<1>3. CutOnlyAt(S!CreatePayloadTask, {})
  BY ServiceOperators, CutAs, CutIn, CutMerge
     DEF S!CreatePayloadTask
<1>4. CutOnlyAt(S!CreatePayloadConnect, {})
  BY ServiceOperators, CutAs, CutIn, CutMerge
     DEF S!CreatePayloadConnect
<1>5. CutOnlyAt(S!CreatePayloadVolumes, {})
  BY ServiceOperators, CutAs, CutIn, CutMerge
     DEF S!CreatePayloadVolumes
<1> QED
  BY <1>1, <1>2, <1>3, <1>4, <1>5, ServiceOperators, CutMerge
     DEF S!CreatePayload

LEMMA ClusterReply == Covers(C!CreatePayload, C!Read)
BY ClusterOperators, CoversAs, CoversIn, CoversBoth, CoversLeft, HasAs,
       HasMerge
   DEF C!CreatePayload, C!Read

LEMMA ClusterChecked == CutOnlyAt(C!CreatePayload, {})
BY ClusterOperators, CutAs, CutIn, CutMerge
   DEF C!CreatePayload

LEMMA CapacityProviderReply == Covers(CP!CreatePayload, CP!Read)
<1>1. Covers(CP!CreatePayloadGroup, CP!ReadGroup)
  BY CapacityProviderOperators, CoversAs, CoversIn, CoversBoth, CoversLeft,
         HasAs, HasMerge
     DEF CP!CreatePayloadGroup, CP!ReadGroup
<1>2. Covers(CP!CreatePayloadInstancesA, CP!ReadInstancesA)
  BY CapacityProviderOperators, CoversAs, CoversIn, CoversBoth, CoversLeft,
         HasAs, HasMerge
     DEF CP!CreatePayloadInstancesA, CP!ReadInstancesA
<1>3. Covers(CP!CreatePayloadInstancesB, CP!ReadInstancesB)
  BY CapacityProviderOperators, CoversAs, CoversIn, CoversBoth, CoversLeft,
         HasAs, HasMerge
     DEF CP!CreatePayloadInstancesB, CP!ReadInstancesB
<1>4. Covers(CP!CreatePayloadInstancesC, CP!ReadInstancesC)
  BY CapacityProviderOperators, CoversAs, CoversIn, CoversBoth, CoversLeft,
         HasAs, HasMerge
     DEF CP!CreatePayloadInstancesC, CP!ReadInstancesC
<1> QED
  BY <1>1, <1>2, <1>3, <1>4, CapacityProviderOperators, CoversBoth, CoversLeft
     DEF CP!CreatePayload, CP!Read

LEMMA CapacityProviderChecked == CutOnlyAt(CP!CreatePayload, {})
<1>1. CutOnlyAt(CP!CreatePayloadGroup, {})
  BY CapacityProviderOperators, CutAs, CutIn, CutMerge
     DEF CP!CreatePayloadGroup
<1>2. CutOnlyAt(CP!CreatePayloadInstancesA, {})
  BY CapacityProviderOperators, CutAs, CutIn, CutMerge
     DEF CP!CreatePayloadInstancesA
<1>3. CutOnlyAt(CP!CreatePayloadInstancesB, {})
  BY CapacityProviderOperators, CutAs, CutIn, CutMerge
     DEF CP!CreatePayloadInstancesB
<1>4. CutOnlyAt(CP!CreatePayloadInstancesC, {})
  BY CapacityProviderOperators, CutAs, CutIn, CutMerge
     DEF CP!CreatePayloadInstancesC
<1> QED
  BY <1>1, <1>2, <1>3, <1>4, CapacityProviderOperators, CutMerge
     DEF CP!CreatePayload

-----------------------------------------------------------------------------
(* sdkUpdate: what its reply brings back, and what it had sent *)

\* What comes back without having been sent: names, and the fields of Reverted.
ServiceNames    == As("optional", {"Name"})
ServiceReverted ==
       As("optional", {"LaunchType", "SchedulingStrategy"})
    @@ In("Tags", As("optional", {"Key", "Value"}))
ClusterNames             == As("optional", {"Name"})
CapacityProviderReverted == In("Tags", As("optional", {"Key", "Value"}))

\* A new revision is registered with the same request as the first one.
LEMMA TaskDefinitionUpdate ==
    TD!UpdatePayload = TD!CreatePayload /\ TD!UpdateMerge = TD!Read
BY DEF TD!UpdatePayload, TD!CreatePayload, TD!UpdateMerge, TD!Read,
       TD!UpdatePayloadContainersA, TD!UpdatePayloadContainersB,
       TD!UpdatePayloadContainersC, TD!UpdatePayloadContainersD,
       TD!UpdatePayloadTaskA, TD!UpdatePayloadTaskB, TD!UpdatePayloadVolumes,
       TD!UpdateMergeContainersA, TD!UpdateMergeContainersB,
       TD!UpdateMergeContainersC, TD!UpdateMergeContainersD,
       TD!UpdateMergeTaskA, TD!UpdateMergeTaskB, TD!UpdateMergeVolumes

\* The replies of the other calls are copied like that of sdkFind.
LEMMA SameCopies ==
    /\ TD!CreateMerge = TD!Read
    /\ S!CreateMerge = S!Read /\ S!UpdateMerge = S!Read
    /\ C!CreateMerge = C!Read /\ C!UpdateMerge = C!Read
    /\ CP!CreateMerge = CP!Read
BY DEF TD!CreateMerge, TD!Read, TD!CreateMergeContainersA,
       TD!CreateMergeContainersB, TD!CreateMergeContainersC,
       TD!CreateMergeContainersD, TD!CreateMergeTaskA, TD!CreateMergeTaskB,
       TD!CreateMergeVolumes, S!CreateMerge, S!UpdateMerge, S!Read,
       S!CreateMergeDeployment, S!CreateMergePlacement, S!CreateMergeTask,
       S!UpdateMergeDeployment, S!UpdateMergePlacement, S!UpdateMergeTask,
       C!CreateMerge, C!UpdateMerge, CP!CreateMerge, CP!Read,
       CP!CreateMergeGroup, CP!CreateMergeInstancesA,
       CP!CreateMergeInstancesB, CP!CreateMergeInstancesC

LEMMA ServiceUpdateReply ==
    Covers(S!UpdatePayload @@ (ServiceNames @@ ServiceReverted), S!Read)
<1>1. Covers(S!UpdatePayloadDeployment, S!ReadDeployment)
  BY ServiceOperators, CoversAs, CoversIn, CoversBoth, CoversLeft, HasAs,
         HasMerge
     DEF S!UpdatePayloadDeployment, S!CreatePayloadDeployment,
            S!ReadDeployment
<1>2. Covers(S!UpdatePayloadPlacement @@ ServiceReverted, S!ReadPlacement)
  BY ServiceOperators, CoversAs, CoversIn, CoversBoth, CoversLeft, HasAs,
         HasMerge
     DEF S!UpdatePayloadPlacement, ServiceReverted, S!ReadPlacement
<1>3. Covers(S!UpdatePayloadTask @@ (ServiceNames @@ ServiceReverted),
             S!ReadTask)
  BY ServiceOperators, CoversAs, CoversIn, CoversBoth, CoversLeft, HasAs,
         HasMerge
     DEF S!UpdatePayloadTask, ServiceNames, ServiceReverted, S!ReadTask
<1> DEFINE all == S!UpdatePayload @@ (ServiceNames @@ ServiceReverted)
<1>4. /\ Covers(all, S!UpdatePayloadDeployment)
      /\ Covers(all, S!UpdatePayloadPlacement @@ ServiceReverted)
      /\ Covers(all, S!UpdatePayloadTask @@ (ServiceNames @@ ServiceReverted))
  BY ServiceOperators, CoversSelf, CoversBoth, CoversLeft
     DEF S!UpdatePayload
<1>5. /\ Covers(all, S!ReadDeployment) /\ Covers(all, S!ReadPlacement)
      /\ Covers(all, S!ReadTask)
  BY <1>1, <1>2, <1>3, <1>4 DEF Covers
<1> HIDE DEF all
<1>6. Covers(all, S!Read)
  BY <1>5, ServiceOperators, CoversBoth
     DEF S!Read
<1> QED
  BY <1>6 DEF all

LEMMA ServiceUpdateChecked == CutOnlyAt(S!UpdatePayload, {})
<1>1. CutOnlyAt(S!UpdatePayloadDeployment, {})
  BY ServiceOperators, CutAs, CutIn, CutMerge
     DEF S!UpdatePayloadDeployment, S!CreatePayloadDeployment
<1>2. CutOnlyAt(S!UpdatePayloadPlacement, {})
  BY ServiceOperators, CutAs, CutIn, CutMerge
     DEF S!UpdatePayloadPlacement
<1>3. CutOnlyAt(S!UpdatePayloadConnect, {})
  BY ServiceOperators, CutAs, CutIn, CutMerge
     DEF S!UpdatePayloadConnect, S!CreatePayloadConnect
<1>4. CutOnlyAt(S!UpdatePayloadTask, {})
  BY ServiceOperators, CutAs, CutIn, CutMerge
     DEF S!UpdatePayloadTask
<1>5. CutOnlyAt(S!UpdatePayloadVolumes, {})
  BY ServiceOperators, CutAs, CutIn, CutMerge
     DEF S!UpdatePayloadVolumes, S!CreatePayloadVolumes
<1> QED
  BY <1>1, <1>2, <1>3, <1>4, <1>5, ServiceOperators, CutMerge
     DEF S!UpdatePayload

LEMMA ClusterUpdateReply == Covers(C!UpdatePayload @@ ClusterNames, C!Read)
BY ClusterOperators, CoversAs, CoversIn, CoversBoth, CoversLeft, HasAs,
       HasMerge
   DEF C!UpdatePayload, C!UpdateClusterPayload, C!PutPayload, C!SyncedTags,
          ClusterNames, C!Read

\* PutClusterCapacityProviders is given its numbers without a check.
LEMMA ClusterUpdateChecked == CutOnlyAt(C!UpdatePayload, Unchecked["Cluster"])
<1>1. CutOnlyAt(C!UpdateClusterPayload, Unchecked["Cluster"])
  BY ClusterOperators, CutAs, CutIn, CutMerge
     DEF C!UpdateClusterPayload
<1>2. CutOnlyAt(C!PutPayload, Unchecked["Cluster"])
  <2>1. CutOnlyAt(As("optional", {"CapacityProvider"})
                  @@ As("cut", {"Base", "Weight"}), Paths({"Base", "Weight"}))
    BY CutAs, CutMerge
  <2>2. CutOnlyAt(In("DefaultCapacityProviderStrategy",
                     As("optional", {"CapacityProvider"})
                     @@ As("cut", {"Base", "Weight"})), Unchecked["Cluster"])
    BY <2>1, CutInAt DEF Unchecked
  <2> QED
    BY <2>2, ClusterOperators, CutAs, CutMerge
       DEF C!PutPayload
<1>3. CutOnlyAt(C!SyncedTags, Unchecked["Cluster"])
  BY ClusterOperators, CutAs, CutIn, CutMerge
     DEF C!SyncedTags
<1> QED
  BY <1>1, <1>2, <1>3, ClusterOperators, CutMerge
     DEF C!UpdatePayload

LEMMA CapacityProviderUpdateReply ==
    Covers(CP!UpdatePayload @@ CapacityProviderReverted, CP!UpdateMerge)
<1>1. Covers(CP!UpdatePayloadGroup, CP!UpdateMergeGroup)
  BY CapacityProviderOperators, CoversAs, CoversIn, CoversBoth, CoversLeft,
         HasAs, HasMerge
     DEF CP!UpdatePayloadGroup, CP!UpdateMergeGroup
<1>2. Covers(CP!UpdatePayloadInstancesC @@ CapacityProviderReverted,
             CP!UpdateMergeInstancesC)
  BY CapacityProviderOperators, CoversAs, CoversIn, CoversBoth, CoversLeft,
         HasAs, HasMerge
     DEF CP!UpdatePayloadInstancesC, CapacityProviderReverted,
            CP!UpdateMergeInstancesC
<1> DEFINE all == CP!UpdatePayload @@ CapacityProviderReverted
<1>3. /\ Covers(all, CP!UpdatePayloadGroup)
      /\ Covers(all, CP!UpdatePayloadInstancesC @@ CapacityProviderReverted)
  BY CapacityProviderOperators, CoversSelf, CoversBoth, CoversLeft
     DEF CP!UpdatePayload
<1>4. Covers(all, CP!UpdateMergeGroup) /\ Covers(all, CP!UpdateMergeInstancesC)
  BY <1>1, <1>2, <1>3 DEF Covers
<1> HIDE DEF all
<1>5. Covers(all, CP!UpdateMerge)
  BY <1>4, CapacityProviderOperators, CoversBoth
     DEF CP!UpdateMerge
<1> QED
  BY <1>5 DEF all

LEMMA CapacityProviderUpdateChecked == CutOnlyAt(CP!UpdatePayload, {})
<1>1. CutOnlyAt(CP!UpdatePayloadGroup, {})
  BY CapacityProviderOperators, CutAs, CutIn, CutMerge
     DEF CP!UpdatePayloadGroup
<1>2. CutOnlyAt(CP!UpdatePayloadInstancesA, {})
  BY CapacityProviderOperators, CutAs, CutIn, CutMerge
     DEF CP!UpdatePayloadInstancesA
<1>3. CutOnlyAt(CP!UpdatePayloadInstancesB, {})
  BY CapacityProviderOperators, CutAs, CutIn, CutMerge
     DEF CP!UpdatePayloadInstancesB, CP!CreatePayloadInstancesB
<1>4. CutOnlyAt(CP!UpdatePayloadInstancesC, {})
  BY CapacityProviderOperators, CutAs, CutIn, CutMerge
     DEF CP!UpdatePayloadInstancesC
<1> QED
  BY <1>1, <1>2, <1>3, <1>4, CapacityProviderOperators, CutMerge
     DEF CP!UpdatePayload

-----------------------------------------------------------------------------
(* What holds of all kinds *)

LEMMA KindsAre ==
    Kinds = {"TaskDefinition", "Service", "Cluster", "CapacityProvider"}
BY DEF Kinds, Type

\* What the reply of sdkCreate puts into the spec has been in the request.
LEMMA CreateReply ==
    ASSUME NEW k \in Kinds, NEW f \in DOMAIN CreateMerge[k]
    PROVE  f \in DOMAIN CreatePayload[k]
<1>1. CASE k = "TaskDefinition"
  BY <1>1, TaskDefinitionReply, SameCopies
     DEF Covers, CreateMerge, CreatePayload
<1>2. CASE k = "Service"
  BY <1>2, ServiceReply, SameCopies DEF Covers, CreateMerge, CreatePayload
<1>3. CASE k = "Cluster"
  BY <1>3, ClusterReply, SameCopies DEF Covers, CreateMerge, CreatePayload
<1>4. CASE k = "CapacityProvider"
  BY <1>4, CapacityProviderReply, SameCopies
     DEF Covers, CreateMerge, CreatePayload
<1> QED
  BY <1>1, <1>2, <1>3, <1>4, KindsAre

\* What the reply of sdkUpdate puts into the spec has been in the request, but
\* for the names and the fields of Reverted.
LEMMA UpdateReply ==
    ASSUME NEW k \in Kinds, NEW f \in DOMAIN UpdateMerge[k]
    PROVE  \/ f \in DOMAIN UpdatePayload[k]
           \/ Within(f, Fixed[k])
           \/ Within(f, Reverted[k])
<1>1. CASE k = "TaskDefinition"
  BY <1>1, TaskDefinitionReply, TaskDefinitionUpdate
     DEF Covers, UpdateMerge, UpdatePayload
<1>2. CASE k = "Service"
  <2>1. AllWithin(ServiceNames, Fixed[k])
    BY <1>2, AllWithinAs, HasPath DEF ServiceNames, Fixed
  <2>2. AllWithin(ServiceReverted, Reverted[k])
    BY <1>2, AllWithinAs, AllWithinIn, AllWithinMerge, CutAs, HasPath
       DEF ServiceReverted, Reverted
  <2>3. f \in DOMAIN S!Read /\ UpdatePayload[k] = S!UpdatePayload
    BY <1>2, SameCopies DEF UpdateMerge, UpdatePayload
  <2>4. \/ f \in DOMAIN S!UpdatePayload
        \/ f \in DOMAIN (ServiceNames @@ ServiceReverted)
    BY <2>3, ServiceUpdateReply, CoveredApart
  <2>5. f \in DOMAIN (ServiceNames @@ ServiceReverted) =>
            f \in DOMAIN ServiceNames \/ f \in DOMAIN ServiceReverted
    BY DomainOfMerge
  <2> QED
    BY <2>1, <2>2, <2>3, <2>4, <2>5 DEF AllWithin
<1>3. CASE k = "Cluster"
  <2>1. AllWithin(ClusterNames, Fixed[k])
    BY <1>3, AllWithinAs, HasPath DEF ClusterNames, Fixed
  <2>2. f \in DOMAIN C!Read /\ UpdatePayload[k] = C!UpdatePayload
    BY <1>3, SameCopies DEF UpdateMerge, UpdatePayload
  <2>3. f \in DOMAIN C!UpdatePayload \/ f \in DOMAIN ClusterNames
    BY <2>2, ClusterUpdateReply, CoveredApart
  <2> QED
    BY <2>1, <2>2, <2>3 DEF AllWithin
<1>4. CASE k = "CapacityProvider"
  <2>1. AllWithin(CapacityProviderReverted, Reverted[k])
    BY <1>4, AllWithinIn, CutAs DEF CapacityProviderReverted, Reverted
  <2>2. /\ f \in DOMAIN CP!UpdateMerge
        /\ UpdatePayload[k] = CP!UpdatePayload
    BY <1>4 DEF UpdateMerge, UpdatePayload
  <2>3. f \in DOMAIN CP!UpdatePayload \/ f \in DOMAIN CapacityProviderReverted
    BY <2>2, CapacityProviderUpdateReply, CoveredApart
  <2> QED
    BY <2>1, <2>2, <2>3 DEF AllWithin
<1> QED
  BY <1>1, <1>2, <1>3, <1>4, KindsAre

\* Only sdkUpdate of a cluster converts a number without checking its width.
LEMMA WidthsChecked ==
    ASSUME NEW k \in Kinds
    PROVE  /\ CutOnlyAt(CreatePayload[k], {})
           /\ CutOnlyAt(UpdatePayload[k], Unchecked[k])
<1>1. CASE k = "TaskDefinition"
  BY <1>1, TaskDefinitionChecked, TaskDefinitionUpdate
     DEF CutOnlyAt, CreatePayload, UpdatePayload
<1>2. CASE k = "Service"
  BY <1>2, ServiceChecked, ServiceUpdateChecked
     DEF CutOnlyAt, CreatePayload, UpdatePayload
<1>3. CASE k = "Cluster"
  BY <1>3, ClusterChecked, ClusterUpdateChecked
     DEF CutOnlyAt, CreatePayload, UpdatePayload
<1>4. CASE k = "CapacityProvider"
  BY <1>4, CapacityProviderChecked, CapacityProviderUpdateChecked
     DEF CutOnlyAt, CreatePayload, UpdatePayload
<1> QED
  BY <1>1, <1>2, <1>3, <1>4, KindsAre

-----------------------------------------------------------------------------
(* The four functions of references.go *)

LEMMA ServiceReferences ==
    ASSUME NEW f \in ServiceSpecReferences
    PROVE  /\ f \in S!ResolveReferences
           /\ f \in S!validateReferenceFields
           /\ f \in S!ClearResolvedReferences
           /\ \/ Len(f) = 1
              \/ f \in S!EnsureReferences
              \/ Within(f, ListReferences["Service"])
<1>1. f \in S!validateReferenceFields /\ f \in S!ClearResolvedReferences
  BY ServiceOperators
     DEF ServiceSpecReferences, S!validateReferenceFields,
         S!ClearResolvedReferences
<1>2. f \in S!ResolveReferences
  <2>1. S!ResolveReferences =
             Paths({"Cluster"})
        \cup Below("LoadBalancers", Paths({"LoadBalancerName"}))
        \cup Below("LoadBalancers", Paths({"TargetGroupARN"}))
        \cup Below("NetworkConfiguration",
                   Below("AWSVPCConfiguration", Paths({"SecurityGroups"})))
        \cup Below("NetworkConfiguration",
                   Below("AWSVPCConfiguration", Paths({"Subnets"})))
        \cup Paths({"Role"}) \cup Paths({"TaskDefinition"})
    BY ServiceOperators
       DEF S!ResolveReferences, S!resolveReferenceForCluster,
           S!resolveReferenceForLoadBalancers_LoadBalancerName,
           S!resolveReferenceForLoadBalancers_TargetGroupARN,
           S!resolveReferenceForNetworkConfiguration_AWSVPCConfiguration_SecurityGroups,
           S!resolveReferenceForNetworkConfiguration_AWSVPCConfiguration_Subnets,
           S!resolveReferenceForRole, S!resolveReferenceForTaskDefinition
  <2>2. Paths({"Cluster", "Role", "TaskDefinition"}) \subseteq
        Paths({"Cluster"}) \cup Paths({"Role"}) \cup Paths({"TaskDefinition"})
    BY DEF Paths
  <2>3. Below("LoadBalancers", Paths({"LoadBalancerName", "TargetGroupARN"}))
        \subseteq    Below("LoadBalancers", Paths({"LoadBalancerName"}))
                \cup Below("LoadBalancers", Paths({"TargetGroupARN"}))
    BY PathsApart, BelowApart
  <2>4. Below("AWSVPCConfiguration", Paths({"SecurityGroups", "Subnets"}))
        \subseteq    Below("AWSVPCConfiguration", Paths({"SecurityGroups"}))
                \cup Below("AWSVPCConfiguration", Paths({"Subnets"}))
    BY PathsApart, BelowApart
  <2>5. Below("NetworkConfiguration",
              Below("AWSVPCConfiguration", Paths({"SecurityGroups", "Subnets"})))
        \subseteq    Below("NetworkConfiguration",
                           Below("AWSVPCConfiguration", Paths({"SecurityGroups"})))
                \cup Below("NetworkConfiguration",
                           Below("AWSVPCConfiguration", Paths({"Subnets"})))
    BY <2>4, BelowApart
  <2> QED
    BY <2>1, <2>2, <2>3, <2>5 DEF ServiceSpecReferences
<1>3. \/ f \in Paths({"Cluster", "Role", "TaskDefinition"})
      \/ f \in Below("LoadBalancers",
                     Paths({"LoadBalancerName", "TargetGroupARN"}))
      \/ f \in S!EnsureReferences
  BY ServiceOperators DEF ServiceSpecReferences, S!EnsureReferences
<1>4. ASSUME f \in Below("LoadBalancers",
                         Paths({"LoadBalancerName", "TargetGroupARN"}))
      PROVE  Within(f, ListReferences["Service"])
  <2>1. PICK g \in Paths({"LoadBalancerName", "TargetGroupARN"}) :
            f = <<"LoadBalancers">> \o g
    BY <1>4 DEF Below
  <2>2. IsPath(g)
    BY OneStep DEF Paths
  <2> QED
    BY <2>1, <2>2, WithinParent DEF ListReferences
<1>5. f \in Paths({"Cluster", "Role", "TaskDefinition"}) => Len(f) = 1
  BY OneStep DEF Paths
<1> QED
  BY <1>1, <1>2, <1>3, <1>4, <1>5

LEMMA CapacityProviderReferences ==
    ASSUME NEW f \in CapacityProviderSpecReferences
    PROVE  /\ f \in CP!ResolveReferences
           /\ f \in CP!validateReferenceFields
           /\ f \in CP!ClearResolvedReferences
           /\ Len(f) = 1 \/ f \in CP!EnsureReferences
<1> DEFINE groups  == Below("NetworkConfiguration", Paths({"SecurityGroups"}))
           subnets == Below("NetworkConfiguration", Paths({"Subnets"}))
           both    == Below("NetworkConfiguration",
                            Paths({"SecurityGroups", "Subnets"}))
           profile == Paths({"EC2InstanceProfileARN"})
           role    == Paths({"InfrastructureRoleARN"})
           inTemplate(paths) == Below("InstanceLaunchTemplate", paths)
           inProvider(paths) == Below("ManagedInstancesProvider", paths)
<1>1. f \in CP!validateReferenceFields /\ f \in CP!ClearResolvedReferences
  BY CapacityProviderOperators
     DEF CapacityProviderSpecReferences, CP!validateReferenceFields,
         CP!ClearResolvedReferences
<1>2. f \in CP!ResolveReferences
  <2>1. CP!ResolveReferences =
             Below("AutoScalingGroupProvider", Paths({"AutoScalingGroupARN"}))
        \cup Paths({"Cluster"})
        \cup inProvider(role)
        \cup inProvider(inTemplate(profile))
        \cup inProvider(inTemplate(groups))
        \cup inProvider(inTemplate(subnets))
    BY CapacityProviderOperators
       DEF CP!ResolveReferences, CP!resolveReferenceForCluster,
           CP!resolveReferenceForAutoScalingGroupProvider_AutoScalingGroupARN,
           CP!resolveReferenceForManagedInstancesProvider_InfrastructureRoleARN,
           CP!resolveReferenceForManagedInstancesProvider_InstanceLaunchTemplate_EC2InstanceProfileARN,
           CP!resolveReferenceForManagedInstancesProvider_InstanceLaunchTemplate_NetworkConfiguration_SecurityGroups,
           CP!resolveReferenceForManagedInstancesProvider_InstanceLaunchTemplate_NetworkConfiguration_Subnets
  <2>2. CapacityProviderSpecReferences =
             Paths({"Cluster"})
        \cup Below("AutoScalingGroupProvider", Paths({"AutoScalingGroupARN"}))
        \cup inProvider(role \cup inTemplate(profile \cup both))
    BY DEF CapacityProviderSpecReferences
  <2>3. both \subseteq groups \cup subnets
    BY PathsApart, BelowApart
  <2> HIDE DEF groups, subnets, both, profile, role
  <2>4. inTemplate(profile \cup both) \subseteq
        inTemplate(profile) \cup inTemplate(both)
    BY BelowApart
  <2>5. inTemplate(both) \subseteq inTemplate(groups) \cup inTemplate(subnets)
    BY <2>3, BelowApart
  <2> HIDE DEF inTemplate
  <2>6. inProvider(role \cup inTemplate(profile \cup both)) \subseteq
        inProvider(role) \cup inProvider(inTemplate(profile \cup both))
    BY BelowApart
  <2>7. inProvider(inTemplate(profile \cup both)) \subseteq
        inProvider(inTemplate(profile)) \cup inProvider(inTemplate(both))
    BY <2>4, BelowApart
  <2>8. inProvider(inTemplate(both)) \subseteq
        inProvider(inTemplate(groups)) \cup inProvider(inTemplate(subnets))
    BY <2>5, BelowApart
  <2> HIDE DEF inProvider
  <2> QED
    BY <2>1, <2>2, <2>6, <2>7, <2>8
<1>3. f \in Paths({"Cluster"}) \/ f \in CP!EnsureReferences
  BY CapacityProviderOperators
     DEF CapacityProviderSpecReferences, CP!EnsureReferences
<1>4. f \in Paths({"Cluster"}) => Len(f) = 1
  BY OneStep DEF Paths
<1> QED
  BY <1>1, <1>2, <1>3, <1>4

\* A reference is resolved, excludes a value next to it, and takes the value out
\* of the spec again; and it is restored, unless it stands at the top of the spec
\* or in a list.
LEMMA ReferencesHandled ==
    ASSUME NEW k \in Kinds, NEW f \in References[k]
    PROVE  /\ f \in ResolveReferences[k]
           /\ f \in validateReferenceFields[k]
           /\ f \in ClearResolvedReferences[k]
           /\ \/ Len(f) = 1
              \/ f \in EnsureReferences[k]
              \/ Within(f, ListReferences[k])
<1>1. CASE k = "TaskDefinition"
  <2>1. f \in Paths({"ExecutionRoleARN"}) \cup Paths({"TaskRoleARN"})
    BY <1>1, PathsApart DEF References, TaskDefinitionSpecReferences
  <2>2. f \in TD!ResolveReferences
    BY <2>1, TaskDefinitionOperators
       DEF TD!ResolveReferences, TD!resolveReferenceForExecutionRoleARN,
           TD!resolveReferenceForTaskRoleARN
  <2>3. f \in TD!validateReferenceFields /\ f \in TD!ClearResolvedReferences
    BY <1>1, TaskDefinitionOperators
       DEF References, TaskDefinitionSpecReferences,
           TD!validateReferenceFields, TD!ClearResolvedReferences
  <2>4. Len(f) = 1
    BY <2>1, OneStep DEF Paths
  <2> QED
    BY <1>1, <2>2, <2>3, <2>4
       DEF ResolveReferences, validateReferenceFields, ClearResolvedReferences
<1>2. CASE k = "Service"
  BY <1>2, ServiceReferences
     DEF References, ResolveReferences, validateReferenceFields,
         ClearResolvedReferences, EnsureReferences
<1>3. CASE k = "Cluster"
  <2>1. f \in Paths({"CapacityProviders"})
    BY <1>3 DEF References, ClusterSpecReferences
  <2>2. /\ f \in C!ResolveReferences /\ f \in C!validateReferenceFields
        /\ f \in C!ClearResolvedReferences
    BY <2>1, ClusterOperators
       DEF C!ResolveReferences, C!resolveReferenceForCapacityProviders,
           C!validateReferenceFields, C!ClearResolvedReferences
  <2>3. Len(f) = 1
    BY <2>1, OneStep DEF Paths
  <2> QED
    BY <1>3, <2>2, <2>3
       DEF ResolveReferences, validateReferenceFields, ClearResolvedReferences
<1>4. CASE k = "CapacityProvider"
  BY <1>4, CapacityProviderReferences
     DEF References, ResolveReferences, validateReferenceFields,
         ClearResolvedReferences, EnsureReferences
<1> QED
  BY <1>1, <1>2, <1>3, <1>4, KindsAre

-----------------------------------------------------------------------------
(* The values stay in their sets *)

\* One of the fields that take a turn, and what its variables may hold.
Types ==
    /\ field \in Fields
    /\ spec \in Values(kind, path)
    /\ ref \in Refs(kind, path)
    /\ ecs \in Values(kind, path) \cup {Missing}

LEMMA FieldOf ==
    ASSUME field \in Fields
    PROVE  /\ kind \in Kinds /\ path \in DOMAIN Type[kind]
           /\ ~Within(path, Fixed[kind])
BY DEF Fields, kind, path

LEMMA Residues ==
    0 % Range32 = 0 /\ 1 % Range32 = 1 /\ TooLarge % Range32 = 1
<1>1. Range32 \in Nat /\ Range32 > 1
  BY ConstantsAssumption DEF Range32
<1>2. \A K \in Nat : K > 1 => 0 % K = 0 /\ 1 % K = 1 /\ (K + 1) % K = 1
  OBVIOUS
<1> QED
  BY <1>1, <1>2 DEF TooLarge

LEMMA SentInValues ==
    ASSUME NEW k, NEW f, NEW v \in Values(k, f), NEW table, NEW g
    PROVE  Sent(table, g, v) \in Values(k, f)
BY Residues DEF Sent, Values

\* What is set comes through a table that has the field; only a number that does
\* not fit is cut.
LEMMA SentAsItIs ==
    ASSUME NEW k, NEW f, NEW v \in Values(k, f), v # Nil,
           NEW table, NEW g \in DOMAIN table,
           table[g] = "cut" => v # TooLarge
    PROVE  Sent(table, g, v) = v
BY Residues DEF Sent, Values

LEMMA DefaultsInValues ==
    ASSUME NEW v \in Defaults
    PROVE  v \in Values(kind, path)
BY DEF Defaults, Values

LEMMA DesiredInValues ==
    ASSUME Types
    PROVE  Desired \in Values(kind, path)
BY DEF Types, Desired, Refs, Values

\* A patch writes nothing into the spec but what is there or the reply.
LEMMA WriteBackTypes ==
    ASSUME Types, NEW table, NEW same \in BOOLEAN,
           NEW reply \in Values(kind, path), WriteBack(table, reply, same)
    PROVE  spec' \in Values(kind, path) /\ ref' \in Refs(kind, path)
<1>1. spec' \in {Nil, Desired, reply}
  BY DEF WriteBack, Copied
<1>2. ref' \in {Nil, ref}
  BY DEF WriteBack
<1>3. Nil \in Values(kind, path) /\ Nil \in Refs(kind, path)
  BY DEF Values, Refs
<1> QED
  BY <1>1, <1>2, <1>3, DesiredInValues DEF Types

\* What ECS has after a call.
LEMMA CreateReplies ==
    ASSUME Types, Create
    PROVE  ecs' \in Values(kind, path)
<1>1. Sent(CreatePayload[kind], path, Desired) \in Values(kind, path)
  BY DesiredInValues, SentInValues
<1>2. ecs' \in Defaults \cup {Sent(CreatePayload[kind], path, Desired)}
  BY DEF Create
<1> QED
  BY <1>1, <1>2, DefaultsInValues

LEMMA UpdateReplies ==
    ASSUME Types, ecs # Missing, NEW other \in BOOLEAN, Update(other)
    PROVE  ecs' \in Values(kind, path)
<1>1. Sent(UpdatePayload[kind], path, Desired) \in Values(kind, path)
  BY DesiredInValues, SentInValues
<1>2. ecs' \in Defaults \cup {ecs, Sent(UpdatePayload[kind], path, Desired)}
  BY DEF Update
<1>3. ecs \in Values(kind, path)
  BY DEF Types
<1> QED
  BY <1>1, <1>2, <1>3, DefaultsInValues

LEMMA TypesStep ==
    ASSUME Types, [Next]_vars
    PROVE  Types'
<1> SUFFICES ASSUME field' = field
             PROVE  /\ spec' \in Values(kind, path) /\ ref' \in Refs(kind, path)
                    /\ ecs' \in Values(kind, path) \cup {Missing}
  <2>1. field' = field
    BY DEF Next, Create, Reconcile, UserEdits, ReferenceChanges, Drift,
           OtherFieldDiffers, vars
  <2> QED
    BY <2>1 DEF Types, kind, path
<1>1. CASE Create
  <2>1. WriteBack(CreateMerge[kind], ecs', FALSE)
    BY <1>1 DEF Create
  <2> QED
    BY <1>1, <2>1, CreateReplies, WriteBackTypes
<1>2. ASSUME NEW other \in BOOLEAN, ecs # Missing, Update(other)
      PROVE  /\ spec' \in Values(kind, path) /\ ref' \in Refs(kind, path)
             /\ ecs' \in Values(kind, path)
  <2>1. WriteBack(UpdateMerge[kind], ecs',
                  kind = "Cluster" /\ ~CallsUpdateCluster(other))
    BY <1>2 DEF Update
  <2>2. (kind = "Cluster" /\ ~CallsUpdateCluster(other)) \in BOOLEAN
    OBVIOUS
  <2> QED
    BY <1>2, <2>1, <2>2, UpdateReplies, WriteBackTypes
<1>3. CASE Reconcile
  BY <1>2, <1>3 DEF Reconcile, Types
<1>4. CASE UserEdits
  BY <1>4 DEF UserEdits, Types, Values, Refs
<1>5. CASE ReferenceChanges
  BY <1>5 DEF ReferenceChanges, Types
<1>6. CASE Drift
  BY <1>6, DefaultsInValues DEF Drift, Types
<1>7. CASE OtherFieldDiffers
  BY <1>2, <1>7 DEF OtherFieldDiffers
<1>8. CASE UNCHANGED vars
  BY <1>8 DEF vars, Types
<1> QED
  BY <1>1, <1>3, <1>4, <1>5, <1>6, <1>7, <1>8 DEF Next

\* The field is one of the API types, and every value is one that it can have.
THEOREM Typed == Spec => []Types
<1>1. Init => Types
  BY DEF Init, Types, kind, path
<1> QED
  BY <1>1, TypesStep, PTL DEF Spec

-----------------------------------------------------------------------------
(* What the user wrote *)

\* A reference that can be resolved has no value next to it.
LEMMA ReferenceAlone ==
    ASSUME Types, Resolvable, ref # Nil
    PROVE  /\ path \in References[kind] /\ spec = Nil
           /\ Desired = ref
<1>1. path \in References[kind]
  BY DEF Types, Refs
<1> QED
  BY <1>1, FieldOf, ReferencesHandled DEF Types, Resolvable, Desired

\* The patch keeps a reference outside lists.
LEMMA ReferenceKept ==
    ASSUME Types, Resolvable, ref # Nil,
           NEW table, NEW reply, NEW same, WriteBack(table, reply, same)
    PROVE  \/ ref' = ref /\ spec' = spec
           \/ Except(ListReferences)
<1>1. path \in References[kind] /\ spec = Nil
  BY ReferenceAlone
<1>2. /\ path \in ClearResolvedReferences[kind]
      /\ \/ Len(path) = 1
         \/ path \in EnsureReferences[kind]
         \/ Within(path, ListReferences[kind])
  BY <1>1, FieldOf, ReferencesHandled DEF Types
<1> QED
  BY <1>1, <1>2 DEF WriteBack, SurvivesCopy, Except

\* The patch keeps a value that the reply has not changed.
LEMMA ValueKept ==
    ASSUME Types, Resolvable, spec # Nil,
           NEW table, NEW reply, NEW same, WriteBack(table, reply, same),
           path \in DOMAIN table /\ ~same => reply = spec
    PROVE  spec' = spec
<1>1. ref = Nil
  BY ReferenceAlone
<1> QED
  BY <1>1 DEF WriteBack, Copied, Desired

LEMMA CreateKeeps ==
    ASSUME Types, Create
    PROVE  /\ spec # Nil => spec' = spec
           /\ ref # Nil => (ref' = ref /\ spec' = spec) \/ Except(ListReferences)
<1>1. Resolvable /\ WriteBack(CreateMerge[kind], ecs', FALSE)
  BY DEF Create
<1>2. ASSUME spec # Nil, path \in DOMAIN CreateMerge[kind]
      PROVE  ecs' = spec
  <2>1. Desired = spec
    BY <1>1, <1>2, ReferenceAlone DEF Desired
  <2>2. path \in DOMAIN CreatePayload[kind] /\ CreatePayload[kind][path] # "cut"
    BY <1>2, FieldOf, CreateReply, WidthsChecked DEF Types, CutOnlyAt
  <2>3. Sent(CreatePayload[kind], path, spec) = spec
    BY <1>2, <2>2, SentAsItIs DEF Types
  <2> QED
    BY <1>2, <2>1, <2>3 DEF Create
<1> QED
  BY <1>1, <1>2, ReferenceKept, ValueKept

LEMMA UpdateKeeps ==
    ASSUME Types, NEW other, Update(other)
    PROVE  /\ \/ spec # Nil => spec' = spec
              \/ Except(Reverted)
              \/ Except(Unchecked) /\ spec = TooLarge
           /\ ref # Nil => (ref' = ref /\ spec' = spec) \/ Except(ListReferences)
<1> DEFINE same == kind = "Cluster" /\ ~CallsUpdateCluster(other)
<1>1. Resolvable /\ WriteBack(UpdateMerge[kind], ecs', same)
  BY DEF Update
<1> HIDE DEF same
<1>2. ASSUME spec # Nil, path \in DOMAIN UpdateMerge[kind],
             ~Except(Reverted), ~(Except(Unchecked) /\ spec = TooLarge)
      PROVE  ecs' = spec
  <2>1. Desired = spec
    BY <1>1, <1>2, ReferenceAlone DEF Desired
  <2>2. path \in DOMAIN UpdatePayload[kind]
    BY <1>2, FieldOf, UpdateReply DEF Types, Except
  <2>3. UpdatePayload[kind][path] = "cut" => spec # TooLarge
    <3>1. /\ IsPath(path)
          /\ UpdatePayload[kind][path] = "cut" => path \in Unchecked[kind]
      BY <2>2, FieldOf, WidthsChecked DEF Types, CutOnlyAt
    <3> QED
      BY <1>2, <3>1, WithinSelf DEF Except
  <2>4. Sent(UpdatePayload[kind], path, spec) = spec
    BY <1>2, <2>2, <2>3, SentAsItIs DEF Types
  <2> QED
    BY <1>2, <2>1, <2>4 DEF Update
<1> QED
  BY <1>1, <1>2, ReferenceKept, ValueKept

\* The controller keeps what the user wrote: no create and no update replaces a
\* value that is set or a reference, whatever ECS replies.
THEOREM WhatTheUserWroteStays == Spec => UserValueKept
<1> DEFINE Keeps ==
        /\ \/ spec # Nil => spec' = spec
           \/ Except(Reverted)
           \/ Except(Unchecked) /\ spec = TooLarge
        /\ \/ ref # Nil => ref' = ref /\ spec' = spec
           \/ Except(ListReferences)
<1>1. ASSUME Types, Create  PROVE Keeps
  BY <1>1, CreateKeeps
<1>2. ASSUME Types, NEW other, Update(other)  PROVE Keeps
  BY <1>2, UpdateKeeps
<1>3. ASSUME Types, Reconcile  PROVE Keeps
  <2>1. CASE Update(FALSE)
    BY <1>2, <1>3, <2>1
  <2>2. CASE UNCHANGED <<spec, ref, ecs>>
    BY <2>2
  <2> QED
    BY <1>3, <2>1, <2>2 DEF Reconcile
<1>4. ASSUME Types, OtherFieldDiffers  PROVE Keeps
  BY <1>2, <1>4 DEF OtherFieldDiffers
<1>5. Types /\ [Next]_vars =>
          [Create \/ Reconcile \/ OtherFieldDiffers => Keeps]_vars
  BY <1>1, <1>3, <1>4
<1> QED
  BY <1>5, Typed, PTL DEF Spec, UserValueKept

-----------------------------------------------------------------------------
(* sdkFind reads every field but those of NotRead *)

TaskDefinitionNotRead == In("Tags", Tag)

ServiceNotRead ==
       As("other", {"Cluster", "Role"})
    @@ In("ServiceConnectConfiguration", ServiceConnectConfiguration)
    @@ In("VolumeConfigurations", ServiceVolumeConfiguration)

\* The struct of a container definition in four parts, as sdkFind takes it in.
ContainerA ==
       As("int", {"CPU"})
    @@ As("other", {"Command", "CredentialSpecs", "DisableNetworking",
                    "DNSSearchDomains", "DNSServers", "DockerLabels",
                    "DockerSecurityOptions", "EntryPoint", "Essential"})
    @@ In("DependsOn", ContainerDependency)
    @@ In("Environment", KeyValuePair)
    @@ In("EnvironmentFiles", EnvironmentFile)
    @@ In("ExtraHosts", HostEntry)
    @@ In("FirelensConfiguration", FirelensConfiguration)
    @@ In("HealthCheck", HealthCheck)

ContainerB ==
       As("int", {"Memory", "MemoryReservation"})
    @@ As("other", {"Hostname", "Image", "Interactive", "Links"})
    @@ In("LinuxParameters", LinuxParameters)
    @@ In("LogConfiguration", LogConfiguration)

ContainerC ==
       As("other", {"Name", "Privileged", "PseudoTerminal",
                    "ReadonlyRootFilesystem"})
    @@ In("MountPoints", MountPoint)
    @@ In("PortMappings", PortMapping)
    @@ In("RepositoryCredentials", RepositoryCredentials)
    @@ In("ResourceRequirements", ResourceRequirement)
    @@ In("Secrets", Secret)

ContainerD ==
       As("int", {"StartTimeout", "StopTimeout"})
    @@ As("other", {"User", "WorkingDirectory"})
    @@ In("SystemControls", SystemControl)
    @@ In("Ulimits", Ulimit)
    @@ In("VolumesFrom", VolumeFrom)

LEMMA ContainersRead ==
    Covers(TD!Read, In("ContainerDefinitions", ContainerDefinition))
<1>1. Covers(TD!ReadContainersA, In("ContainerDefinitions", ContainerA))
  BY TaskDefinitionOperators, CoversAs, CoversIn, CoversBoth, CoversLeft,
         HasAs, HasMerge
     DEF TD!ReadContainersA, ContainerA, ContainerDependency, KeyValuePair,
         EnvironmentFile, HostEntry, FirelensConfiguration, HealthCheck
<1>2. Covers(TD!ReadContainersB, In("ContainerDefinitions", ContainerB))
  BY TaskDefinitionOperators, CoversAs, CoversIn, CoversBoth, CoversLeft,
         HasAs, HasMerge
     DEF TD!ReadContainersB, ContainerB, LinuxParameters, KernelCapabilities,
         Device, Tmpfs, LogConfiguration, Secret
<1>3. Covers(TD!ReadContainersC, In("ContainerDefinitions", ContainerC))
  BY TaskDefinitionOperators, CoversAs, CoversIn, CoversBoth, CoversLeft,
         HasAs, HasMerge
     DEF TD!ReadContainersC, ContainerC, MountPoint, PortMapping,
         RepositoryCredentials, ResourceRequirement, Secret
<1>4. Covers(TD!ReadContainersD, In("ContainerDefinitions", ContainerD))
  BY TaskDefinitionOperators, CoversAs, CoversIn, CoversBoth, CoversLeft,
         HasAs, HasMerge
     DEF TD!ReadContainersD, ContainerD, SystemControl, Ulimit, VolumeFrom
<1> DEFINE all == (ContainerA @@ ContainerB) @@ (ContainerC @@ ContainerD)
<1>5. Covers(TD!Read, In("ContainerDefinitions", all))
  <2>1. /\ Covers(TD!Read, In("ContainerDefinitions", ContainerA))
        /\ Covers(TD!Read, In("ContainerDefinitions", ContainerB))
        /\ Covers(TD!Read, In("ContainerDefinitions", ContainerC))
        /\ Covers(TD!Read, In("ContainerDefinitions", ContainerD))
    BY <1>1, <1>2, <1>3, <1>4, TaskDefinitionOperators, CoversLeft
       DEF TD!Read
  <2> QED
    BY <2>1, CoversParts
<1>6. /\ Covers(all, ContainerA) /\ Covers(all, ContainerB)
      /\ Covers(all, ContainerC) /\ Covers(all, ContainerD)
  BY CoversSelf, CoversLeft
<1> HIDE DEF all
<1>7. Covers(all, As("int", {"CPU", "Memory", "MemoryReservation",
                             "StartTimeout", "StopTimeout"}))
  <2>1. \A n \in {"CPU"} : <<n>> \in DOMAIN all
    BY <1>6, HasAs, HasMerge DEF Covers, ContainerA
  <2>2. \A n \in {"Memory", "MemoryReservation"} : <<n>> \in DOMAIN all
    BY <1>6, HasAs, HasMerge DEF Covers, ContainerB
  <2>3. \A n \in {"StartTimeout", "StopTimeout"} : <<n>> \in DOMAIN all
    BY <1>6, HasAs, HasMerge DEF Covers, ContainerD
  <2> QED
    BY <2>1, <2>2, <2>3, CoversAs
<1>8. Covers(all, As("other", {"Command", "CredentialSpecs",
                    "DisableNetworking", "DNSSearchDomains", "DNSServers",
                    "DockerLabels", "DockerSecurityOptions", "EntryPoint",
                    "Essential", "Hostname", "Image", "Interactive", "Links",
                    "Name", "Privileged", "PseudoTerminal",
                    "ReadonlyRootFilesystem", "User", "WorkingDirectory"}))
  <2>1. \A n \in {"Command", "CredentialSpecs", "DisableNetworking",
                  "DNSSearchDomains", "DNSServers", "DockerLabels",
                  "DockerSecurityOptions", "EntryPoint", "Essential"} :
            <<n>> \in DOMAIN all
    <3>1. Covers(ContainerA,
                 As("other", {"Command", "CredentialSpecs",
                              "DisableNetworking", "DNSSearchDomains",
                              "DNSServers", "DockerLabels",
                              "DockerSecurityOptions", "EntryPoint",
                              "Essential"}))
      BY CoversLeft, CoversSelf DEF ContainerA
    <3> QED
      BY <1>6, <3>1, HasAs DEF Covers
  <2>2. \A n \in {"Hostname", "Image", "Interactive", "Links"} :
            <<n>> \in DOMAIN all
    BY <1>6, HasAs, HasMerge DEF Covers, ContainerB
  <2>3. \A n \in {"Name", "Privileged", "PseudoTerminal",
                  "ReadonlyRootFilesystem"} : <<n>> \in DOMAIN all
    BY <1>6, HasAs, HasMerge DEF Covers, ContainerC
  <2>4. \A n \in {"User", "WorkingDirectory"} : <<n>> \in DOMAIN all
    BY <1>6, HasAs, HasMerge DEF Covers, ContainerD
  <2> QED
    BY <2>1, <2>2, <2>3, <2>4, CoversAs
<1>9. /\ Covers(all, In("DependsOn", ContainerDependency))
      /\ Covers(all, In("Environment", KeyValuePair))
      /\ Covers(all, In("EnvironmentFiles", EnvironmentFile))
      /\ Covers(all, In("ExtraHosts", HostEntry))
      /\ Covers(all, In("FirelensConfiguration", FirelensConfiguration))
      /\ Covers(all, In("HealthCheck", HealthCheck))
  <2>1. /\ Covers(ContainerA, In("DependsOn", ContainerDependency))
        /\ Covers(ContainerA, In("Environment", KeyValuePair))
        /\ Covers(ContainerA, In("EnvironmentFiles", EnvironmentFile))
        /\ Covers(ContainerA, In("ExtraHosts", HostEntry))
        /\ Covers(ContainerA, In("FirelensConfiguration", FirelensConfiguration))
        /\ Covers(ContainerA, In("HealthCheck", HealthCheck))
    BY CoversLeft, CoversSelf DEF ContainerA
  <2> QED
    BY <1>6, <2>1, CoversThrough
<1>10. /\ Covers(all, In("LinuxParameters", LinuxParameters))
       /\ Covers(all, In("LogConfiguration", LogConfiguration))
  <2>1. /\ Covers(ContainerB, In("LinuxParameters", LinuxParameters))
        /\ Covers(ContainerB, In("LogConfiguration", LogConfiguration))
    BY CoversLeft, CoversSelf DEF ContainerB
  <2> QED
    BY <1>6, <2>1, CoversThrough
<1>11. /\ Covers(all, In("MountPoints", MountPoint))
       /\ Covers(all, In("PortMappings", PortMapping))
       /\ Covers(all, In("RepositoryCredentials", RepositoryCredentials))
       /\ Covers(all, In("ResourceRequirements", ResourceRequirement))
       /\ Covers(all, In("Secrets", Secret))
  <2>1. /\ Covers(ContainerC, In("MountPoints", MountPoint))
        /\ Covers(ContainerC, In("PortMappings", PortMapping))
        /\ Covers(ContainerC, In("RepositoryCredentials", RepositoryCredentials))
        /\ Covers(ContainerC, In("ResourceRequirements", ResourceRequirement))
        /\ Covers(ContainerC, In("Secrets", Secret))
    BY CoversLeft, CoversSelf DEF ContainerC
  <2> QED
    BY <1>6, <2>1, CoversThrough
<1>12. /\ Covers(all, In("SystemControls", SystemControl))
       /\ Covers(all, In("Ulimits", Ulimit))
       /\ Covers(all, In("VolumesFrom", VolumeFrom))
  <2>1. /\ Covers(ContainerD, In("SystemControls", SystemControl))
        /\ Covers(ContainerD, In("Ulimits", Ulimit))
        /\ Covers(ContainerD, In("VolumesFrom", VolumeFrom))
    BY CoversLeft, CoversSelf DEF ContainerD
  <2> QED
    BY <1>6, <2>1, CoversThrough
<1>13. Covers(all, ContainerDefinition)
  BY <1>7, <1>8, <1>9, <1>10, <1>11, <1>12, CoversBoth
     DEF ContainerDefinition
<1> QED
  BY <1>5, <1>13, CoversIn, CoversThrough

LEMMA TaskDefinitionRead ==
    Covers(TD!Read @@ TaskDefinitionNotRead, TaskDefinitionSpec)
<1> DEFINE all == TD!Read @@ TaskDefinitionNotRead
<1>1. Covers(TD!ReadTaskA @@ TD!ReadTaskB,
             As("other", {"CPU", "ExecutionRoleARN", "Family", "IPCMode",
                          "Memory", "NetworkMode", "PIDMode",
                          "RequiresCompatibilities", "TaskRoleARN"}))
  BY TaskDefinitionOperators, CoversAs, HasAs, HasMerge
     DEF TD!ReadTaskA, TD!ReadTaskB
<1>2. /\ Covers(TD!ReadTaskA, In("EphemeralStorage", EphemeralStorage))
      /\ Covers(TD!ReadTaskA, In("InferenceAccelerators", InferenceAccelerator))
      /\ Covers(TD!ReadTaskA, In("PlacementConstraints",
                                 TaskDefinitionPlacementConstraint))
  BY TaskDefinitionOperators, CoversAs, CoversIn, CoversLeft, HasAs
     DEF TD!ReadTaskA, EphemeralStorage, InferenceAccelerator,
         TaskDefinitionPlacementConstraint
<1>3. /\ Covers(TD!ReadTaskB, In("ProxyConfiguration", ProxyConfiguration))
      /\ Covers(TD!ReadTaskB, In("RuntimePlatform", RuntimePlatform))
  BY TaskDefinitionOperators, CoversAs, CoversIn, CoversBoth, CoversLeft, HasAs
     DEF TD!ReadTaskB, ProxyConfiguration, KeyValuePair, RuntimePlatform
<1>4. Covers(TD!ReadVolumes, In("Volumes", Volume))
  BY TaskDefinitionOperators, CoversAs, CoversIn, CoversBoth, CoversLeft,
         HasAs, HasMerge
     DEF TD!ReadVolumes, Volume, DockerVolumeConfiguration,
         EFSVolumeConfiguration, EFSAuthorizationConfig,
         FSxWindowsFileServerVolumeConfiguration,
         FSxWindowsFileServerAuthorizationConfig, HostVolumeProperties
<1>5. /\ Covers(all, TD!Read) /\ Covers(all, In("Tags", Tag))
      /\ Covers(TD!Read, TD!ReadTaskA @@ TD!ReadTaskB)
      /\ Covers(TD!Read, TD!ReadTaskA) /\ Covers(TD!Read, TD!ReadTaskB)
      /\ Covers(TD!Read, TD!ReadVolumes)
  BY TaskDefinitionOperators, CoversSelf, CoversBoth, CoversLeft
     DEF TD!Read, TaskDefinitionNotRead
<1> HIDE DEF all
<1>6. Covers(all, TaskDefinitionSpec)
  BY <1>1, <1>2, <1>3, <1>4, <1>5, ContainersRead, CoversThrough, CoversBoth
     DEF TaskDefinitionSpec
<1> QED
  BY <1>6 DEF all

LEMMA ServiceRead == Covers(S!Read @@ ServiceNotRead, ServiceSpec)
<1> DEFINE all == S!Read @@ ServiceNotRead
<1>1. Covers(S!ReadPlacement @@ S!ReadTask @@ ServiceNotRead,
             As("other", {"Cluster", "EnableECSManagedTags",
                          "EnableExecuteCommand", "LaunchType", "Name",
                          "PlatformVersion", "PropagateTags", "Role",
                          "SchedulingStrategy", "TaskDefinition"}))
  BY ServiceOperators, CoversAs, HasAs, HasMerge
     DEF S!ReadPlacement, S!ReadTask, ServiceNotRead
<1>2. Covers(S!ReadPlacement, As("int", {"DesiredCount",
                                         "HealthCheckGracePeriodSeconds"}))
  BY ServiceOperators, CoversAs, HasAs, HasMerge
     DEF S!ReadPlacement
<1>3. /\ Covers(S!ReadDeployment,
                In("CapacityProviderStrategy", CapacityProviderStrategyItem))
      /\ Covers(S!ReadDeployment,
                In("DeploymentConfiguration", DeploymentConfiguration))
      /\ Covers(S!ReadDeployment,
                In("DeploymentController", DeploymentController))
  BY ServiceOperators, CoversAs, CoversIn, CoversBoth, CoversLeft, HasAs,
         HasMerge
     DEF S!ReadDeployment, CapacityProviderStrategyItem,
         DeploymentConfiguration, DeploymentAlarms, DeploymentCircuitBreaker,
         DeploymentController
<1>4. /\ Covers(S!ReadPlacement, In("LoadBalancers", LoadBalancer))
      /\ Covers(S!ReadPlacement,
                In("NetworkConfiguration", NetworkConfiguration))
      /\ Covers(S!ReadPlacement,
                In("PlacementConstraints", PlacementConstraint))
      /\ Covers(S!ReadPlacement, In("PlacementStrategy", PlacementStrategy))
  BY ServiceOperators, CoversAs, CoversIn, CoversBoth, CoversLeft, HasAs
     DEF S!ReadPlacement, LoadBalancer, NetworkConfiguration,
         AWSVPCConfiguration, PlacementConstraint, PlacementStrategy
<1>5. /\ Covers(S!ReadTask, In("ServiceRegistries", ServiceRegistry))
      /\ Covers(S!ReadTask, In("Tags", Tag))
  BY ServiceOperators, CoversAs, CoversIn, CoversBoth, CoversLeft, HasAs
     DEF S!ReadTask, ServiceRegistry, Tag
<1>6. /\ Covers(all, In("ServiceConnectConfiguration",
                        ServiceConnectConfiguration))
      /\ Covers(all, In("VolumeConfigurations", ServiceVolumeConfiguration))
  BY CoversSelf, CoversLeft DEF ServiceNotRead
<1>7. /\ Covers(all, S!ReadPlacement @@ S!ReadTask @@ ServiceNotRead)
      /\ Covers(all, S!ReadDeployment) /\ Covers(all, S!ReadPlacement)
      /\ Covers(all, S!ReadTask)
  BY ServiceOperators, CoversSelf, CoversBoth, CoversLeft DEF S!Read
<1> HIDE DEF all
<1>8. Covers(all, ServiceSpec)
  BY <1>1, <1>2, <1>3, <1>4, <1>5, <1>6, <1>7, CoversThrough, CoversBoth
     DEF ServiceSpec
<1> QED
  BY <1>8 DEF all

LEMMA ClusterRead == Covers(C!Read, ClusterSpec)
BY ClusterOperators, CoversAs, CoversIn, CoversBoth, CoversLeft, HasAs,
       HasMerge
   DEF C!Read, ClusterSpec, ClusterConfiguration, ExecuteCommandConfiguration,
       ExecuteCommandLogConfiguration, CapacityProviderStrategyItem,
       ClusterServiceConnectDefaultsRequest, ClusterSetting, Tag

\* The structs of a provider of managed instances, in parts that are each read,
\* sent and compared in one place; what an update leaves out is a part by itself.
RequirementsA ==
       As("other", {"AcceleratorManufacturers", "AcceleratorNames",
                    "AcceleratorTypes"})
    @@ In("AcceleratorCount", AcceleratorCountRequest)
    @@ In("AcceleratorTotalMemoryMiB", AcceleratorTotalMemoryMiBRequest)

RequirementsB ==
       As("other", {"AllowedInstanceTypes", "BareMetal",
                    "BurstablePerformance", "CPUManufacturers",
                    "ExcludedInstanceTypes", "InstanceGenerations",
                    "LocalStorage", "LocalStorageTypes"})
    @@ In("BaselineEBSBandwidthMbps", BaselineEBSBandwidthMbpsRequest)

RequirementsC ==
       As("int", {"MaxSpotPriceAsPercentageOfOptimalOnDemandPrice"})
    @@ In("MemoryGiBPerVCPU", MemoryGiBPerVCPURequest)
    @@ In("MemoryMiB", MemoryMiBRequest)
    @@ In("NetworkBandwidthGbps", NetworkBandwidthGbpsRequest)
    @@ In("NetworkInterfaceCount", NetworkInterfaceCountRequest)

RequirementsD ==
       As("int", {"OnDemandMaxPricePercentageOverLowestPrice",
                  "SpotMaxPricePercentageOverLowestPrice"})
    @@ As("other", {"RequireHibernateSupport"})
    @@ In("TotalLocalStorageGB", TotalLocalStorageGBRequest)
    @@ In("VCPUCount", VCPUCountRangeRequest)

TemplateA ==
       As("other", {"EC2InstanceProfileARN"})
    @@ In("CapacityReservations", CapacityReservationRequest)

TemplateB ==
       As("other", {"InstanceMetadataTagsPropagation"})
    @@ In("InstanceRequirements", RequirementsA)

TemplateC == In("InstanceRequirements", RequirementsB)

TemplateD == In("InstanceRequirements", RequirementsC)

TemplateE ==
       In("InstanceRequirements", RequirementsD)
    @@ In("LocalStorageConfiguration",
          ManagedInstancesLocalStorageConfiguration)

TemplateF ==
       As("other", {"Monitoring"})
    @@ In("NetworkConfiguration", ManagedInstancesNetworkConfiguration)
    @@ In("StorageConfiguration", ManagedInstancesStorageConfiguration)

TemplateStuck == As("other", {"CapacityOptionType", "FipsEnabled"})

InstancesA ==
       As("other", {"InfrastructureRoleARN"})
    @@ In("AutoRepairConfiguration", AutoRepairConfiguration)
    @@ In("InfrastructureOptimization", InfrastructureOptimization)
    @@ In("InstanceLaunchTemplate", TemplateA)

InstancesB == In("InstanceLaunchTemplate", TemplateB)

InstancesC == In("InstanceLaunchTemplate", TemplateC)

InstancesD == In("InstanceLaunchTemplate", TemplateD)

InstancesE == In("InstanceLaunchTemplate", TemplateE)

InstancesF ==
       As("other", {"PropagateTags"})
    @@ In("InstanceLaunchTemplate", TemplateF)

InstancesStuck == In("InstanceLaunchTemplate", TemplateStuck)

LEMMA RequirementsWhole ==
    ASSUME NEW t,
           Covers(t, RequirementsA),
           Covers(t, RequirementsB),
           Covers(t, RequirementsC),
           Covers(t, RequirementsD)
    PROVE  Covers(t, InstanceRequirementsRequest)
<1>1. /\ Covers(t,
                As("other", {"AcceleratorManufacturers", "AcceleratorNames",
                             "AcceleratorTypes"}))
      /\ Covers(t, In("AcceleratorCount", AcceleratorCountRequest))
      /\ Covers(t, In("AcceleratorTotalMemoryMiB",
                      AcceleratorTotalMemoryMiBRequest))
  <2>1. /\ Covers(RequirementsA, As("other", {"AcceleratorManufacturers",
                                              "AcceleratorNames",
                                              "AcceleratorTypes"}))
        /\ Covers(RequirementsA, In("AcceleratorCount",
                                    AcceleratorCountRequest))
        /\ Covers(RequirementsA, In("AcceleratorTotalMemoryMiB",
                                    AcceleratorTotalMemoryMiBRequest))
    BY CoversLeft, CoversSelf DEF RequirementsA
  <2> QED
    BY <2>1, CoversThrough
<1>2. /\ Covers(t,
                As("other", {"AllowedInstanceTypes", "BareMetal",
                             "BurstablePerformance", "CPUManufacturers",
                             "ExcludedInstanceTypes", "InstanceGenerations",
                             "LocalStorage", "LocalStorageTypes"}))
      /\ Covers(t, In("BaselineEBSBandwidthMbps",
                      BaselineEBSBandwidthMbpsRequest))
  <2>1. /\ Covers(RequirementsB, As("other", {"AllowedInstanceTypes",
                                              "BareMetal",
                                              "BurstablePerformance",
                                              "CPUManufacturers",
                                              "ExcludedInstanceTypes",
                                              "InstanceGenerations",
                                              "LocalStorage",
                                              "LocalStorageTypes"}))
        /\ Covers(RequirementsB, In("BaselineEBSBandwidthMbps",
                                    BaselineEBSBandwidthMbpsRequest))
    BY CoversLeft, CoversSelf DEF RequirementsB
  <2> QED
    BY <2>1, CoversThrough
<1>3. /\ Covers(t,
                As("int", {"MaxSpotPriceAsPercentageOfOptimalOnDemandPrice"}))
      /\ Covers(t, In("MemoryGiBPerVCPU", MemoryGiBPerVCPURequest))
      /\ Covers(t, In("MemoryMiB", MemoryMiBRequest))
      /\ Covers(t, In("NetworkBandwidthGbps", NetworkBandwidthGbpsRequest))
      /\ Covers(t, In("NetworkInterfaceCount", NetworkInterfaceCountRequest))
  <2>1. /\ Covers(RequirementsC,
                  As("int", {"MaxSpotPriceAsPercentageOfOptimalOnDemandPrice"}))
        /\ Covers(RequirementsC, In("MemoryGiBPerVCPU",
                                    MemoryGiBPerVCPURequest))
        /\ Covers(RequirementsC, In("MemoryMiB", MemoryMiBRequest))
        /\ Covers(RequirementsC, In("NetworkBandwidthGbps",
                                    NetworkBandwidthGbpsRequest))
        /\ Covers(RequirementsC, In("NetworkInterfaceCount",
                                    NetworkInterfaceCountRequest))
    BY CoversLeft, CoversSelf DEF RequirementsC
  <2> QED
    BY <2>1, CoversThrough
<1>4. /\ Covers(t, As("int", {"OnDemandMaxPricePercentageOverLowestPrice",
                              "SpotMaxPricePercentageOverLowestPrice"}))
      /\ Covers(t, As("other", {"RequireHibernateSupport"}))
      /\ Covers(t, In("TotalLocalStorageGB", TotalLocalStorageGBRequest))
      /\ Covers(t, In("VCPUCount", VCPUCountRangeRequest))
  <2>1. /\ Covers(RequirementsD,
                  As("int", {"OnDemandMaxPricePercentageOverLowestPrice",
                             "SpotMaxPricePercentageOverLowestPrice"}))
        /\ Covers(RequirementsD, As("other", {"RequireHibernateSupport"}))
        /\ Covers(RequirementsD, In("TotalLocalStorageGB",
                                    TotalLocalStorageGBRequest))
        /\ Covers(RequirementsD, In("VCPUCount", VCPUCountRangeRequest))
    BY CoversLeft, CoversSelf DEF RequirementsD
  <2> QED
    BY <2>1, CoversThrough
<1>5. Covers(t, As("int", {"MaxSpotPriceAsPercentageOfOptimalOnDemandPrice",
                           "OnDemandMaxPricePercentageOverLowestPrice",
                           "SpotMaxPricePercentageOverLowestPrice"}))
  <2>1. \A n \in {"MaxSpotPriceAsPercentageOfOptimalOnDemandPrice"} :
            <<n>> \in DOMAIN t
    BY <1>3, HasAs DEF Covers
  <2>2. \A n \in {"OnDemandMaxPricePercentageOverLowestPrice",
                  "SpotMaxPricePercentageOverLowestPrice"} :
            <<n>> \in DOMAIN t
    BY <1>4, HasAs DEF Covers
  <2> QED
    BY <2>1, <2>2, CoversAs
<1>6. Covers(t, As("other", {"AcceleratorManufacturers", "AcceleratorNames",
                             "AcceleratorTypes", "AllowedInstanceTypes",
                             "BareMetal", "BurstablePerformance",
                             "CPUManufacturers", "ExcludedInstanceTypes",
                             "InstanceGenerations", "LocalStorage",
                             "LocalStorageTypes", "RequireHibernateSupport"}))
  <2>1. \A n \in {"AcceleratorManufacturers", "AcceleratorNames",
                  "AcceleratorTypes"} :
            <<n>> \in DOMAIN t
    BY <1>1, HasAs DEF Covers
  <2>2. \A n \in {"AllowedInstanceTypes", "BareMetal", "BurstablePerformance",
                  "CPUManufacturers", "ExcludedInstanceTypes",
                  "InstanceGenerations", "LocalStorage", "LocalStorageTypes"} :
            <<n>> \in DOMAIN t
    BY <1>2, HasAs DEF Covers
  <2>3. \A n \in {"RequireHibernateSupport"} :
            <<n>> \in DOMAIN t
    BY <1>4, HasAs DEF Covers
  <2> QED
    BY <2>1, <2>2, <2>3, CoversAs
<1> QED
  BY <1>1, <1>2, <1>3, <1>4, <1>5, <1>6, CoversBoth
     DEF InstanceRequirementsRequest

LEMMA TemplateWhole ==
    ASSUME NEW t,
           Covers(t, TemplateA),
           Covers(t, TemplateB),
           Covers(t, TemplateC),
           Covers(t, TemplateD),
           Covers(t, TemplateE),
           Covers(t, TemplateF),
           Covers(t, TemplateStuck)
    PROVE  Covers(t, InstanceLaunchTemplate)
<1>1. /\ Covers(t, As("other", {"EC2InstanceProfileARN"}))
      /\ Covers(t, In("CapacityReservations", CapacityReservationRequest))
  <2>1. /\ Covers(TemplateA, As("other", {"EC2InstanceProfileARN"}))
        /\ Covers(TemplateA, In("CapacityReservations",
                                CapacityReservationRequest))
    BY CoversLeft, CoversSelf DEF TemplateA
  <2> QED
    BY <2>1, CoversThrough
<1>2. /\ Covers(t, As("other", {"InstanceMetadataTagsPropagation"}))
      /\ Covers(t, In("InstanceRequirements", RequirementsA))
  <2>1. /\ Covers(TemplateB, As("other", {"InstanceMetadataTagsPropagation"}))
        /\ Covers(TemplateB, In("InstanceRequirements", RequirementsA))
    BY CoversLeft, CoversSelf DEF TemplateB
  <2> QED
    BY <2>1, CoversThrough
<1>3. /\ Covers(t, In("InstanceRequirements", RequirementsD))
      /\ Covers(t, In("LocalStorageConfiguration",
                      ManagedInstancesLocalStorageConfiguration))
  <2>1. /\ Covers(TemplateE, In("InstanceRequirements", RequirementsD))
        /\ Covers(TemplateE, In("LocalStorageConfiguration",
                                ManagedInstancesLocalStorageConfiguration))
    BY CoversLeft, CoversSelf DEF TemplateE
  <2> QED
    BY <2>1, CoversThrough
<1>4. /\ Covers(t, As("other", {"Monitoring"}))
      /\ Covers(t, In("NetworkConfiguration",
                      ManagedInstancesNetworkConfiguration))
      /\ Covers(t, In("StorageConfiguration",
                      ManagedInstancesStorageConfiguration))
  <2>1. /\ Covers(TemplateF, As("other", {"Monitoring"}))
        /\ Covers(TemplateF, In("NetworkConfiguration",
                                ManagedInstancesNetworkConfiguration))
        /\ Covers(TemplateF, In("StorageConfiguration",
                                ManagedInstancesStorageConfiguration))
    BY CoversLeft, CoversSelf DEF TemplateF
  <2> QED
    BY <2>1, CoversThrough
<1>5. Covers(t, In("InstanceRequirements", InstanceRequirementsRequest))
  <2> DEFINE all == (RequirementsA @@ RequirementsB)
                  @@ (RequirementsC @@ RequirementsD)
  <2>1. Covers(t, In("InstanceRequirements", all))
    BY <1>1, <1>2, <1>3, <1>4, CoversParts DEF TemplateC, TemplateD
  <2>2. /\ Covers(all, RequirementsA) /\ Covers(all, RequirementsB)
        /\ Covers(all, RequirementsC) /\ Covers(all, RequirementsD)
    BY CoversSelf, CoversLeft
  <2> HIDE DEF all
  <2>3. Covers(all, InstanceRequirementsRequest)
    BY <2>2, RequirementsWhole
  <2> QED
    BY <2>1, <2>3, CoversIn, CoversThrough
<1>6. Covers(t, As("other", {"CapacityOptionType", "EC2InstanceProfileARN",
                             "FipsEnabled", "InstanceMetadataTagsPropagation",
                             "Monitoring"}))
  <2>1. \A n \in {"EC2InstanceProfileARN"} :
            <<n>> \in DOMAIN t
    BY <1>1, HasAs DEF Covers
  <2>2. \A n \in {"InstanceMetadataTagsPropagation"} :
            <<n>> \in DOMAIN t
    BY <1>2, HasAs DEF Covers
  <2>3. \A n \in {"Monitoring"} :
            <<n>> \in DOMAIN t
    BY <1>4, HasAs DEF Covers
  <2>4. \A n \in {"CapacityOptionType", "FipsEnabled"} :
            <<n>> \in DOMAIN t
    BY HasAs DEF Covers, TemplateStuck
  <2> QED
    BY <2>1, <2>2, <2>3, <2>4, CoversAs
<1> QED
  BY <1>1, <1>2, <1>3, <1>4, <1>5, <1>6, CoversBoth
     DEF InstanceLaunchTemplate

LEMMA InstancesWhole ==
    ASSUME NEW t,
           Covers(t, InstancesA),
           Covers(t, InstancesB),
           Covers(t, InstancesC),
           Covers(t, InstancesD),
           Covers(t, InstancesE),
           Covers(t, InstancesF),
           Covers(t, InstancesStuck)
    PROVE  Covers(t, CreateManagedInstancesProviderConfiguration)
<1>1. /\ Covers(t, As("other", {"InfrastructureRoleARN"}))
      /\ Covers(t, In("AutoRepairConfiguration", AutoRepairConfiguration))
      /\ Covers(t, In("InfrastructureOptimization",
                      InfrastructureOptimization))
      /\ Covers(t, In("InstanceLaunchTemplate", TemplateA))
  <2>1. /\ Covers(InstancesA, As("other", {"InfrastructureRoleARN"}))
        /\ Covers(InstancesA, In("AutoRepairConfiguration",
                                 AutoRepairConfiguration))
        /\ Covers(InstancesA, In("InfrastructureOptimization",
                                 InfrastructureOptimization))
        /\ Covers(InstancesA, In("InstanceLaunchTemplate", TemplateA))
    BY CoversLeft, CoversSelf DEF InstancesA
  <2> QED
    BY <2>1, CoversThrough
<1>2. /\ Covers(t, As("other", {"PropagateTags"}))
      /\ Covers(t, In("InstanceLaunchTemplate", TemplateF))
  <2>1. /\ Covers(InstancesF, As("other", {"PropagateTags"}))
        /\ Covers(InstancesF, In("InstanceLaunchTemplate", TemplateF))
    BY CoversLeft, CoversSelf DEF InstancesF
  <2> QED
    BY <2>1, CoversThrough
<1>3. Covers(t, In("InstanceLaunchTemplate", InstanceLaunchTemplate))
  <2> DEFINE all == ((TemplateA @@ TemplateB) @@ (TemplateC @@ TemplateD))
                  @@ ((TemplateE @@ TemplateF) @@ TemplateStuck)
  <2>1. Covers(t, In("InstanceLaunchTemplate", all))
    BY <1>1, <1>2, CoversParts
       DEF InstancesB, InstancesC, InstancesD, InstancesE, InstancesStuck
  <2>2. /\ Covers(all, TemplateA) /\ Covers(all, TemplateB)
        /\ Covers(all, TemplateC) /\ Covers(all, TemplateD)
        /\ Covers(all, TemplateE) /\ Covers(all, TemplateF)
        /\ Covers(all, TemplateStuck)
    BY CoversSelf, CoversLeft
  <2> HIDE DEF all
  <2>3. Covers(all, InstanceLaunchTemplate)
    BY <2>2, TemplateWhole
  <2> QED
    BY <2>1, <2>3, CoversIn, CoversThrough
<1>4. Covers(t, As("other", {"InfrastructureRoleARN", "PropagateTags"}))
  <2>1. \A n \in {"InfrastructureRoleARN"} :
            <<n>> \in DOMAIN t
    BY <1>1, HasAs DEF Covers
  <2>2. \A n \in {"PropagateTags"} :
            <<n>> \in DOMAIN t
    BY <1>2, HasAs DEF Covers
  <2> QED
    BY <2>1, <2>2, CoversAs
<1> QED
  BY <1>1, <1>2, <1>3, <1>4, CoversBoth
     DEF CreateManagedInstancesProviderConfiguration

\* A table with all the parts has every field of a capacity provider.
LEMMA CapacityProviderWhole ==
    ASSUME NEW t,
           Covers(t, As("other", {"Cluster", "Name"})),
           Covers(t, In("AutoScalingGroupProvider", AutoScalingGroupProvider)),
           Covers(t, In("ManagedInstancesProvider", InstancesA)),
           Covers(t, In("ManagedInstancesProvider", InstancesB)),
           Covers(t, In("ManagedInstancesProvider", InstancesC)),
           Covers(t, In("ManagedInstancesProvider", InstancesD)),
           Covers(t, In("ManagedInstancesProvider", InstancesE)),
           Covers(t, In("ManagedInstancesProvider", InstancesF)),
           Covers(t, In("ManagedInstancesProvider", InstancesStuck)),
           Covers(t, In("Tags", Tag))
    PROVE  Covers(t, CapacityProviderSpec)
<1> DEFINE all ==    ((InstancesA @@ InstancesB) @@ (InstancesC @@ InstancesD))
                  @@ ((InstancesE @@ InstancesF) @@ InstancesStuck)
<1>1. Covers(t, In("ManagedInstancesProvider", all))
  BY CoversParts
<1>2. /\ Covers(all, InstancesA) /\ Covers(all, InstancesB)
      /\ Covers(all, InstancesC) /\ Covers(all, InstancesD)
      /\ Covers(all, InstancesE) /\ Covers(all, InstancesF)
      /\ Covers(all, InstancesStuck)
  BY CoversSelf, CoversLeft
<1> HIDE DEF all
<1>3. Covers(all, CreateManagedInstancesProviderConfiguration)
  BY <1>2, InstancesWhole
<1>4. Covers(t, In("ManagedInstancesProvider",
                   CreateManagedInstancesProviderConfiguration))
  BY <1>1, <1>3, CoversIn, CoversThrough
<1> QED
  BY <1>4, CoversBoth DEF CapacityProviderSpec

LEMMA CapacityProviderRead == Covers(CP!Read, CapacityProviderSpec)
<1>1. Covers(CP!ReadGroup,
             In("AutoScalingGroupProvider", AutoScalingGroupProvider))
  BY CapacityProviderOperators, CoversAs, CoversIn, CoversBoth, CoversLeft,
         HasAs, HasMerge
     DEF CP!ReadGroup, AutoScalingGroupProvider, ManagedScaling
<1>2. /\ Covers(CP!ReadInstancesA, In("ManagedInstancesProvider", InstancesA))
      /\ Covers(CP!ReadInstancesA, In("ManagedInstancesProvider", InstancesB))
  BY CapacityProviderOperators, CoversAs, CoversIn, CoversBoth, CoversLeft,
         HasAs, HasMerge
     DEF CP!ReadInstancesA, InstancesA, InstancesB, AutoRepairConfiguration,
         InfrastructureOptimization, TemplateA, CapacityReservationRequest,
         TemplateB, RequirementsA, AcceleratorCountRequest,
         AcceleratorTotalMemoryMiBRequest
<1>3. Covers(CP!ReadInstancesA, In("ManagedInstancesProvider", InstancesStuck))
  BY CapacityProviderOperators, CoversAs, CoversIn, CoversLeft, HasAs, HasMerge
     DEF CP!ReadInstancesA, InstancesStuck, TemplateStuck
<1>4. /\ Covers(CP!ReadInstancesB, In("ManagedInstancesProvider", InstancesC))
      /\ Covers(CP!ReadInstancesB, In("ManagedInstancesProvider", InstancesD))
  BY CapacityProviderOperators, CoversAs, CoversIn, CoversBoth, CoversLeft,
         HasAs, HasMerge
     DEF CP!ReadInstancesB, InstancesC, InstancesD, TemplateC, TemplateD,
         RequirementsB, RequirementsC, BaselineEBSBandwidthMbpsRequest,
         MemoryGiBPerVCPURequest, MemoryMiBRequest,
         NetworkBandwidthGbpsRequest, NetworkInterfaceCountRequest
<1>5. /\ Covers(CP!ReadInstancesC, In("ManagedInstancesProvider", InstancesE))
      /\ Covers(CP!ReadInstancesC, In("ManagedInstancesProvider", InstancesF))
  BY CapacityProviderOperators, CoversAs, CoversIn, CoversBoth, CoversLeft,
         HasAs, HasMerge
     DEF CP!ReadInstancesC, InstancesE, InstancesF, TemplateE, TemplateF,
         RequirementsD, TotalLocalStorageGBRequest, VCPUCountRangeRequest,
         ManagedInstancesLocalStorageConfiguration,
         ManagedInstancesNetworkConfiguration,
         ManagedInstancesStorageConfiguration
<1>6. Covers(CP!ReadInstancesC, In("Tags", Tag))
  BY CapacityProviderOperators, CoversAs, CoversIn, CoversLeft, HasAs
     DEF CP!ReadInstancesC, Tag
<1>7. Covers(CP!ReadGroup @@ CP!ReadInstancesC,
             As("other", {"Cluster", "Name"}))
  BY CapacityProviderOperators, CoversAs, HasAs, HasMerge
     DEF CP!ReadGroup, CP!ReadInstancesC
<1>8. /\ Covers(CP!Read, CP!ReadGroup) /\ Covers(CP!Read, CP!ReadInstancesA)
      /\ Covers(CP!Read, CP!ReadInstancesB)
      /\ Covers(CP!Read, CP!ReadInstancesC)
      /\ Covers(CP!Read, CP!ReadGroup @@ CP!ReadInstancesC)
  BY CapacityProviderOperators, CoversSelf, CoversBoth, CoversLeft DEF CP!Read
<1> QED
  BY <1>1, <1>2, <1>3, <1>4, <1>5, <1>6, <1>7, <1>8, CoversThrough,
     CapacityProviderWhole

-----------------------------------------------------------------------------
(* sdkUpdate of a capacity provider sends every field but these *)

CapacityProviderUnsent ==
       In("AutoScalingGroupProvider", As("other", {"AutoScalingGroupARN"}))
    @@ In("ManagedInstancesProvider", InstancesStuck)
    @@ In("Tags", Tag)

LEMMA CapacityProviderSent ==
    Covers(CP!UpdatePayload @@ CapacityProviderUnsent, CapacityProviderSpec)
<1> DEFINE all == CP!UpdatePayload @@ CapacityProviderUnsent
           Group ==    As("other", {"ManagedDraining",
                                    "ManagedTerminationProtection"})
                    @@ In("ManagedScaling", ManagedScaling)
           Kept == As("other", {"AutoScalingGroupARN"})
<1>1. Covers(CP!UpdatePayloadGroup, In("AutoScalingGroupProvider", Group))
  BY CapacityProviderOperators, CoversAs, CoversIn, CoversBoth, CoversLeft,
         HasAs, HasMerge
     DEF CP!UpdatePayloadGroup, ManagedScaling
<1>2. /\ Covers(CP!UpdatePayloadInstancesA,
                In("ManagedInstancesProvider", InstancesA))
      /\ Covers(CP!UpdatePayloadInstancesA,
                In("ManagedInstancesProvider", InstancesB))
  BY CapacityProviderOperators, CoversAs, CoversIn, CoversBoth, CoversLeft,
         HasAs, HasMerge
     DEF CP!UpdatePayloadInstancesA, InstancesA, InstancesB,
         AutoRepairConfiguration,
         InfrastructureOptimization, TemplateA, CapacityReservationRequest,
         TemplateB, RequirementsA, AcceleratorCountRequest,
         AcceleratorTotalMemoryMiBRequest
<1>3. /\ Covers(CP!UpdatePayloadInstancesB,
                In("ManagedInstancesProvider", InstancesC))
      /\ Covers(CP!UpdatePayloadInstancesB,
                In("ManagedInstancesProvider", InstancesD))
  BY CapacityProviderOperators, CoversAs, CoversIn, CoversBoth, CoversLeft,
         HasAs, HasMerge
     DEF CP!UpdatePayloadInstancesB, CP!CreatePayloadInstancesB,
         InstancesC, InstancesD, TemplateC, TemplateD,
         RequirementsB, RequirementsC, BaselineEBSBandwidthMbpsRequest,
         MemoryGiBPerVCPURequest, MemoryMiBRequest,
         NetworkBandwidthGbpsRequest, NetworkInterfaceCountRequest
<1>4. /\ Covers(CP!UpdatePayloadInstancesC,
                In("ManagedInstancesProvider", InstancesE))
      /\ Covers(CP!UpdatePayloadInstancesC,
                In("ManagedInstancesProvider", InstancesF))
  BY CapacityProviderOperators, CoversAs, CoversIn, CoversBoth, CoversLeft,
         HasAs, HasMerge
     DEF CP!UpdatePayloadInstancesC, InstancesE, InstancesF, TemplateE,
         TemplateF,
         RequirementsD, TotalLocalStorageGBRequest, VCPUCountRangeRequest,
         ManagedInstancesLocalStorageConfiguration,
         ManagedInstancesNetworkConfiguration,
         ManagedInstancesStorageConfiguration
<1>5. Covers(CP!UpdatePayloadGroup @@ CP!UpdatePayloadInstancesC,
             As("other", {"Cluster", "Name"}))
  BY CapacityProviderOperators, CoversAs, HasAs, HasMerge
     DEF CP!UpdatePayloadGroup, CP!UpdatePayloadInstancesC
<1>6. /\ Covers(all, CP!UpdatePayloadGroup)
      /\ Covers(all, CP!UpdatePayloadInstancesA)
      /\ Covers(all, CP!UpdatePayloadInstancesB)
      /\ Covers(all, CP!UpdatePayloadInstancesC)
      /\ Covers(all, CP!UpdatePayloadGroup @@ CP!UpdatePayloadInstancesC)
  BY CapacityProviderOperators, CoversSelf, CoversBoth, CoversLeft
     DEF CP!UpdatePayload
<1>7. /\ Covers(all, In("AutoScalingGroupProvider", Kept))
      /\ Covers(all, In("ManagedInstancesProvider", InstancesStuck))
      /\ Covers(all, In("Tags", Tag))
  BY CoversSelf, CoversLeft DEF CapacityProviderUnsent
<1>8. Covers(Group @@ Kept, AutoScalingGroupProvider)
  BY CoversAs, CoversSelf, CoversBoth, CoversLeft, HasAs, HasMerge
     DEF AutoScalingGroupProvider
<1> HIDE DEF all, Group, Kept
<1>9. Covers(all, In("AutoScalingGroupProvider", Group @@ Kept))
  BY <1>1, <1>6, <1>7, CoversThrough, CoversParts
<1>10. Covers(all, In("AutoScalingGroupProvider", AutoScalingGroupProvider))
  BY <1>8, <1>9, CoversIn, CoversThrough
<1>11. Covers(all, CapacityProviderSpec)
  BY <1>2, <1>3, <1>4, <1>5, <1>6, <1>7, <1>10, CoversThrough,
     CapacityProviderWhole
<1> QED
  BY <1>11 DEF all

-----------------------------------------------------------------------------
(* newResourceDelta compares every field, by itself or with its struct *)

LEMMA AllWithinCovered ==
    ASSUME NEW t, NEW u, NEW paths, AllWithin(t, paths), Covers(t, u)
    PROVE  AllWithin(u, paths)
BY DEF AllWithin, Covers

LEMMA TaskDefinitionCompared == AllWithin(TaskDefinitionSpec, TD!Compared)
<1>1. CutOnlyAt(ContainerDefinition, {})
  <2>1. /\ CutOnlyAt(ContainerDependency, {}) /\ CutOnlyAt(KeyValuePair, {})
        /\ CutOnlyAt(EnvironmentFile, {}) /\ CutOnlyAt(HostEntry, {})
        /\ CutOnlyAt(FirelensConfiguration, {}) /\ CutOnlyAt(HealthCheck, {})
    BY CutAs, CutMerge
       DEF ContainerDependency, KeyValuePair, EnvironmentFile, HostEntry,
           FirelensConfiguration, HealthCheck
  <2>2. CutOnlyAt(LinuxParameters, {}) /\ CutOnlyAt(LogConfiguration, {})
    BY CutAs, CutIn, CutMerge
       DEF LinuxParameters, KernelCapabilities, Device, Tmpfs,
           LogConfiguration, Secret
  <2>3. /\ CutOnlyAt(MountPoint, {}) /\ CutOnlyAt(PortMapping, {})
        /\ CutOnlyAt(RepositoryCredentials, {})
        /\ CutOnlyAt(ResourceRequirement, {}) /\ CutOnlyAt(Secret, {})
        /\ CutOnlyAt(SystemControl, {}) /\ CutOnlyAt(Ulimit, {})
        /\ CutOnlyAt(VolumeFrom, {})
    BY CutAs, CutMerge
       DEF MountPoint, PortMapping, RepositoryCredentials,
           ResourceRequirement, Secret, SystemControl, Ulimit, VolumeFrom
  <2> QED
    BY <2>1, <2>2, <2>3, CutAs, CutIn, CutMerge DEF ContainerDefinition
<1>2. CutOnlyAt(Volume, {})
  BY CutAs, CutIn, CutMerge
     DEF Volume, DockerVolumeConfiguration, EFSVolumeConfiguration,
         EFSAuthorizationConfig, FSxWindowsFileServerVolumeConfiguration,
         FSxWindowsFileServerAuthorizationConfig, HostVolumeProperties
<1>3. /\ CutOnlyAt(InferenceAccelerator, {}) /\ CutOnlyAt(Tag, {})
      /\ CutOnlyAt(TaskDefinitionPlacementConstraint, {})
  BY CutAs DEF InferenceAccelerator, Tag, TaskDefinitionPlacementConstraint
<1>4. /\ AllWithin(As("other", {"CPU", "ExecutionRoleARN", "Family", "IPCMode",
                                "Memory", "NetworkMode", "PIDMode",
                                "RequiresCompatibilities", "TaskRoleARN"}),
                   TD!ComparedA)
      /\ AllWithin(In("ContainerDefinitions", ContainerDefinition),
                   TD!ComparedA)
      /\ AllWithin(In("InferenceAccelerators", InferenceAccelerator),
                   TD!ComparedA)
      /\ AllWithin(In("PlacementConstraints",
                      TaskDefinitionPlacementConstraint), TD!ComparedA)
      /\ AllWithin(In("Tags", Tag), TD!ComparedA)
  BY <1>1, <1>3, TaskDefinitionOperators, HasPath, AllWithinAs, AllWithinIn,
     AllWithinMore
     DEF TD!ComparedA
<1>5. /\ AllWithin(In("EphemeralStorage", EphemeralStorage), TD!ComparedA)
      /\ AllWithin(In("RuntimePlatform", RuntimePlatform), TD!ComparedA)
  BY TaskDefinitionOperators, HasPath, ArePathsOf, AllWithinAs,
     AllWithinBelow, AllWithinMore
     DEF TD!ComparedA, EphemeralStorage, RuntimePlatform
<1>6. AllWithin(In("ProxyConfiguration", ProxyConfiguration), TD!ComparedA)
  <2>1. AllWithin(ProxyConfiguration,
                  Paths({"ContainerName", "Properties", "Type"}))
    BY HasPath, CutAs, AllWithinAs, AllWithinIn, AllWithinMerge
       DEF ProxyConfiguration, KeyValuePair
  <2> QED
    BY <2>1, TaskDefinitionOperators, ArePathsOf, AllWithinBelow, AllWithinMore
       DEF TD!ComparedA
<1>7. AllWithin(In("Volumes", Volume), TD!ComparedB)
  BY <1>2, TaskDefinitionOperators, AllWithinIn DEF TD!ComparedB
<1> QED
  BY <1>4, <1>5, <1>6, <1>7, AllWithinMerge, AllWithinMore
     DEF TaskDefinitionSpec, TD!Compared

LEMMA ServiceCompared == AllWithin(ServiceSpec, S!Compared)
<1>1. /\ AllWithin(As("int", {"DesiredCount",
                              "HealthCheckGracePeriodSeconds"}), S!ComparedA)
      /\ AllWithin(In("CapacityProviderStrategy",
                      CapacityProviderStrategyItem), S!ComparedA)
      /\ AllWithin(In("LoadBalancers", LoadBalancer), S!ComparedA)
  <2>1. /\ CutOnlyAt(CapacityProviderStrategyItem, {})
        /\ CutOnlyAt(LoadBalancer, {})
    BY CutAs, CutMerge DEF CapacityProviderStrategyItem, LoadBalancer
  <2> QED
    BY <2>1, ServiceOperators, HasPath, AllWithinAs, AllWithinIn, AllWithinMore
       DEF S!ComparedA
<1>2. AllWithin(As("other", {"Cluster", "EnableECSManagedTags",
                             "EnableExecuteCommand", "LaunchType", "Name",
                             "PlatformVersion", "PropagateTags", "Role",
                             "SchedulingStrategy", "TaskDefinition"}),
                S!Compared)
  <2>1. \A n \in {"Cluster", "EnableECSManagedTags", "EnableExecuteCommand",
                  "LaunchType", "Name"} : <<n>> \in S!ComparedA
    BY ServiceOperators, HasPath DEF S!ComparedA
  <2>2. \A n \in {"PlatformVersion", "PropagateTags", "Role",
                  "SchedulingStrategy", "TaskDefinition"} :
            <<n>> \in S!ComparedB
    BY ServiceOperators, HasPath DEF S!ComparedB
  <2> QED
    BY <2>1, <2>2, AllWithinAs DEF S!Compared
<1>3. AllWithin(In("DeploymentConfiguration", DeploymentConfiguration),
                S!ComparedA)
  <2>1. AllWithin(DeploymentConfiguration,
                       Paths({"MaximumPercent", "MinimumHealthyPercent"})
                  \cup Below("Alarms",
                             Paths({"AlarmNames", "Enable", "Rollback"}))
                  \cup Below("DeploymentCircuitBreaker",
                             Paths({"Enable", "Rollback"})))
    BY HasPath, ArePathsOf, AllWithinAs, AllWithinBelow, AllWithinMore,
       AllWithinMerge
       DEF DeploymentConfiguration, DeploymentAlarms, DeploymentCircuitBreaker
  <2> QED
    BY <2>1, ServiceOperators, ArePathsOf, AllWithinBelow, AllWithinMore
       DEF S!ComparedA
<1>4. AllWithin(In("DeploymentController", DeploymentController), S!ComparedA)
  BY ServiceOperators, HasPath, ArePathsOf, AllWithinAs, AllWithinBelow,
     AllWithinMore
     DEF S!ComparedA, DeploymentController
<1>5. /\ AllWithin(In("PlacementConstraints", PlacementConstraint),
                   S!ComparedB)
      /\ AllWithin(In("PlacementStrategy", PlacementStrategy), S!ComparedB)
      /\ AllWithin(In("ServiceRegistries", ServiceRegistry), S!ComparedB)
      /\ AllWithin(In("Tags", Tag), S!ComparedB)
      /\ AllWithin(In("VolumeConfigurations", ServiceVolumeConfiguration),
                   S!ComparedB)
  <2>1. /\ CutOnlyAt(PlacementConstraint, {})
        /\ CutOnlyAt(PlacementStrategy, {})
        /\ CutOnlyAt(ServiceRegistry, {}) /\ CutOnlyAt(Tag, {})
        /\ CutOnlyAt(ServiceVolumeConfiguration, {})
    BY CutAs, CutIn, CutMerge
       DEF PlacementConstraint, PlacementStrategy, ServiceRegistry, Tag,
           ServiceVolumeConfiguration, ServiceManagedEBSVolumeConfiguration,
           EBSTagSpecification
  <2> QED
    BY <2>1, ServiceOperators, AllWithinIn, AllWithinMore DEF S!ComparedB
<1>6. AllWithin(In("NetworkConfiguration", NetworkConfiguration), S!ComparedB)
  BY ServiceOperators, HasPath, ArePathsOf, AllWithinAs, AllWithinBelow,
     AllWithinMore
     DEF S!ComparedB, NetworkConfiguration, AWSVPCConfiguration
<1>7. AllWithin(In("ServiceConnectConfiguration",
                   ServiceConnectConfiguration), S!ComparedB)
  <2>1. CutOnlyAt(ServiceConnectService, {})
    BY CutAs, CutIn, CutMerge
       DEF ServiceConnectService, ServiceConnectClientAlias,
           TimeoutConfiguration, ServiceConnecTTLSConfiguration,
           ServiceConnecTTLSCertificateAuthority
  <2>2. AllWithin(LogConfiguration,
                  Paths({"LogDriver", "Options", "SecretOptions"}))
    BY HasPath, CutAs, AllWithinAs, AllWithinIn, AllWithinMerge
       DEF LogConfiguration, Secret
  <2>3. AllWithin(ServiceConnectConfiguration,
                       Paths({"Enabled", "Namespace", "Services"})
                  \cup Below("LogConfiguration",
                             Paths({"LogDriver", "Options", "SecretOptions"})))
    BY <2>1, <2>2, HasPath, ArePathsOf, AllWithinAs, AllWithinIn,
       AllWithinBelow, AllWithinMore, AllWithinMerge
       DEF ServiceConnectConfiguration
  <2> QED
    BY <2>3, ServiceOperators, ArePathsOf, AllWithinBelow, AllWithinMore
       DEF S!ComparedB
<1> QED
  BY <1>1, <1>2, <1>3, <1>4, <1>5, <1>6, <1>7, AllWithinMerge, AllWithinMore
     DEF ServiceSpec, S!Compared

LEMMA ClusterCompared == AllWithin(ClusterSpec, C!Compared)
<1>1. /\ AllWithin(As("other", {"CapacityProviders", "Name"}), C!Compared)
      /\ AllWithin(In("DefaultCapacityProviderStrategy",
                      CapacityProviderStrategyItem), C!Compared)
      /\ AllWithin(In("Settings", ClusterSetting), C!Compared)
      /\ AllWithin(In("Tags", Tag), C!Compared)
  <2>1. /\ CutOnlyAt(CapacityProviderStrategyItem, {})
        /\ CutOnlyAt(ClusterSetting, {}) /\ CutOnlyAt(Tag, {})
    BY CutAs, CutMerge DEF CapacityProviderStrategyItem, ClusterSetting, Tag
  <2> QED
    BY <2>1, ClusterOperators, HasPath, AllWithinAs, AllWithinIn, AllWithinMore
       DEF C!Compared
<1>2. AllWithin(In("ServiceConnectDefaults",
                   ClusterServiceConnectDefaultsRequest), C!Compared)
  BY ClusterOperators, HasPath, ArePathsOf, AllWithinAs, AllWithinBelow,
     AllWithinMore
     DEF C!Compared, ClusterServiceConnectDefaultsRequest
<1>3. AllWithin(In("Configuration", ClusterConfiguration), C!Compared)
  BY ClusterOperators, HasPath, ArePathsOf, AllWithinAs, AllWithinBelow,
     AllWithinMore, AllWithinMerge
     DEF C!Compared, ClusterConfiguration, ExecuteCommandConfiguration,
         ExecuteCommandLogConfiguration
<1> QED
  BY <1>1, <1>2, <1>3, AllWithinMerge DEF ClusterSpec

\* What newResourceDelta compares of a provider of managed instances.
ComparedTemplateA ==
         Paths({"CapacityOptionType", "EC2InstanceProfileARN", "FipsEnabled"})
    \cup Below("CapacityReservations",
               Paths({"ReservationGroupARN", "ReservationPreference"}))

ComparedInstancesA ==
         Paths({"InfrastructureRoleARN"})
    \cup Below("AutoRepairConfiguration", Paths({"ActionsStatus"}))
    \cup Below("InfrastructureOptimization", Paths({"ScaleInAfter"}))
    \cup Below("InstanceLaunchTemplate", ComparedTemplateA)

ComparedRequirementsB ==
         Paths({"AcceleratorManufacturers", "AcceleratorNames",
                "AcceleratorTypes", "AllowedInstanceTypes", "BareMetal",
                "BurstablePerformance", "CPUManufacturers",
                "ExcludedInstanceTypes", "InstanceGenerations",
                "LocalStorage", "LocalStorageTypes"})
    \cup Below("AcceleratorCount", Paths({"Max", "Min"}))
    \cup Below("AcceleratorTotalMemoryMiB", Paths({"Max", "Min"}))
    \cup Below("BaselineEBSBandwidthMbps", Paths({"Max", "Min"}))

ComparedTemplateB ==
         Paths({"InstanceMetadataTagsPropagation"})
    \cup Below("InstanceRequirements", ComparedRequirementsB)

ComparedInstancesB == Below("InstanceLaunchTemplate", ComparedTemplateB)

ComparedRequirementsC ==
         Paths({"MaxSpotPriceAsPercentageOfOptimalOnDemandPrice",
                "OnDemandMaxPricePercentageOverLowestPrice",
                "RequireHibernateSupport",
                "SpotMaxPricePercentageOverLowestPrice"})
    \cup Below("MemoryGiBPerVCPU", Paths({"Max", "Min"}))
    \cup Below("MemoryMiB", Paths({"Max", "Min"}))
    \cup Below("NetworkBandwidthGbps", Paths({"Max", "Min"}))
    \cup Below("NetworkInterfaceCount", Paths({"Max", "Min"}))
    \cup Below("TotalLocalStorageGB", Paths({"Max", "Min"}))
    \cup Below("VCPUCount", Paths({"Max", "Min"}))

ComparedTemplateC ==
         Below("InstanceRequirements", ComparedRequirementsC)
    \cup Below("LocalStorageConfiguration", Paths({"UseLocalStorage"}))

ComparedInstancesC == Below("InstanceLaunchTemplate", ComparedTemplateC)

ComparedTemplateD ==
         Paths({"Monitoring"})
    \cup Below("NetworkConfiguration", Paths({"SecurityGroups", "Subnets"}))
    \cup Below("StorageConfiguration", Paths({"StorageSizeGiB"}))

ComparedInstancesD ==
         Paths({"PropagateTags"})
    \cup Below("InstanceLaunchTemplate", ComparedTemplateD)

LEMMA ComparedInParts ==
    /\ CP!ComparedA =
             Paths({"Cluster"})
        \cup Below("AutoScalingGroupProvider",
                      Paths({"AutoScalingGroupARN", "ManagedDraining",
                             "ManagedTerminationProtection"})
                 \cup Below("ManagedScaling",
                            Paths({"InstanceWarmupPeriod",
                                   "MaximumScalingStepSize",
                                   "MinimumScalingStepSize", "Status",
                                   "TargetCapacity"})))
        \cup Below("ManagedInstancesProvider", ComparedInstancesA)
    /\ CP!ComparedB = Below("ManagedInstancesProvider", ComparedInstancesB)
    /\ CP!ComparedC = Below("ManagedInstancesProvider", ComparedInstancesC)
    /\ CP!ComparedD =
             Paths({"Name", "Tags"})
        \cup Below("ManagedInstancesProvider", ComparedInstancesD)
BY CapacityProviderOperators
   DEF CP!ComparedA, CP!ComparedB, CP!ComparedC, CP!ComparedD,
       ComparedInstancesA, ComparedInstancesB, ComparedInstancesC,
       ComparedInstancesD, ComparedTemplateA, ComparedTemplateB,
       ComparedTemplateC, ComparedTemplateD, ComparedRequirementsB,
       ComparedRequirementsC

LEMMA ComparedPaths ==
    /\ ArePaths(ComparedTemplateA) /\ ArePaths(ComparedInstancesA)
    /\ ArePaths(ComparedRequirementsB) /\ ArePaths(ComparedRequirementsC)
    /\ ArePaths(ComparedTemplateB) /\ ArePaths(ComparedInstancesB)
    /\ ArePaths(ComparedTemplateC) /\ ArePaths(ComparedInstancesC)
    /\ ArePaths(ComparedTemplateD) /\ ArePaths(ComparedInstancesD)
<1>1. /\ ArePaths(ComparedTemplateA) /\ ArePaths(ComparedTemplateD)
      /\ ArePaths(ComparedRequirementsB) /\ ArePaths(ComparedRequirementsC)
  BY ArePathsOf
     DEF ComparedTemplateA, ComparedTemplateD, ComparedRequirementsB,
         ComparedRequirementsC
<1>2. ArePaths(ComparedTemplateB) /\ ArePaths(ComparedTemplateC)
  BY <1>1, ArePathsOf DEF ComparedTemplateB, ComparedTemplateC
<1>3. /\ ArePaths(ComparedInstancesA) /\ ArePaths(ComparedInstancesB)
      /\ ArePaths(ComparedInstancesC) /\ ArePaths(ComparedInstancesD)
  BY <1>1, <1>2, ArePathsOf
     DEF ComparedInstancesA, ComparedInstancesB, ComparedInstancesC,
         ComparedInstancesD
<1> QED
  BY <1>1, <1>2, <1>3

LEMMA RangesWithin ==
    LET R == Paths({"Max", "Min"})
    IN  /\ AllWithin(AcceleratorCountRequest, R)
        /\ AllWithin(AcceleratorTotalMemoryMiBRequest, R)
        /\ AllWithin(BaselineEBSBandwidthMbpsRequest, R)
        /\ AllWithin(MemoryGiBPerVCPURequest, R)
        /\ AllWithin(MemoryMiBRequest, R)
        /\ AllWithin(NetworkBandwidthGbpsRequest, R)
        /\ AllWithin(NetworkInterfaceCountRequest, R)
        /\ AllWithin(TotalLocalStorageGBRequest, R)
        /\ AllWithin(VCPUCountRangeRequest, R)
BY HasPath, AllWithinAs
   DEF AcceleratorCountRequest, AcceleratorTotalMemoryMiBRequest,
       BaselineEBSBandwidthMbpsRequest, MemoryGiBPerVCPURequest,
       MemoryMiBRequest, NetworkBandwidthGbpsRequest,
       NetworkInterfaceCountRequest, TotalLocalStorageGBRequest,
       VCPUCountRangeRequest

LEMMA InstancesACompared ==
    /\ AllWithin(InstancesA, ComparedInstancesA)
    /\ AllWithin(InstancesStuck, ComparedInstancesA)
<1>1. AllWithin(In("CapacityReservations", CapacityReservationRequest),
                ComparedTemplateA)
  <2>1. AllWithin(CapacityReservationRequest,
                  Paths({"ReservationGroupARN", "ReservationPreference"}))
    BY HasPath, AllWithinAs DEF CapacityReservationRequest
  <2> QED
    BY <2>1, ArePathsOf, AllWithinBelow, AllWithinMore DEF ComparedTemplateA
<1>2. /\ AllWithin(As("other", {"EC2InstanceProfileARN"}), ComparedTemplateA)
      /\ AllWithin(TemplateStuck, ComparedTemplateA)
  BY HasPath, AllWithinAs DEF TemplateStuck, ComparedTemplateA
<1>3. AllWithin(TemplateA, ComparedTemplateA)
  BY <1>1, <1>2, AllWithinMerge DEF TemplateA
<1>4. /\ AllWithin(InstancesStuck, ComparedInstancesA)
      /\ AllWithin(In("InstanceLaunchTemplate", TemplateA),
                   ComparedInstancesA)
  BY <1>2, <1>3, ComparedPaths, AllWithinBelow, AllWithinMore
     DEF InstancesStuck, ComparedInstancesA
<1>5. AllWithin(In("AutoRepairConfiguration", AutoRepairConfiguration),
                ComparedInstancesA)
  BY HasPath, AllWithinAs, ArePathsOf, AllWithinBelow, AllWithinMore
     DEF AutoRepairConfiguration, ComparedInstancesA
<1>6. AllWithin(In("InfrastructureOptimization", InfrastructureOptimization),
                ComparedInstancesA)
  BY HasPath, AllWithinAs, ArePathsOf, AllWithinBelow, AllWithinMore
     DEF InfrastructureOptimization, ComparedInstancesA
<1>7. AllWithin(As("other", {"InfrastructureRoleARN"}), ComparedInstancesA)
  BY HasPath, AllWithinAs DEF ComparedInstancesA
<1> QED
  BY <1>4, <1>5, <1>6, <1>7, AllWithinMerge DEF InstancesA

LEMMA InstancesBCompared ==
    /\ AllWithin(InstancesB, ComparedInstancesB)
    /\ AllWithin(InstancesC, ComparedInstancesB)
<1>1. /\ AllWithin(As("other", {"AcceleratorManufacturers",
                                "AcceleratorNames", "AcceleratorTypes"}),
                   ComparedRequirementsB)
      /\ AllWithin(As("other", {"AllowedInstanceTypes", "BareMetal",
                                "BurstablePerformance", "CPUManufacturers",
                                "ExcludedInstanceTypes",
                                "InstanceGenerations", "LocalStorage",
                                "LocalStorageTypes"}), ComparedRequirementsB)
  BY HasPath, AllWithinAs DEF ComparedRequirementsB
<1>2. /\ AllWithin(In("AcceleratorCount", AcceleratorCountRequest),
                   ComparedRequirementsB)
      /\ AllWithin(In("AcceleratorTotalMemoryMiB",
                      AcceleratorTotalMemoryMiBRequest),
                   ComparedRequirementsB)
      /\ AllWithin(In("BaselineEBSBandwidthMbps",
                      BaselineEBSBandwidthMbpsRequest),
                   ComparedRequirementsB)
  BY RangesWithin, ArePathsOf, AllWithinBelow, AllWithinMore
     DEF ComparedRequirementsB
<1>3. /\ AllWithin(RequirementsA, ComparedRequirementsB)
      /\ AllWithin(RequirementsB, ComparedRequirementsB)
  BY <1>1, <1>2, AllWithinMerge DEF RequirementsA, RequirementsB
<1>4. /\ AllWithin(In("InstanceRequirements", RequirementsA),
                   ComparedTemplateB)
      /\ AllWithin(In("InstanceRequirements", RequirementsB),
                   ComparedTemplateB)
  BY <1>3, ComparedPaths, AllWithinBelow, AllWithinMore DEF ComparedTemplateB
<1>5. AllWithin(As("other", {"InstanceMetadataTagsPropagation"}),
                ComparedTemplateB)
  BY HasPath, AllWithinAs DEF ComparedTemplateB
<1>6. /\ AllWithin(TemplateB, ComparedTemplateB)
      /\ AllWithin(TemplateC, ComparedTemplateB)
  BY <1>4, <1>5, AllWithinMerge DEF TemplateB, TemplateC
<1> QED
  BY <1>6, ComparedPaths, AllWithinBelow
     DEF InstancesB, InstancesC, ComparedInstancesB

LEMMA InstancesCCompared ==
    /\ AllWithin(InstancesD, ComparedInstancesC)
    /\ AllWithin(InstancesE, ComparedInstancesC)
<1>1. /\ AllWithin(As("int",
                      {"MaxSpotPriceAsPercentageOfOptimalOnDemandPrice"}),
                   ComparedRequirementsC)
      /\ AllWithin(As("int", {"OnDemandMaxPricePercentageOverLowestPrice",
                              "SpotMaxPricePercentageOverLowestPrice"}),
                   ComparedRequirementsC)
      /\ AllWithin(As("other", {"RequireHibernateSupport"}),
                   ComparedRequirementsC)
  BY HasPath, AllWithinAs DEF ComparedRequirementsC
<1>2. /\ AllWithin(In("MemoryGiBPerVCPU", MemoryGiBPerVCPURequest),
                   ComparedRequirementsC)
      /\ AllWithin(In("MemoryMiB", MemoryMiBRequest), ComparedRequirementsC)
      /\ AllWithin(In("NetworkBandwidthGbps", NetworkBandwidthGbpsRequest),
                   ComparedRequirementsC)
  BY RangesWithin, ArePathsOf, AllWithinBelow, AllWithinMore
     DEF ComparedRequirementsC
<1>3. /\ AllWithin(In("NetworkInterfaceCount", NetworkInterfaceCountRequest),
                   ComparedRequirementsC)
      /\ AllWithin(In("TotalLocalStorageGB", TotalLocalStorageGBRequest),
                   ComparedRequirementsC)
      /\ AllWithin(In("VCPUCount", VCPUCountRangeRequest),
                   ComparedRequirementsC)
  BY RangesWithin, ArePathsOf, AllWithinBelow, AllWithinMore
     DEF ComparedRequirementsC
<1>4. /\ AllWithin(RequirementsC, ComparedRequirementsC)
      /\ AllWithin(RequirementsD, ComparedRequirementsC)
  BY <1>1, <1>2, <1>3, AllWithinMerge DEF RequirementsC, RequirementsD
<1>5. /\ AllWithin(In("InstanceRequirements", RequirementsC),
                   ComparedTemplateC)
      /\ AllWithin(In("InstanceRequirements", RequirementsD),
                   ComparedTemplateC)
  BY <1>4, ComparedPaths, AllWithinBelow, AllWithinMore DEF ComparedTemplateC
<1>6. AllWithin(In("LocalStorageConfiguration",
                   ManagedInstancesLocalStorageConfiguration),
                ComparedTemplateC)
  BY HasPath, AllWithinAs, ArePathsOf, AllWithinBelow, AllWithinMore
     DEF ManagedInstancesLocalStorageConfiguration, ComparedTemplateC
<1>7. /\ AllWithin(TemplateD, ComparedTemplateC)
      /\ AllWithin(TemplateE, ComparedTemplateC)
  BY <1>5, <1>6, AllWithinMerge DEF TemplateD, TemplateE
<1> QED
  BY <1>7, ComparedPaths, AllWithinBelow
     DEF InstancesD, InstancesE, ComparedInstancesC

LEMMA InstancesDCompared == AllWithin(InstancesF, ComparedInstancesD)
<1>1. AllWithin(As("other", {"Monitoring"}), ComparedTemplateD)
  BY HasPath, AllWithinAs DEF ComparedTemplateD
<1>2. AllWithin(In("NetworkConfiguration",
                   ManagedInstancesNetworkConfiguration), ComparedTemplateD)
  BY HasPath, AllWithinAs, ArePathsOf, AllWithinBelow, AllWithinMore
     DEF ManagedInstancesNetworkConfiguration, ComparedTemplateD
<1>3. AllWithin(In("StorageConfiguration",
                   ManagedInstancesStorageConfiguration), ComparedTemplateD)
  BY HasPath, AllWithinAs, ArePathsOf, AllWithinBelow, AllWithinMore
     DEF ManagedInstancesStorageConfiguration, ComparedTemplateD
<1>4. AllWithin(TemplateF, ComparedTemplateD)
  BY <1>1, <1>2, <1>3, AllWithinMerge DEF TemplateF
<1>5. AllWithin(In("InstanceLaunchTemplate", TemplateF), ComparedInstancesD)
  BY <1>4, ComparedPaths, AllWithinBelow, AllWithinMore
     DEF ComparedInstancesD
<1>6. AllWithin(As("other", {"PropagateTags"}), ComparedInstancesD)
  BY HasPath, AllWithinAs DEF ComparedInstancesD
<1> QED
  BY <1>5, <1>6, AllWithinMerge DEF InstancesF

LEMMA CapacityProviderCompared == AllWithin(CapacityProviderSpec, CP!Compared)
<1> DEFINE MI(t)  == In("ManagedInstancesProvider", t)
           names  == As("other", {"Cluster"}) @@ As("other", {"Name"})
           parts1 ==    (MI(InstancesA) @@ MI(InstancesStuck))
                     @@ (MI(InstancesB) @@ MI(InstancesC))
           parts2 == (MI(InstancesD) @@ MI(InstancesE)) @@ MI(InstancesF)
           rest   ==    In("AutoScalingGroupProvider", AutoScalingGroupProvider)
                     @@ In("Tags", Tag)
           all    == (names @@ parts1) @@ (parts2 @@ rest)
<1>1. /\ AllWithin(As("other", {"Cluster"}), CP!ComparedA)
      /\ AllWithin(As("other", {"Name"}), CP!ComparedD)
  BY ComparedInParts, HasPath, AllWithinAs, AllWithinMore
<1>2. AllWithin(In("Tags", Tag), CP!ComparedD)
  BY ComparedInParts, CutAs, AllWithinIn, AllWithinMore DEF Tag
<1>3. AllWithin(In("AutoScalingGroupProvider", AutoScalingGroupProvider),
                CP!ComparedA)
  BY ComparedInParts, HasPath, ArePathsOf, AllWithinAs, AllWithinBelow,
     AllWithinMore, AllWithinMerge
     DEF AutoScalingGroupProvider, ManagedScaling
<1>4. AllWithin(MI(InstancesA), CP!ComparedA)
      /\ AllWithin(MI(InstancesStuck), CP!ComparedA)
  BY InstancesACompared, ComparedInParts, ComparedPaths, AllWithinBelow,
     AllWithinMore
<1>5. AllWithin(MI(InstancesB), CP!ComparedB)
      /\ AllWithin(MI(InstancesC), CP!ComparedB)
  BY InstancesBCompared, ComparedInParts, ComparedPaths, AllWithinBelow
<1>6. AllWithin(MI(InstancesD), CP!ComparedC)
      /\ AllWithin(MI(InstancesE), CP!ComparedC)
  BY InstancesCCompared, ComparedInParts, ComparedPaths, AllWithinBelow
<1>7. AllWithin(MI(InstancesF), CP!ComparedD)
  BY InstancesDCompared, ComparedInParts, ComparedPaths, AllWithinBelow,
     AllWithinMore
<1>8. AllWithin(all, CP!Compared)
  <2>1. AllWithin(names, CP!Compared)
    BY <1>1, AllWithinMerge, AllWithinMore DEF CP!Compared
  <2>2. AllWithin(parts1, CP!Compared)
    BY <1>4, <1>5, AllWithinMerge, AllWithinMore DEF CP!Compared
  <2>3. AllWithin(parts2, CP!Compared)
    BY <1>6, <1>7, AllWithinMerge, AllWithinMore DEF CP!Compared
  <2>4. AllWithin(rest, CP!Compared)
    BY <1>2, <1>3, AllWithinMerge, AllWithinMore DEF CP!Compared
  <2> QED
    BY <2>1, <2>2, <2>3, <2>4, AllWithinMerge
<1>9. /\ Covers(all, In("AutoScalingGroupProvider", AutoScalingGroupProvider))
      /\ Covers(all, MI(InstancesA)) /\ Covers(all, MI(InstancesB))
      /\ Covers(all, MI(InstancesC)) /\ Covers(all, MI(InstancesD))
      /\ Covers(all, MI(InstancesE)) /\ Covers(all, MI(InstancesF))
      /\ Covers(all, MI(InstancesStuck)) /\ Covers(all, In("Tags", Tag))
  BY CoversSelf, CoversLeft
<1>10. Covers(all, As("other", {"Cluster", "Name"}))
  BY CoversAs, CoversLeft, HasAs, HasMerge
<1> HIDE DEF all
<1>11. Covers(all, CapacityProviderSpec)
  BY <1>9, <1>10, CapacityProviderWhole
<1> QED
  BY <1>8, <1>11, AllWithinCovered

-----------------------------------------------------------------------------
(* What the tables of a kind say of each of its fields *)

LEMMA HolesOfRead ==
    /\ AllWithin(TaskDefinitionNotRead, NotRead["TaskDefinition"])
    /\ AllWithin(ServiceNotRead, NotRead["Service"] \cup Fixed["Service"])
<1>1. AllWithin(TaskDefinitionNotRead, NotRead["TaskDefinition"])
  BY CutAs, AllWithinIn DEF TaskDefinitionNotRead, Tag, NotRead
<1> DEFINE gaps == NotRead["Service"] \cup Fixed["Service"]
<1>2. /\ NotRead["Service"] = Paths({"Role", "ServiceConnectConfiguration",
                                     "VolumeConfigurations"})
      /\ Fixed["Service"] = Paths({"Name", "Cluster"})
  BY DEF NotRead, Fixed
<1>3. AllWithin(As("other", {"Cluster", "Role"}), gaps)
  BY <1>2, HasPath, AllWithinAs
<1>4. /\ CutOnlyAt(ServiceConnectConfiguration, {})
      /\ CutOnlyAt(ServiceVolumeConfiguration, {})
  <2>1. CutOnlyAt(LogConfiguration, {})
    BY CutAs, CutIn, CutMerge DEF LogConfiguration, Secret
  <2>2. CutOnlyAt(ServiceConnectService, {})
    BY CutAs, CutIn, CutMerge
       DEF ServiceConnectService, ServiceConnectClientAlias,
           TimeoutConfiguration, ServiceConnecTTLSConfiguration,
           ServiceConnecTTLSCertificateAuthority
  <2>3. CutOnlyAt(ServiceVolumeConfiguration, {})
    BY CutAs, CutIn, CutMerge
       DEF ServiceVolumeConfiguration, ServiceManagedEBSVolumeConfiguration,
           EBSTagSpecification, Tag
  <2> QED
    BY <2>1, <2>2, <2>3, CutAs, CutIn, CutMerge
       DEF ServiceConnectConfiguration
<1>5. /\ AllWithin(In("ServiceConnectConfiguration",
                      ServiceConnectConfiguration), NotRead["Service"])
      /\ AllWithin(In("VolumeConfigurations", ServiceVolumeConfiguration),
                   NotRead["Service"])
  BY <1>2, <1>4, AllWithinIn
<1>6. AllWithin(ServiceNotRead, gaps)
  BY <1>3, <1>5, AllWithinMore, AllWithinMerge DEF ServiceNotRead
<1> QED
  BY <1>1, <1>6

\* sdkFind copies every field that is not among the exceptions.
LEMMA EveryFieldRead ==
    ASSUME NEW k \in Kinds, NEW f \in DOMAIN Type[k]
    PROVE  \/ f \in DOMAIN Read[k]
           \/ Within(f, Fixed[k])
           \/ Within(f, NotRead[k])
<1>1. CASE k = "TaskDefinition"
  <2>1. f \in DOMAIN TaskDefinitionSpec /\ Read[k] = TD!Read
    BY <1>1 DEF Type, Read
  <2>2. f \in DOMAIN TD!Read \/ f \in DOMAIN TaskDefinitionNotRead
    BY <2>1, TaskDefinitionRead, CoveredApart
  <2> QED
    BY <1>1, <2>1, <2>2, HolesOfRead DEF AllWithin
<1>2. CASE k = "Service"
  <2>1. f \in DOMAIN ServiceSpec /\ Read[k] = S!Read
    BY <1>2 DEF Type, Read
  <2>2. f \in DOMAIN S!Read \/ f \in DOMAIN ServiceNotRead
    BY <2>1, ServiceRead, CoveredApart
  <2>3. f \in DOMAIN ServiceNotRead =>
            Within(f, NotRead["Service"]) \/ Within(f, Fixed["Service"])
    BY HolesOfRead DEF AllWithin, Within
  <2> QED
    BY <1>2, <2>1, <2>2, <2>3
<1>3. CASE k = "Cluster"
  BY <1>3, ClusterRead DEF Type, Read, Covers
<1>4. CASE k = "CapacityProvider"
  BY <1>4, CapacityProviderRead DEF Type, Read, Covers
<1> QED
  BY <1>1, <1>2, <1>3, <1>4, KindsAre

\* sdkCreate sends every field, those that sdkFind does not read included.
LEMMA EveryFieldSent ==
    ASSUME NEW k \in Kinds, NEW f \in DOMAIN Type[k]
    PROVE  f \in DOMAIN CreatePayload[k]
<1>1. CASE k = "TaskDefinition"
  <2>1. f \in DOMAIN TaskDefinitionSpec /\ CreatePayload[k] = TD!CreatePayload
    BY <1>1 DEF Type, CreatePayload
  <2>2. f \in DOMAIN TD!Read \/ f \in DOMAIN TaskDefinitionNotRead
    BY <2>1, TaskDefinitionRead, CoveredApart
  <2>3. Covers(TD!CreatePayload, TaskDefinitionNotRead)
    <3>1. Covers(TD!CreatePayloadTaskB, TaskDefinitionNotRead)
      BY TaskDefinitionOperators, CoversAs, CoversIn, CoversLeft, HasAs
         DEF TD!CreatePayloadTaskB, TaskDefinitionNotRead, Tag
    <3> QED
      BY <3>1, TaskDefinitionOperators, CoversLeft DEF TD!CreatePayload
  <2> QED
    BY <2>1, <2>2, <2>3, TaskDefinitionReply DEF Covers
<1>2. CASE k = "Service"
  <2>1. f \in DOMAIN ServiceSpec /\ CreatePayload[k] = S!CreatePayload
    BY <1>2 DEF Type, CreatePayload
  <2>2. f \in DOMAIN S!Read \/ f \in DOMAIN ServiceNotRead
    BY <2>1, ServiceRead, CoveredApart
  <2>3. Covers(S!CreatePayload, ServiceNotRead)
    <3>1. Covers(S!CreatePayloadDeployment @@ S!CreatePayloadPlacement,
                 As("other", {"Cluster", "Role"}))
      BY ServiceOperators, CoversAs, HasAs, HasMerge
         DEF S!CreatePayloadDeployment, S!CreatePayloadPlacement
    <3>2. Covers(S!CreatePayloadConnect,
                 In("ServiceConnectConfiguration",
                    ServiceConnectConfiguration))
      BY ServiceOperators, CoversAs, CoversIn, CoversBoth, CoversLeft, HasAs,
         HasMerge
         DEF S!CreatePayloadConnect, ServiceConnectConfiguration,
             LogConfiguration, Secret, ServiceConnectService,
             ServiceConnectClientAlias, TimeoutConfiguration,
             ServiceConnecTTLSConfiguration,
             ServiceConnecTTLSCertificateAuthority
    <3>3. Covers(S!CreatePayloadVolumes,
                 In("VolumeConfigurations", ServiceVolumeConfiguration))
      BY ServiceOperators, CoversAs, CoversIn, CoversBoth, CoversLeft, HasAs,
         HasMerge
         DEF S!CreatePayloadVolumes, ServiceVolumeConfiguration,
             ServiceManagedEBSVolumeConfiguration, EBSTagSpecification, Tag
    <3>4. /\ Covers(S!CreatePayload,
                    S!CreatePayloadDeployment @@ S!CreatePayloadPlacement)
          /\ Covers(S!CreatePayload, S!CreatePayloadConnect)
          /\ Covers(S!CreatePayload, S!CreatePayloadVolumes)
      BY ServiceOperators, CoversSelf, CoversBoth, CoversLeft
         DEF S!CreatePayload
    <3> QED
      BY <3>1, <3>2, <3>3, <3>4, CoversThrough, CoversBoth DEF ServiceNotRead
  <2> QED
    BY <2>1, <2>2, <2>3, ServiceReply DEF Covers
<1>3. CASE k = "Cluster"
  BY <1>3, ClusterRead, ClusterReply DEF Type, CreatePayload, Covers
<1>4. CASE k = "CapacityProvider"
  BY <1>4, CapacityProviderRead, CapacityProviderReply
     DEF Type, CreatePayload, Covers
<1> QED
  BY <1>1, <1>2, <1>3, <1>4, KindsAre

\* newResourceDelta compares every field, by itself or with its struct.
LEMMA EveryFieldCompared ==
    ASSUME NEW k \in Kinds, NEW f \in DOMAIN Type[k]
    PROVE  IsPath(f) /\ Within(f, Compared[k])
<1>1. CASE k = "TaskDefinition"
  BY <1>1, TaskDefinitionCompared DEF Type, Compared, AllWithin
<1>2. CASE k = "Service"
  BY <1>2, ServiceCompared DEF Type, Compared, AllWithin
<1>3. CASE k = "Cluster"
  BY <1>3, ClusterCompared DEF Type, Compared, AllWithin
<1>4. CASE k = "CapacityProvider"
  BY <1>4, CapacityProviderCompared DEF Type, Compared, AllWithin
<1> QED
  BY <1>1, <1>2, <1>3, <1>4, KindsAre

\* sdkUpdate sends every field that is not among the exceptions; of Reverted it
\* copies back what it has not sent.
LEMMA EveryFieldUpdated ==
    ASSUME NEW k \in Kinds, NEW f \in DOMAIN Type[k]
    PROVE  \/ f \in DOMAIN UpdatePayload[k]
           \/ Within(f, Reverted[k]) /\ f \in DOMAIN UpdateMerge[k]
           \/ Within(f, Fixed[k]) \/ Within(f, NotRead[k])
           \/ Within(f, Stuck[k])
<1>1. CASE k # "CapacityProvider"
  <2>1. UpdateMerge[k] = Read[k]
    BY <1>1, KindsAre, SameCopies, TaskDefinitionUpdate DEF UpdateMerge, Read
  <2> QED
    BY <2>1, EveryFieldRead, UpdateReply
<1>2. CASE k = "CapacityProvider"
  <2> DEFINE group == In("AutoScalingGroupProvider",
                         As("other", {"AutoScalingGroupARN"}))
             stuck == In("ManagedInstancesProvider", InstancesStuck)
             tags  == In("Tags", Tag)
  <2>1. /\ f \in DOMAIN CapacityProviderSpec
        /\ UpdatePayload[k] = CP!UpdatePayload
        /\ UpdateMerge[k] = CP!UpdateMerge
    BY <1>2 DEF Type, UpdatePayload, UpdateMerge
  <2>2. AllWithin(group, Fixed[k])
    <3>1. AllWithin(group, Below("AutoScalingGroupProvider",
                                 Paths({"AutoScalingGroupARN"})))
      BY HasPath, ArePathsOf, AllWithinAs, AllWithinBelow
    <3> QED
      BY <1>2, <3>1, AllWithinMore DEF Fixed
  <2>3. AllWithin(stuck, Stuck[k])
    <3> DEFINE flags == Paths({"CapacityOptionType", "FipsEnabled"})
    <3>1. AllWithin(TemplateStuck, flags) /\ ArePaths(flags)
      BY HasPath, ArePathsOf, AllWithinAs DEF TemplateStuck
    <3> HIDE DEF flags
    <3>2. /\ AllWithin(InstancesStuck, Below("InstanceLaunchTemplate", flags))
          /\ ArePaths(Below("InstanceLaunchTemplate", flags))
      BY <3>1, ArePathsOf, AllWithinBelow DEF InstancesStuck
    <3>3. Stuck[k] = Below("ManagedInstancesProvider",
                           Below("InstanceLaunchTemplate", flags))
      BY <1>2 DEF Stuck, flags
    <3> QED
      BY <3>2, <3>3, AllWithinBelow
  <2>4. AllWithin(tags, Reverted[k])
    BY <1>2, CutAs, AllWithinIn DEF Tag, Reverted
  <2>5. Covers(CP!UpdateMerge, tags)
    BY CapacityProviderOperators, CoversAs, CoversIn, CoversLeft, HasAs
       DEF CP!UpdateMerge, CP!UpdateMergeInstancesC, Tag
  <2>6. f \in DOMAIN CP!UpdatePayload \/ f \in DOMAIN CapacityProviderUnsent
    BY <2>1, CapacityProviderSent, CoveredApart
  <2>7. f \in DOMAIN CapacityProviderUnsent =>
            f \in DOMAIN group \/ f \in DOMAIN stuck \/ f \in DOMAIN tags
    <3>1. CapacityProviderUnsent = group @@ stuck @@ tags
      BY DEF CapacityProviderUnsent
    <3> HIDE DEF group, stuck, tags
    <3> QED
      BY <3>1, DomainOfMerge
  <2> HIDE DEF group, stuck, tags
  <2> QED
    BY <2>1, <2>2, <2>3, <2>4, <2>5, <2>6, <2>7 DEF AllWithin, Covers
<1> QED
  BY <1>1, <1>2

-----------------------------------------------------------------------------
(* References inside structs are not compared *)

\* newResourceDelta compares the fields of these structs one by one, and a
\* reference is no field that it knows.
LEMMA ServiceReferencesBypassed ==
    ASSUME NEW n \in {"SecurityGroups", "Subnets"}
    PROVE  Bypassed(<<"NetworkConfiguration">>
                    \o (<<"AWSVPCConfiguration">> \o <<n>>), S!Compared)
<1> DEFINE g == <<"AWSVPCConfiguration">> \o <<n>>
           f == <<"NetworkConfiguration">> \o g
<1>1. IsPath(<<n>>) /\ IsPath(g)
  BY OneStep, StepDown
<1>2. Bypassed(g, Below("AWSVPCConfiguration",
                        Paths({"AssignPublicIP", "SecurityGroups", "Subnets"})))
  BY <1>1, ArePathsOf, BypassedTop, BypassedBelow
<1> HIDE DEF g
<1>3. Bypassed(f, Below("NetworkConfiguration",
                        Below("AWSVPCConfiguration",
                              Paths({"AssignPublicIP", "SecurityGroups",
                                     "Subnets"}))))
  BY <1>1, <1>2, ArePathsOf, BypassedBelow
<1>4. \A names : "NetworkConfiguration" \notin names =>
                   Bypassed(f, Paths(names))
  BY <1>1, BypassedPaths
<1>5. \A m, paths : m # "NetworkConfiguration" /\ ArePaths(paths) =>
                        Bypassed(f, Below(m, paths))
  BY <1>1, BypassedOther
<1> HIDE DEF f
<1>6. Bypassed(f, S!ComparedA)
  <2>1. Bypassed(f, Paths({"CapacityProviderStrategy", "Cluster",
                           "DesiredCount", "EnableECSManagedTags",
                           "EnableExecuteCommand",
                           "HealthCheckGracePeriodSeconds", "LaunchType",
                           "LoadBalancers", "Name"}))
    BY <1>4
  <2>2. Bypassed(f, Below("DeploymentConfiguration",
                               Paths({"MaximumPercent",
                                      "MinimumHealthyPercent"})
                          \cup Below("Alarms", Paths({"AlarmNames", "Enable",
                                                      "Rollback"}))
                          \cup Below("DeploymentCircuitBreaker",
                                     Paths({"Enable", "Rollback"}))))
    BY <1>5, ArePathsOf
  <2>3. Bypassed(f, Below("DeploymentController", Paths({"Type"})))
    BY <1>5, ArePathsOf
  <2> QED
    BY <2>1, <2>2, <2>3, ServiceOperators, BypassedBoth DEF S!ComparedA
<1>7. Bypassed(f, S!ComparedB)
  <2>1. Bypassed(f, Paths({"PlacementConstraints", "PlacementStrategy",
                           "PlatformVersion", "PropagateTags", "Role",
                           "SchedulingStrategy", "ServiceRegistries", "Tags",
                           "TaskDefinition", "VolumeConfigurations"}))
    BY <1>4
  <2>2. Bypassed(f, Below("ServiceConnectConfiguration",
                               Paths({"Enabled", "Namespace", "Services"})
                          \cup Below("LogConfiguration",
                                     Paths({"LogDriver", "Options",
                                            "SecretOptions"}))))
    BY <1>5, ArePathsOf
  <2> QED
    BY <1>3, <2>1, <2>2, ServiceOperators, BypassedBoth DEF S!ComparedB
<1>8. Bypassed(f, S!Compared)
  BY <1>6, <1>7, BypassedBoth DEF S!Compared
<1> QED
  BY <1>8 DEF f, g

LEMMA CapacityProviderReferencesBypassed ==
    ASSUME NEW h, IsPath(h),
           \/ \E n : h = <<"InstanceLaunchTemplate">> \o <<n>>
           \/ \E n : h = <<"InstanceLaunchTemplate">>
                         \o (<<"NetworkConfiguration">> \o <<n>>)
           \/ \E n : h = <<n>>
    PROVE  Bypassed(<<"ManagedInstancesProvider">> \o h, CP!Compared)
<1> DEFINE f == <<"ManagedInstancesProvider">> \o h
           Passes(g) == /\ Bypassed(g, ComparedInstancesA)
                        /\ Bypassed(g, ComparedInstancesB)
                        /\ Bypassed(g, ComparedInstancesC)
                        /\ Bypassed(g, ComparedInstancesD)
<1>1. ASSUME NEW g, IsPath(g),
             Bypassed(g, ComparedTemplateA), Bypassed(g, ComparedTemplateB),
             Bypassed(g, ComparedTemplateC), Bypassed(g, ComparedTemplateD)
      PROVE  Passes(<<"InstanceLaunchTemplate">> \o g)
  <2> DEFINE t == <<"InstanceLaunchTemplate">> \o g
  <2>1. /\ Bypassed(t, Below("InstanceLaunchTemplate", ComparedTemplateA))
        /\ Bypassed(t, Below("InstanceLaunchTemplate", ComparedTemplateB))
        /\ Bypassed(t, Below("InstanceLaunchTemplate", ComparedTemplateC))
        /\ Bypassed(t, Below("InstanceLaunchTemplate", ComparedTemplateD))
    BY <1>1, ComparedPaths, BypassedBelow
  <2>2. /\ Bypassed(t, Paths({"InfrastructureRoleARN"}))
        /\ Bypassed(t, Paths({"PropagateTags"}))
    BY <1>1, BypassedPaths
  <2>3. /\ Bypassed(t, Below("AutoRepairConfiguration",
                             Paths({"ActionsStatus"})))
        /\ Bypassed(t, Below("InfrastructureOptimization",
                             Paths({"ScaleInAfter"})))
    BY <1>1, ArePathsOf, BypassedOther
  <2> HIDE DEF t
  <2>4. Passes(t)
    BY <2>1, <2>2, <2>3, BypassedBoth
       DEF ComparedInstancesA, ComparedInstancesB, ComparedInstancesC,
           ComparedInstancesD
  <2> QED
    BY <2>4 DEF t
<1>2. ASSUME NEW n
      PROVE  Passes(<<"InstanceLaunchTemplate">> \o <<n>>)
  BY <1>1, OneStep, ComparedPaths, BypassedTop
<1>3. ASSUME NEW n
      PROVE  Passes(<<"InstanceLaunchTemplate">>
                    \o (<<"NetworkConfiguration">> \o <<n>>))
  <2> DEFINE g == <<"NetworkConfiguration">> \o <<n>>
  <2>1. IsPath(<<n>>) /\ IsPath(g)
    BY OneStep, StepDown
  <2>2. Bypassed(g, Below("NetworkConfiguration",
                          Paths({"SecurityGroups", "Subnets"})))
    BY <2>1, ArePathsOf, BypassedTop, BypassedBelow
  <2>3. \A names : "NetworkConfiguration" \notin names =>
                       Bypassed(g, Paths(names))
    BY <2>1, BypassedPaths
  <2>4. \A m, paths : m # "NetworkConfiguration" /\ ArePaths(paths) =>
                          Bypassed(g, Below(m, paths))
    BY <2>1, BypassedOther
  <2> HIDE DEF g
  <2>5. Bypassed(g, ComparedTemplateA)
    BY <2>3, <2>4, ArePathsOf, BypassedBoth DEF ComparedTemplateA
  <2>6. Bypassed(g, ComparedTemplateB)
    BY <2>3, <2>4, ComparedPaths, BypassedBoth DEF ComparedTemplateB
  <2>7. Bypassed(g, ComparedTemplateC)
    BY <2>4, ComparedPaths, ArePathsOf, BypassedBoth DEF ComparedTemplateC
  <2>8. Bypassed(g, ComparedTemplateD)
    <3>1. /\ Bypassed(g, Paths({"Monitoring"}))
          /\ Bypassed(g, Below("StorageConfiguration",
                               Paths({"StorageSizeGiB"})))
      BY <2>3, <2>4, ArePathsOf
    <3> QED
      BY <2>2, <3>1, BypassedBoth DEF ComparedTemplateD
  <2>9. Passes(<<"InstanceLaunchTemplate">> \o g)
    BY <1>1, <2>1, <2>5, <2>6, <2>7, <2>8
  <2> QED
    BY <2>9 DEF g
<1>4. ASSUME NEW n  PROVE Passes(<<n>>)
  BY ComparedPaths, BypassedTop
<1>5. Passes(h)
  BY <1>2, <1>3, <1>4
<1>6. /\ Bypassed(f, Below("ManagedInstancesProvider", ComparedInstancesA))
      /\ Bypassed(f, Below("ManagedInstancesProvider", ComparedInstancesB))
      /\ Bypassed(f, Below("ManagedInstancesProvider", ComparedInstancesC))
      /\ Bypassed(f, Below("ManagedInstancesProvider", ComparedInstancesD))
  BY <1>5, ComparedPaths, BypassedBelow
<1>7. /\ Bypassed(f, Paths({"Cluster"})) /\ Bypassed(f, Paths({"Name", "Tags"}))
  BY BypassedPaths
<1>8. Bypassed(f, Below("AutoScalingGroupProvider",
                             Paths({"AutoScalingGroupARN", "ManagedDraining",
                                    "ManagedTerminationProtection"})
                        \cup Below("ManagedScaling",
                                   Paths({"InstanceWarmupPeriod",
                                          "MaximumScalingStepSize",
                                          "MinimumScalingStepSize", "Status",
                                          "TargetCapacity"}))))
  BY ArePathsOf, BypassedOther
<1> HIDE DEF f
<1>9. /\ Bypassed(f, CP!ComparedA) /\ Bypassed(f, CP!ComparedB)
      /\ Bypassed(f, CP!ComparedC) /\ Bypassed(f, CP!ComparedD)
  BY <1>6, <1>7, <1>8, ComparedInParts, BypassedBoth
<1>10. Bypassed(f, CP!Compared)
  BY <1>9, BypassedBoth DEF CP!Compared
<1> QED
  BY <1>10 DEF f

\* Outside lists, what a reference resolves to is compared, and never the
\* reference.
LEMMA ReferencesBypassed ==
    ASSUME NEW k \in Kinds, NEW f \in References[k], Len(f) # 1
    PROVE  \/ Bypassed(f, Compared[k])
           \/ Within(f, Fixed[k])
           \/ Within(f, ListReferences[k])
<1>1. ASSUME NEW names, f \in Paths(names)
      PROVE  FALSE
  <2>1. Len(f) = 1
    BY <1>1, OneStep DEF Paths
  <2> QED
    BY <2>1
<1>2. k \notin {"TaskDefinition", "Cluster"}
  BY <1>1
     DEF References, TaskDefinitionSpecReferences, ClusterSpecReferences
<1>3. CASE k = "Service"
  <2>1. \/ f \in Paths({"Cluster", "Role", "TaskDefinition"})
        \/ f \in Below("LoadBalancers",
                       Paths({"LoadBalancerName", "TargetGroupARN"}))
        \/ f \in Below("NetworkConfiguration",
                       Below("AWSVPCConfiguration",
                             Paths({"SecurityGroups", "Subnets"})))
    BY <1>3 DEF References, ServiceSpecReferences
  <2>2. f \notin Paths({"Cluster", "Role", "TaskDefinition"})
    BY <1>1
  <2>3. ASSUME f \in Below("LoadBalancers",
                           Paths({"LoadBalancerName", "TargetGroupARN"}))
        PROVE  Within(f, ListReferences["Service"])
    <3>1. PICK g \in Paths({"LoadBalancerName", "TargetGroupARN"}) :
              f = <<"LoadBalancers">> \o g
      BY <2>3 DEF Below
    <3>2. IsPath(g)
      BY OneStep DEF Paths
    <3> QED
      BY <3>1, <3>2, WithinParent DEF ListReferences
  <2>4. ASSUME f \in Below("NetworkConfiguration",
                           Below("AWSVPCConfiguration",
                                 Paths({"SecurityGroups", "Subnets"})))
        PROVE  Bypassed(f, S!Compared)
    <3>1. PICK g \in Below("AWSVPCConfiguration",
                           Paths({"SecurityGroups", "Subnets"})) :
              f = <<"NetworkConfiguration">> \o g
      BY <2>4 DEF Below
    <3>2. PICK n \in {"SecurityGroups", "Subnets"} :
              g = <<"AWSVPCConfiguration">> \o <<n>>
      BY <3>1 DEF Below, Paths
    <3> QED
      BY <3>1, <3>2, ServiceReferencesBypassed
  <2> QED
    BY <1>3, <2>1, <2>2, <2>3, <2>4 DEF Compared
<1>4. CASE k = "CapacityProvider"
  <2> DEFINE nested ==      Paths({"InfrastructureRoleARN"})
                       \cup Below("InstanceLaunchTemplate",
                                       Paths({"EC2InstanceProfileARN"})
                                  \cup Below("NetworkConfiguration",
                                             Paths({"SecurityGroups",
                                                    "Subnets"})))
  <2>1. \/ f \in Paths({"Cluster"})
        \/ f \in Below("AutoScalingGroupProvider",
                       Paths({"AutoScalingGroupARN"}))
        \/ f \in Below("ManagedInstancesProvider", nested)
    BY <1>4 DEF References, CapacityProviderSpecReferences
  <2>2. f \notin Paths({"Cluster"})
    BY <1>1
  <2>3. ASSUME f \in Below("AutoScalingGroupProvider",
                           Paths({"AutoScalingGroupARN"}))
        PROVE  Within(f, Fixed[k])
    <3>1. f \in Fixed[k]
      BY <1>4, <2>3 DEF Fixed
    <3>2. IsPath(f)
      BY <2>3, ArePathsOf DEF ArePaths
    <3> QED
      BY <3>1, <3>2, WithinSelf
  <2>4. ASSUME f \in Below("ManagedInstancesProvider", nested)
        PROVE  Bypassed(f, CP!Compared)
    <3>1. PICK h \in nested : f = <<"ManagedInstancesProvider">> \o h
      BY <2>4 DEF Below
    <3>2. IsPath(h)
      BY ArePathsOf DEF ArePaths
    <3>3. \/ \E n : h = <<n>>
          \/ \E n : h = <<"InstanceLaunchTemplate">> \o <<n>>
          \/ \E n : h = <<"InstanceLaunchTemplate">>
                        \o (<<"NetworkConfiguration">> \o <<n>>)
      BY DEF Below, Paths
    <3> QED
      BY <3>1, <3>2, <3>3, CapacityProviderReferencesBypassed
  <2> QED
    BY <1>4, <2>1, <2>2, <2>3, <2>4 DEF Compared
<1> QED
  BY <1>2, <1>3, <1>4, KindsAre

\* No field that sdkUpdate reverts has a reference.
LEMMA ReferencesSent ==
    ASSUME NEW k \in Kinds, NEW f \in References[k]
    PROVE  ~Within(f, Reverted[k])
<1>1. CASE k \in {"TaskDefinition", "Cluster"}
  BY <1>1 DEF Reverted, Within
<1>2. CASE k = "Service"
  <2>1. /\ IsPath(f)
        /\ f[1] \in {"Cluster", "Role", "TaskDefinition", "LoadBalancers",
                     "NetworkConfiguration"}
    <3>1. CASE f \in Paths({"Cluster", "Role", "TaskDefinition"})
      BY <3>1, OneStep DEF Paths
    <3> QED
      BY <1>2, <3>1, FirstOfBelow, ArePathsOf
         DEF References, ServiceSpecReferences
  <2> QED
    BY <1>2, <2>1, WithinTop DEF Reverted
<1>3. CASE k = "CapacityProvider"
  <2>1. /\ IsPath(f)
        /\ f[1] \in {"Cluster", "AutoScalingGroupProvider",
                     "ManagedInstancesProvider"}
    <3>1. CASE f \in Paths({"Cluster"})
      BY <3>1, OneStep DEF Paths
    <3> QED
      BY <1>3, <3>1, FirstOfBelow, ArePathsOf
         DEF References, CapacityProviderSpecReferences
  <2> QED
    BY <1>3, <2>1, WithinTop DEF Reverted
<1> QED
  BY <1>1, <1>2, <1>3, KindsAre

-----------------------------------------------------------------------------
(* What a reconcile brings about *)

\* ECS has the value that the CR wants, if it wants one.
Settled == Desired = Nil \/ ecs = Desired

\* The value that the CR wants gets to ECS.
Applied == Desired # Nil => ecs' = Desired

\* Nothing is left undone: a create, and a reconcile that is not refused, bring
\* what the CR wants to ECS, whether there is something to update or not.  What
\* the CR says afterwards is what ECS has, also where it had said nothing and in
\* the fields of Reverted.  But for NotRead, Stuck, and numbers that are cut.
TakesEffect ==
    [][ /\ Create => Applied /\ Settled'
        /\ Reconcile \/ OtherFieldDiffers =>
             \/ (Applied \/ Except(Reverted)) /\ Settled'
             \/ Except(NotRead) \/ Except(Stuck)
             \/ Except(Unchecked) /\ Desired = TooLarge ]_vars

\* Nothing is done twice: where ECS has what the CR wants, a reconcile finds no
\* difference, calls nothing and writes nothing; but for references in lists.
ThenQuiet ==
    [][ Reconcile /\ Settled /\ Desired # Nil =>
          \/ ~called' /\ UNCHANGED <<spec, ref, ecs>>
          \/ Except(ListReferences) /\ ref # Nil ]_vars

\* A patch leaves the CR with what it wanted or with what ECS replied.
LEMMA WriteBackSettles ==
    ASSUME Types, Resolvable, field' = field,
           NEW table, NEW same, WriteBack(table, ecs', same),
           \/ Desired = Nil \/ ecs' = Desired
           \/ ref = Nil /\ path \in DOMAIN table /\ ~same
    PROVE  Settled'
<1>1. kind' = kind /\ path' = path
  BY DEF kind, path
<1>2. ref' \in {Nil, ref}
  BY DEF WriteBack
<1>3. CASE ref' # Nil
  <2>1. ref # Nil /\ ref' = ref
    BY <1>2, <1>3
  <2>2. Desired = ref /\ path \in ResolveReferences[kind]
    BY <2>1, ReferenceAlone, FieldOf, ReferencesHandled DEF Types
  <2>3. Desired' = Desired
    BY <1>1, <2>1, <2>2 DEF Desired
  <2> QED
    BY <2>1, <2>2, <2>3 DEF Settled
<1>4. CASE ref' = Nil
  <2>1. Desired' = spec'
    BY <1>4 DEF Desired
  <2>2. spec' = IF same THEN Desired
                ELSE Copied(table, path, ecs', Desired)
    BY <1>4 DEF WriteBack
  <2>3. \/ spec' = ecs'
        \/ spec' = Desired /\ (Desired = Nil \/ ecs' = Desired)
    BY <2>2 DEF Copied
  <2> QED
    BY <2>1, <2>3 DEF Settled
<1> QED
  BY <1>3, <1>4

LEMMA CreateSettles ==
    ASSUME Types, Create
    PROVE  Applied /\ Settled'
<1>1. /\ Resolvable /\ field' = field
      /\ WriteBack(CreateMerge[kind], ecs', FALSE)
  BY DEF Create
<1>2. ASSUME Desired # Nil
      PROVE  ecs' = Desired
  <2>1. path \in DOMAIN CreatePayload[kind]
    BY FieldOf, EveryFieldSent DEF Types
  <2>2. CreatePayload[kind][path] # "cut"
    BY <2>1, FieldOf, WidthsChecked DEF Types, CutOnlyAt
  <2>3. Sent(CreatePayload[kind], path, Desired) = Desired
    BY <1>2, <2>1, <2>2, DesiredInValues, SentAsItIs
  <2> QED
    BY <1>2, <2>3 DEF Create
<1> QED
  BY <1>1, <1>2, WriteBackSettles DEF Applied

LEMMA UpdateSettles ==
    ASSUME Types, field' = field, NEW other, Update(other),
           ~Except(NotRead), ~Except(Stuck),
           ~(Except(Unchecked) /\ Desired = TooLarge)
    PROVE  (Applied \/ Except(Reverted)) /\ Settled'
<1> DEFINE same == kind = "Cluster" /\ ~CallsUpdateCluster(other)
<1>1. Resolvable /\ WriteBack(UpdateMerge[kind], ecs', same)
  BY DEF Update
<1>2. kind \in Kinds /\ path \in DOMAIN Type[kind] /\ ~Within(path, Fixed[kind])
  BY FieldOf DEF Types
<1>3. CASE path \in DOMAIN UpdatePayload[kind]
  <2>1. ASSUME Desired # Nil  PROVE ecs' = Desired
    <3>1. UpdatePayload[kind][path] = "cut" => Desired # TooLarge
      <4>1. /\ IsPath(path)
            /\ UpdatePayload[kind][path] = "cut" => path \in Unchecked[kind]
        BY <1>2, <1>3, WidthsChecked DEF CutOnlyAt
      <4> QED
        BY <4>1, WithinSelf DEF Except
    <3>2. Sent(UpdatePayload[kind], path, Desired) = Desired
      BY <1>3, <2>1, <3>1, DesiredInValues, SentAsItIs
    <3> QED
      BY <2>1, <3>2 DEF Update
  <2> HIDE DEF same
  <2> QED
    BY <1>1, <2>1, WriteBackSettles DEF Applied
<1>4. CASE path \notin DOMAIN UpdatePayload[kind]
  <2>1. Within(path, Reverted[kind]) /\ path \in DOMAIN UpdateMerge[kind]
    BY <1>2, <1>4, EveryFieldUpdated DEF Except
  <2>2. ref = Nil
    BY <1>2, <2>1, ReferencesSent DEF Types, Refs
  <2>3. ~same
    BY <2>1 DEF Reverted, Within
  <2> HIDE DEF same
  <2> QED
    BY <1>1, <2>1, <2>2, <2>3, WriteBackSettles DEF Except
<1> QED
  BY <1>3, <1>4

\* Where newResourceDelta finds nothing, there is nothing to find.
LEMMA NoDifferenceSettles ==
    ASSUME Types, ~Differs, ~Except(NotRead)
    PROVE  Settled
<1>1. Within(path, Compared[kind]) /\ path \in DOMAIN Read[kind]
  BY FieldOf, EveryFieldCompared, EveryFieldRead DEF Types, Except
<1> QED
  BY <1>1 DEF Differs, Copied, Settled

\* Create and update do what the CR says: after sdkCreate every field is in ECS
\* as the CR wants it, and so it is after every reconcile that is not refused,
\* whatever happened between the two.  Only the fields of the lists are left
\* behind: the generated conversions forget no other one, and bring none to ECS
\* in another way than newResourceDelta compares it.
THEOREM EveryReconcileTakesEffect == Spec => TakesEffect
<1> DEFINE Effect == \/ (Applied \/ Except(Reverted)) /\ Settled'
                     \/ Except(NotRead) \/ Except(Stuck)
                     \/ Except(Unchecked) /\ Desired = TooLarge
<1>1. ASSUME Types, Create  PROVE Applied /\ Settled'
  BY <1>1, CreateSettles
<1>2. ASSUME Types, Reconcile  PROVE Effect
  <2>1. CASE Differs
    BY <1>2, <2>1, UpdateSettles DEF Reconcile
  <2>2. CASE ~Differs
    <3>1. /\ UNCHANGED <<spec, ref, ecs>> /\ field' = field
      BY <1>2, <2>2 DEF Reconcile
    <3>2. Settled' = Settled /\ (Settled => Applied)
      BY <3>1 DEF Settled, Applied, Desired, kind, path
    <3> QED
      BY <1>2, <2>2, <3>2, NoDifferenceSettles
  <2> QED
    BY <2>1, <2>2
<1>3. ASSUME Types, OtherFieldDiffers  PROVE Effect
  BY <1>3, UpdateSettles DEF OtherFieldDiffers
<1>4. Types /\ [Next]_vars =>
          [ /\ Create => Applied /\ Settled'
            /\ Reconcile \/ OtherFieldDiffers => Effect ]_vars
  BY <1>1, <1>2, <1>3
<1> QED
  BY <1>4, Typed, PTL DEF Spec, TakesEffect

LEMMA SettledIsQuiet ==
    ASSUME Types, Resolvable, Settled, Desired # Nil, Differs
    PROVE  Except(ListReferences) /\ ref # Nil
<1>1. kind \in Kinds /\ path \in DOMAIN Type[kind] /\ ~Within(path, Fixed[kind])
  BY FieldOf DEF Types
<1>2. Desired = Copied(Read[kind], path, ecs, Desired)
  BY DEF Settled, Copied
<1>3. /\ ref # Nil /\ Len(path) # 1
      /\ Within(path, {p \in Compared[kind] : Len(p) < Len(path)})
  BY <1>2 DEF Differs, SurvivesCopy
<1>4. ~Bypassed(path, Compared[kind])
  BY <1>3 DEF Within, Bypassed
<1>5. path \in References[kind]
  BY <1>3 DEF Types, Refs
<1> QED
  BY <1>1, <1>3, <1>4, <1>5, ReferencesBypassed DEF Except

\* The controller comes to rest: once ECS has what the CR wants, no reconcile
\* calls ECS or patches the CR because of that field, until somebody changes one
\* of the two; but for a reference in a list, whose copy loses it.
THEOREM SettledStaysQuiet == Spec => ThenQuiet
<1> DEFINE Quiet == \/ ~called' /\ UNCHANGED <<spec, ref, ecs>>
                    \/ Except(ListReferences) /\ ref # Nil
<1>1. ASSUME Types, Reconcile, Settled, Desired # Nil  PROVE Quiet
  <2>1. CASE Differs
    BY <1>1, <2>1, SettledIsQuiet DEF Reconcile
  <2>2. CASE ~Differs
    BY <1>1, <2>2 DEF Reconcile
  <2> QED
    BY <2>1, <2>2
<1>2. Types /\ [Next]_vars =>
          [Reconcile /\ Settled /\ Desired # Nil => Quiet]_vars
  BY <1>1
<1> QED
  BY <1>2, Typed, PTL DEF Spec, ThenQuiet

==============================================================================
