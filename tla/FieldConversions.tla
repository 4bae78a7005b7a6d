--------------------------- MODULE FieldConversions ---------------------------
(***************************************************************************)
(* One field of one custom resource on its way to ECS and back: what the   *)
(* generated conversions of the four kinds do to it, reconcile after       *)
(* reconcile.  Every field of the API types takes a turn, except names and *)
(* what the CRD makes immutable; some have a reference to another resource *)
(* next to them that gives them their value.                               *)
(*                                                                         *)
(* The structs the field lies in are there, the reconciles run one at a    *)
(* time and their calls succeed: crashes, failing calls and edits during a *)
(* reconcile are the matter of the manager modules.                        *)
(***************************************************************************)
EXTENDS ApiTypes

CONSTANTS
    Nil,        \* a field that is not set
    Missing,    \* there is no resource in ECS
    MaxInt32,   \* the largest integer that ECS takes
    MaxEvents   \* how often users, others and other fields intervene

ASSUME ConstantsAssumption == MaxInt32 \in Nat \ {0} /\ MaxEvents \in Nat

TD == INSTANCE TaskDefinitionFields
S  == INSTANCE ServiceFields
C  == INSTANCE ClusterFields
CP == INSTANCE CapacityProviderFields

Type == [TaskDefinition |-> TaskDefinitionSpec, Service |-> ServiceSpec,
         Cluster |-> ClusterSpec, CapacityProvider |-> CapacityProviderSpec]
Kinds == DOMAIN Type
References == [TaskDefinition |-> TaskDefinitionSpecReferences,
               Service |-> ServiceSpecReferences, Cluster |-> ClusterSpecReferences,
               CapacityProvider |-> CapacityProviderSpecReferences]

Read          == [TaskDefinition |-> TD!Read, Service |-> S!Read,
                  Cluster |-> C!Read, CapacityProvider |-> CP!Read]
CreateMerge   == [TaskDefinition |-> TD!CreateMerge, Service |-> S!CreateMerge,
                  Cluster |-> C!CreateMerge, CapacityProvider |-> CP!CreateMerge]
UpdateMerge   == [TaskDefinition |-> TD!UpdateMerge, Service |-> S!UpdateMerge,
                  Cluster |-> C!UpdateMerge, CapacityProvider |-> CP!UpdateMerge]
CreatePayload == [TaskDefinition |-> TD!CreatePayload,
                  Service |-> S!CreatePayload, Cluster |-> C!CreatePayload,
                  CapacityProvider |-> CP!CreatePayload]
UpdatePayload == [TaskDefinition |-> TD!UpdatePayload,
                  Service |-> S!UpdatePayload, Cluster |-> C!UpdatePayload,
                  CapacityProvider |-> CP!UpdatePayload]
Compared      == [TaskDefinition |-> TD!Compared, Service |-> S!Compared,
                  Cluster |-> C!Compared, CapacityProvider |-> CP!Compared]

\* The fields that references.go resolves, checks, clears and restores.
ResolveReferences ==
    [TaskDefinition |-> TD!ResolveReferences, Service |-> S!ResolveReferences,
     Cluster |-> C!ResolveReferences, CapacityProvider |-> CP!ResolveReferences]
validateReferenceFields ==
    [TaskDefinition |-> TD!validateReferenceFields,
     Service |-> S!validateReferenceFields, Cluster |-> C!validateReferenceFields,
     CapacityProvider |-> CP!validateReferenceFields]
ClearResolvedReferences ==
    [TaskDefinition |-> TD!ClearResolvedReferences,
     Service |-> S!ClearResolvedReferences, Cluster |-> C!ClearResolvedReferences,
     CapacityProvider |-> CP!ClearResolvedReferences]
EnsureReferences ==
    [TaskDefinition |-> {}, Service |-> S!EnsureReferences,
     Cluster |-> {}, CapacityProvider |-> CP!EnsureReferences]

-----------------------------------------------------------------------------
(* The fields, and what is known not to follow the spec *)

\* Names the resource is found by, and what the CRD makes immutable.
Fixed ==
    [TaskDefinition |-> Paths({"Family"}),
     Service |-> Paths({"Name", "Cluster"}),
     Cluster |-> Paths({"Name"}),
     CapacityProvider |->
         Paths({"Name", "Cluster"})
         \cup Below("AutoScalingGroupProvider", Paths({"AutoScalingGroupARN"}))]

\* sdkFind does not copy them: the copy of the spec that it starts from stands
\* for what ECS has, and nothing differs.
NotRead ==
    [TaskDefinition |-> Paths({"Tags"}),
     Service |-> Paths({"Role", "ServiceConnectConfiguration",
                        "VolumeConfigurations"}),
     Cluster |-> {},
     CapacityProvider |-> {}]

\* sdkUpdate does not send them and copies them from its reply.
Reverted ==
    [TaskDefinition |-> {},
     Service |-> Paths({"LaunchType", "SchedulingStrategy", "Tags"}),
     Cluster |-> {},
     CapacityProvider |-> Paths({"Tags"})]

\* sdkUpdate neither sends them nor copies them from its reply.
Stuck ==
    [TaskDefinition |-> {}, Service |-> {}, Cluster |-> {},
     CapacityProvider |->
         Below("ManagedInstancesProvider",
               Below("InstanceLaunchTemplate",
                     Paths({"CapacityOptionType", "FipsEnabled"})))]

\* sdkUpdate of a cluster sends them without the check of their width.
Unchecked ==
    [TaskDefinition |-> {}, Service |-> {},
     Cluster |-> Below("DefaultCapacityProviderStrategy",
                       Paths({"Base", "Weight"})),
     CapacityProvider |-> {}]

\* References inside a list, which EnsureReferences does not restore.
ListReferences ==
    [TaskDefinition |-> {}, Service |-> Paths({"LoadBalancers"}),
     Cluster |-> {}, CapacityProvider |-> {}]

Fields ==
    UNION {{k} \X {f \in DOMAIN Type[k] : ~Within(f, Fixed[k])} : k \in Kinds}

\* How many integers there are of that width.
Range32 == 2 * (MaxInt32 + 1)

\* An integer that does not fit, and whose low bits are another value.
TooLarge == Range32 + 1

Values(k, f) == {Nil, 0, 1} \cup (IF Type[k][f] = "int" THEN {TooLarge} ELSE {})

-----------------------------------------------------------------------------
(* The conversions *)

\* What a table makes of a value; the field is left alone if it is not there.
Sent(table, f, v) ==
    IF f \notin DOMAIN table THEN Nil
    ELSE CASE table[f] = "cut"   -> IF v = Nil THEN 0 ELSE v % Range32
           [] table[f] = "value" -> IF v = Nil THEN 0 ELSE v
           [] OTHER              -> v

\* The error "field ... is of type int32" of the payload functions.
Refused(table, f, v) ==
    /\ f \in DOMAIN table
    /\ table[f] \in {"int32", "value"}
    /\ v # Nil
    /\ v > MaxInt32

\* What the spec becomes when a reply is copied into it.
Copied(table, f, reply, v) == IF f \in DOMAIN table THEN reply ELSE v

-----------------------------------------------------------------------------

VARIABLES
    field,    \* the kind and the path of the field
    spec,     \* its value in the spec of the CR
    ref,      \* what the reference next to it resolves to, if there is one
    ready,    \* whether what is referenced exists and is synced
    ecs,      \* its value in ECS
    called,   \* whether the last reconcile found a difference in it
    events    \* how many of the MaxEvents there have been

vars == <<field, spec, ref, ready, ecs, called, events>>

kind == field[1]
path == field[2]

Refs(k, f) == {Nil} \cup (IF f \in References[k] THEN {0, 1} ELSE {})

\* The spec is what any user may write; the CRD sets no bounds.
Init ==
    /\ field \in Fields
    /\ spec \in Values(field[1], field[2])
    /\ ref \in Refs(field[1], field[2])
    /\ ready \in IF ref = Nil THEN {TRUE} ELSE BOOLEAN
    /\ ecs = Missing
    /\ called = FALSE
    /\ events = 0

\* The errors of ResolveReferences.
Resolvable ==
    /\ path \in ResolveReferences[kind] /\ ref # Nil => ready
    /\ path \in validateReferenceFields[kind] => ref = Nil \/ spec = Nil

\* The value after ResolveReferences.
Desired == IF ref # Nil /\ path \in ResolveReferences[kind] THEN ref ELSE spec

\* Whether a reference survives a copy of a reply: the struct around it is built
\* anew, a reference at the top of the spec is left alone.
SurvivesCopy(table) == Len(path) = 1 \/ path \notin DOMAIN table

\* The patch of the spec: EnsureReferences, then ClearResolvedReferences, of the
\* copy of the reply; `same` when sdkUpdate returned its input.
WriteBack(table, reply, same) ==
    LET kept == \/ ref # Nil /\ (same \/ SurvivesCopy(table))
                \/ ref # Nil /\ path \in EnsureReferences[kind]
    IN  /\ ref' = IF kept THEN ref ELSE Nil
        /\ spec' = IF kept /\ path \in ClearResolvedReferences[kind] THEN Nil
                   ELSE IF same THEN Desired
                   ELSE Copied(table, path, reply, Desired)

\* What is not in a request, ECS leaves out or sets by itself; a field of the
\* SDK that is no pointer is zero when it is left out.
Defaults ==
    {0, 1} \cup (IF path \in DOMAIN Read[kind] /\ Read[kind][path] = "value"
                 THEN {} ELSE {Nil})

\* sdkCreate: the payload, the call, and the reply copied into the spec.
Create ==
    /\ ecs = Missing
    /\ Resolvable
    /\ ~Refused(CreatePayload[kind], path, Desired)
    /\ LET sent == Sent(CreatePayload[kind], path, Desired)
       IN  ecs' \in IF sent = Nil THEN Defaults ELSE {sent}
    /\ WriteBack(CreateMerge[kind], ecs', FALSE)
    /\ UNCHANGED <<field, ready, called, events>>

\* newResourceDelta of the resolved spec and what sdkFind returned.  Lists are
\* compared as a whole, with the references in them.
Differs ==
    \/ /\ Within(path, Compared[kind])
       /\ Desired # Copied(Read[kind], path, ecs, Desired)
    \/ /\ ref # Nil /\ ~SurvivesCopy(Read[kind])
       /\ Within(path, {p \in Compared[kind] : Len(p) < Len(path)})

\* sdkUpdate of a cluster returns its input unless something else than the tags,
\* the capacity providers and their strategy differs.
CallsUpdateCluster(other) ==
    other \/ ~Within(path, Paths({"Tags", "CapacityProviders",
                                  "DefaultCapacityProviderStrategy"}))

\* sdkUpdate, because of this field or another one.  A new revision of a task
\* definition has what its request has; the other kinds keep what it leaves out.
Update(other) ==
    /\ Resolvable
    /\ ~Refused(UpdatePayload[kind], path, Desired)
    /\ LET sent == Sent(UpdatePayload[kind], path, Desired)
       IN  ecs' \in IF sent # Nil THEN {sent}
                    ELSE IF kind = "TaskDefinition" THEN Defaults
                    ELSE {ecs} \cup IF path \in DOMAIN UpdatePayload[kind]
                                    THEN Defaults ELSE {}
    /\ WriteBack(UpdateMerge[kind], ecs',
                 kind = "Cluster" /\ ~CallsUpdateCluster(other))

\* A reconcile of a resource that exists, the patch of the spec included.
Reconcile ==
    /\ ecs # Missing
    /\ Resolvable
    /\ called' = Differs
    /\ \/ Differs /\ Update(FALSE)
       \/ ~Differs /\ UNCHANGED <<spec, ref, ecs>>
    /\ UNCHANGED <<field, ready, events>>

-----------------------------------------------------------------------------
(* Users, others, and the other fields *)

Happens == events < MaxEvents /\ events' = events + 1

UserEdits ==
    /\ Happens
    /\ \/ spec' \in Values(kind, path) \ {spec} /\ UNCHANGED ref
       \/ ref' \in Refs(kind, path) \ {ref} /\ UNCHANGED spec
       \/ spec' = Nil /\ spec # Nil /\ ref' \in Refs(kind, path) \ {Nil}
    /\ UNCHANGED <<field, ready, ecs, called>>

\* The referenced resource comes, gets synced, gets out of sync or goes.
ReferenceChanges ==
    /\ Happens /\ ref # Nil
    /\ ready' = ~ready
    /\ UNCHANGED <<field, spec, ref, ecs, called>>

\* Somebody else changes the resource in ECS, a task definition by a new revision.
Drift ==
    /\ Happens /\ ecs # Missing
    /\ ecs' \in Defaults \ {ecs}
    /\ UNCHANGED <<field, spec, ref, ready, called>>

\* A reconcile that another field is the reason for.
OtherFieldDiffers ==
    /\ Happens /\ ecs # Missing
    /\ Update(TRUE)
    /\ called' = Differs
    /\ UNCHANGED <<field, ready>>

Next == Create \/ Reconcile \/ UserEdits \/ ReferenceChanges \/ Drift
        \/ OtherFieldDiffers

Spec == Init /\ [][Next]_vars

\* The runtime reconciles again after every edit and at every resync.
FairSpec == Spec /\ WF_vars(Create) /\ WF_vars(Reconcile)

-----------------------------------------------------------------------------
(* Properties *)

Except(gaps) == Within(path, gaps[kind])

\* The payload functions or ResolveReferences refuse the spec until it is changed.
Refusal == ~Resolvable \/ Refused(CreatePayload[kind], path, Desired)

\* A field that is set in the spec, or by its reference, gets into ECS, and then no
\* reconcile finds a difference in it any more.  It holds for every field of the
\* API types outside the lists NotRead, Stuck and (for numbers that do not fit)
\* Unchecked: a field that the generated code forgot anywhere, or converts in one
\* way and back in another, shows.
Converges ==
    <>[](\/ spec = Nil /\ ref = Nil
         \/ Refusal
         \/ Except(NotRead) \/ Except(Stuck)
         \/ Except(Unchecked) /\ spec = TooLarge
         \/ ecs = (IF ref = Nil THEN spec ELSE ref) /\ ~called)

\* The controller never replaces a value that is set in the spec, whatever ECS
\* replies, nor a reference by the value that it stands for.  Outside the fields of
\* Reverted, the ListReferences, and numbers that do not fit in the fields of
\* Unchecked, which the reply of UpdateCluster brings back cut.
UserValueKept ==
    [][ Create \/ Reconcile \/ OtherFieldDiffers
          => /\ \/ spec # Nil => spec' = spec
                \/ Except(Reverted)
                \/ Except(Unchecked) /\ spec = TooLarge
             /\ \/ ref # Nil => ref' = ref /\ spec' = spec
                \/ Except(ListReferences) ]_vars

==============================================================================
