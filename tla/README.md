# A verification of the ECS controller

This directory holds TLA+ models of the AWS Controllers for Kubernetes (ACK)
controller for Amazon ECS, the TLC configurations that check them on small
instances, and theorems that TLAPS checks for every instance.  All paths below
are relative to the repository; `K` stands for one of the four kinds
`cluster`, `service`, `task_definition`, `capacity_provider`.

Contents: 1 the system, 2 the modules, 3 the runs, 4 bounds and fairness,
5 the proofs, 6 what the models assume, 7 what the checks found, 8 what is not
modelled, 9 the plan.

## 1. The system

The controller keeps ECS resources in line with Kubernetes objects (custom
resources, CRs).  The generic half, the ACK runtime, is a library
(`go.mod`: `aws-controllers-k8s/runtime v0.67.0`) that is not in the repository.
It watches the CRs of each kind, runs a work queue per kind and, for each CR,
calls the resource manager of `pkg/resource/K` in a fixed order:

    ManagerFor, ResolveReferences, EnsureTags, ReadOne
      sync,     NotFound : MarkManaged, Create, LateInitialize, spec and status patch
      sync,     found    : newResourceDelta, Update if it differs, patch
      deletion, found    : Delete, MarkUnmanaged; when Delete fails, all of it again
      deletion, NotFound : MarkUnmanaged

| component | state | operations | interacts with | hard behaviour | what makes it correct |
|---|---|---|---|---|---|
| manager factory, `K/manager_factory.go` | a map from account/region/role to managers, an RWMutex | `ManagerFor` | all workers of a kind | check-then-act under two locks | the right manager, no unlocked map access, every call returns |
| conditions, `updateConditions`, `onError`, `onSuccess` in `K/sdk.go`, `K/manager.go` | the conditions in a CR's status | one call per operation | every operation's result; the runtime requeues by the error it is given | what survives from earlier reconciles | a success reports no failure; a terminal error has a cause |
| Service manager, `pkg/resource/service` | the CR (spec, status, finalizer); the service in ECS | sdkFind, sdkCreate, sdkUpdate, sdkDelete, newResourceDelta, ResolveReferences | Cluster CRs by `clusterRef`; ECS, autoscaling, operators | draining services, lost replies, drift between calls, edits while a call runs | no orphan, edits reach ECS, deletion ends |
| TaskDefinition manager, `pkg/resource/task_definition` | the CR; a family of immutable revisions | the same; a deletion lists and deregisters | services use the newest revision | a loop of calls that fails in the middle, pages | no active revision is left, no revisions without a reason |
| Cluster manager, `pkg/resource/cluster` | the CR; the cluster and its tags | the same; an update is up to four calls | Service CRs refer to it; CapacityProvider CRs are referred to | partial failure, merged responses | no orphan, settings and tags reach ECS and stay, updates stop |
| CapacityProvider manager, `pkg/resource/capacity_provider` | the CR; the provider | the same; late initialisation, IsSynced, EnsureReferences | Cluster CRs refer to it | asynchronous updates with stale responses, deletions that fail later | settings reach ECS, the reference and the edits survive the response |
| tags, `pkg/tags/sync.go`, `K/tags.go`, `K/manager.go` | the tags of an ARN in ECS | SyncTags; EnsureTags, mirrorAWSTags, FilterSystemTags and the conversions | SyncTags is called by clusters only | two calls, not atomic; tags of three owners in one list | the user's tags end as desired, the others' are left alone and stay out of the spec |
| field conversions, `K/sdk.go`, `K/delta.go`, `K/references.go` | none | what each operation copies, sends, checks, compares, resolves and restores, field by field | all operations of the managers | hundreds of generated copies that must agree with each other | what a user sets reaches ECS, stays in the spec, makes no difference again |
| API types, `apis/v1alpha1` | the fields of the specs | | | | |
| adoption, identifiers, `K/resource.go`, `K/identifiers.go` | none | straight-line copies | the runtime | none | |
| registry, binary, manifests | configuration | start-up | | none | |

The difficulty is not in any one function.  Every API call is a point where
the user may edit or delete the CR, somebody else may change ECS, the call may
fail or take effect with its reply lost, or the controller may stop; and each
later call rests on what an earlier one read.  `PROJECT.json` lists these
hazards at their lines, each with the properties that watch it.

## 2. The modules

| module | models | rests on |
|---|---|---|
| `ManagerFactory` | `ManagerFor` of the four kinds (the same text) | |
| `ManagerFactoryProofs` | theorems about it | `ManagerFactory` |
| `AckConditions` | the conditions, as operators | |
| `ManagedResource` | abstract: what a manager promises of a CR and its AWS resource | |
| `ServiceManager` | one Service CR, its reconciles and its ECS service | `AckConditions`; implements `ManagedResource` |
| `ServiceManagerProofs` | theorems about it | `ServiceManager` |
| `TaskDefinitionManager` | one TaskDefinition CR and its family | implements `ManagedResource` |
| `TaskDefinitionManagerProofs` | theorems about it | `TaskDefinitionManager` |
| `ResourceTags` | tags: what `K/tags.go`, `K/manager.go` and `pkg/tags/sync.go` do with them, as operators | |
| `ClusterManager` | one Cluster CR, its reconciles and its ECS cluster | `ResourceTags`; implements `ManagedResource` |
| `ClusterManagerProofs` | theorems about it | `ClusterManager` |
| `CapacityProviderManager` | one CapacityProvider CR and its provider in ECS | `ResourceTags` |
| `CapacityProviderManagerProofs` | theorems about it | `CapacityProviderManager` |
| `ServiceInCluster` | a Service CR, the Cluster CR it refers to and both managers | `ServiceManager`, `ClusterManager` |
| `ServiceInClusterProofs` | theorems about it | `ServiceInCluster` |
| `FieldTables` | the vocabulary of the five tables below | |
| `FieldTablesProofs` | rules to compare tables by | `FieldTables` |
| `ApiTypes` | the fields of the four specs with their types and references | `FieldTables` |
| `TaskDefinitionFields`, `ServiceFields`, `ClusterFields`, `CapacityProviderFields` | what each operation of a kind does with each field | `FieldTables` |
| `FieldConversions` | one field of one CR on its way to ECS and back | the tables |
| `FieldConversionsProofs` | theorems about it | `FieldConversions`, `FieldTablesProofs` |

**ManagerFactory.**  `rmCache`, the lock (`readers`, `writer`, `waiting`) and
per worker a program counter and the locals of `ManagerFor`.  Each line of
`ManagerFor` that touches shared state is an action: `RLock`, `LookUp`,
`RUnlock`, `Lock` (its first half makes the worker wait and holds back new
readers, as `sync.RWMutex` does), `NewResourceManager`, `Store`, `Unlock`,
`Return`.

**AckConditions.**  A condition is absent until it is first set.
`updateConditions` takes the conditions and an error, and keeps what the code
keeps: in the terminal branch the recoverable condition is not touched.
`onError` gives the runtime `ackerr.Terminal` when the terminal condition is
true.

**ManagedResource.**  Three variables: the object, whether the finalizer holds
it, and whether the AWS resource exists.  A resource is provisioned only while
held, deprovisioned only in a deletion, and let go only when it does not exist.

**ServiceManager.**  The state is the CR (`crState`, `finalizer`, `spec`,
`cond`), the work queue (`queued`, `outcome`), the running reconcile (`pc`,
`mode`, `cluster`, `desired`, `latest`, `work`) and ECS (`svcStatus`,
`svcSpec`, one service per cluster: the CR's and the account's default one).
One API call is one action, and a separate action lets it fail.

| action | code |
|---|---|
| `Begin` | the runtime reads the CR; `ResolveReferences` (`references.go`) |
| `FindNothing`, `FindDraining`, `FindForSync`, `FindForDelete`, `FindFails` | `ReadOne`, `sdkFind` with its two status guards, `newResourceDelta` |
| `SetManaged`, `CreateService`, `CreateFails`, `CreateReplyLost` | `MarkManaged`, `Create`, `sdkCreate` |
| `UpdateService`, `UpdateFails` | `Update`, `sdkUpdate`, `newUpdateRequestPayload` |
| `PatchSpec`, `PatchFails` | the runtime's merge patch of desired against latest |
| `ScaleDown`, `DeleteService` and their failures | `sdkDelete`: UpdateService to zero, then DeleteService |
| `Release`, `ReleaseFails` | `MarkUnmanaged` |

A spec is a function from field names to values.  Which of the fields each
operation handles is data read off the code: `NotReadBack` (fields that
`sdkFind` leaves as desired has them), `newUpdateRequestPayloadFields` (fields
that UpdateService is sent), `SyncedFields` (fields in both).  `Fields` is a
parameter, so a run follows the fields it is about and the proofs hold for
every choice.

**TaskDefinitionManager.**  The CR, the running reconcile and the sequence of
the family's revisions.  What is compared, sent and read back is one value, a
*template* `[image, filled]`: the list of container definitions is compared and
patched as a whole, and `filled` tells whether it has the defaults that ECS
adds to what it reports.  `RegisterTaskDefinition` is both `sdkCreate` and
`sdkUpdate`.  `List` and `DeregisterTaskDefinition` are the two halves of
`sdkDelete`: one call lists at most `PageSize` active revisions, oldest first,
and a loop, one step per turn, deregisters them.

**ResourceTags.**  A list of tags is a function from keys to values or
`NoTag`.  Besides the user's keys there is the key of the controller's default
tag (`--resource-tags`) and one of an AWS service (`aws:...`): `EnsureTags` adds
the first to what is sent, `mirrorAWSTags` adds the second to what is compared,
and `FilterSystemTags` takes both out of what is patched into the spec.

**ClusterManager.**  The same state as in the service's module, with one record
`ko` for the spec and the ARN of the status.  `sdkUpdate` is a sequence of calls
`tag`, `untag`, `put`, `update`, of which `CallsOfUpdate` gives those that the
delta asks for; each is an action of its own, so edits, drift, failures and a
crash fall between them.

| action | code |
|---|---|
| `Begin` | the runtime reads the CR; `ResolveReferences`, `EnsureTags` |
| `FindNothing`, `FindForSync`, `FindForDelete`, `FindFails` | `ReadOne`, `sdkFind`, `IsManaged`, `newResourceDelta` |
| `SetManaged`, `CreateCluster`, `CreateFails`, `CreateReplyLost` | `MarkManaged`, `Create`, `sdkCreate`, whose check of `clusterActive` only hastens the next reconcile; `CreateEnds` is what the runtime does when `Create` returns no resource |
| `TagResource`, `UntagResource` | `SyncTags` with `addTags` and `removeTags` |
| `SyncTagsPanics` | `sdkUpdate` dereferences an ARN that is not in the status |
| `PutClusterCapacityProviders`, `UpdateCluster` | the other two calls of `sdkUpdate`; only the last has a response that is merged |
| `UpdateRefused`, `UpdateFails` | a call that ECS does not take at the time or rejects for what it holds (`MayBeInvalid`, then `terminalAWSError`), and one that fails before or after its effect |
| `PatchSpec`, `PatchFails`, `DeleteCluster`, `DeleteFails`, `Release`, `ReleaseFails` | as for services |

With `ByRef` the list in `ko.CapacityProviders` stands for
`CapacityProviderRefs`, and `Patched` says that `ClearResolvedReferences` keeps
the names themselves out of the spec.

**CapacityProviderManager.**  A provider of the managed instances kind.  ECS
works in the background: `status` and `updateStatus` are ECS's, `pending` is the
provider as the running update will leave it, `Settled` and `Failed` end it.
`UpdateMerge` is the merge of a stale response (tags and status only, the
settings are left out on purpose by `generator.yaml`), `EnsureReferences`
restores the reference inside the rebuilt struct, and after a patch or an empty
delta `LateInitialize` reads again and `PatchLateInitialized` writes what it
found.  A resource that is not ACTIVE is requeued (`IsSynced`).

**ServiceInCluster.**  The composition: an instance of `ServiceManager` and one
of `ClusterManager`, whose steps interleave.  What each leaves open about the
other is here what the other's state makes of it: the reference resolves when
the Cluster object is there and synced (`ReferenceResolves`, for the service's
`refReady`), and the cluster is occupied while the service is active or drains
(`Occupied`).  `ClusterNotFound` is a call of the service's manager for a
cluster that has gone meanwhile, and a crash stops both managers.

**The field tables.**  `ApiTypes` has one operator per Go struct that occurs in
a spec; `<Kind>Fields` has a table per operation, part by part in the order of
the code: `Read` (`sdkFind`), `CreateMerge`, `UpdateMerge`, `CreatePayload`,
`UpdatePayload`, `Compared` (`newResourceDelta`) and the fields that
`references.go` deals with.  A table is a function from the path of a field to
how the code treats it (`FieldTables` names the classes): a pointer that may be
absent, an SDK field that cannot be absent, an integer that is checked to fit in
32 bits, an integer that is cut.

**FieldConversions.**  The state is one field: its value in the spec, the
reference next to it, whether that resolves, and its value in ECS.  Create and
Update send, let ECS default what is left out, copy the reply and patch the
spec.  Every field of the four specs takes a turn as an initial state, so TLC
checks each against all the tables at once.

An operator that a comment calls a mutant is a plausible bug: put in the place of the
definition after it, it breaks a property of a run.  The runs' mutants are in
`PROJECT.json`; they show that each property can fail.

## 3. The runs

| run (`.cfg`) | properties | result |
|---|---|---|
| `factory` (`ManagerFactory`) | `TypeOK`, `RightManager`, `NoConcurrentMapAccess`, `OneBuildPerWorker`, `CallsReturn`, no deadlock | hold |
| `lifecycle` (`ServiceLifecycle`) | `TypeOK`, `SyncedMeansActive`, `CleanAfterSuccess`, `TerminalOnlyByDrift`, `UserEditSurvives`, `ImplementsLifecycle` | hold |
| `convergence` (`ServiceConvergence`) | `NothingInDefaultCluster`, `SpecReachesECS`, `DeletionCompletes` | hold |
| `ref_orphan` (`ServiceRefOrphan`) | `NoOrphan` | violated |
| `tags` (`ServiceTags`) | `TagEditIsKept` | violated |
| `task_definition` (`TaskDefinition`) | `TypeOK`, `NoSpuriousRevisions`, `ImplementsLifecycle`, `NewestRevisionIsDesired`, `DeletionCompletes` | hold |
| `td_pages` (`TaskDefinitionPages`) | `NoOrphan` | violated |
| `cluster` (`Cluster`) | `TypeOK`, `LeavesAwsTagsAlone`, `SpecHoldsUserTagsOnly`, `NoPartialReference`, `TerminalHasReason`, `ImplementsLifecycle`, `PatchKeepsEdits`, `SpecReachesECS`, `UpdatesStop`, `DeletionCompletes` | hold |
| `cluster_lost_status` (`ClusterLostStatus`) | `TagsReachECS` | violated |
| `capacity_provider` (`CapacityProvider`) | `TypeOK`, `OrphansHaveKnownCauses`, `RefStaysDeclared`, `StaleReplyNotAdopted`, `SettingsReachECS`, `LateInitializationCompletes` | hold |
| `app` (`ServiceInCluster`) | `ClusterOutlivesService`, `InstallCompletes`, `UninstallCompletes` | hold |
| `fields` (`Fields`) | `Converges`, `UserValueKept` | hold |

What the passing runs show, beyond types:

- `ImplementsLifecycle`: through failed calls, lost replies of updates and
  deletions, crashes, deletion and re-creation in any order, the AWS resource
  never outlives its CR and the CR never loses its finalizer before the resource
  is gone.  It implies `NoOrphan`, since `ManagedResource` provisions only under
  the finalizer and lets go only what does not exist.  For services
  this needs a CR that names its cluster directly (see
  `ref_orphan`), for task definitions a family that fits in a page (see
  `td_pages`).
- `SyncedMeansActive`: a reconcile ends well only on an active service, also
  when the CR was created again while the old service was draining.
- `TerminalOnlyByDrift`: the calls the controller makes by itself are never
  rejected with `InvalidParameterException`, which would end the retries: it
  scales down before it deletes, asks for a forced deployment when the capacity
  provider strategy changes, and leaves draining services alone.
- `UserEditSurvives`: the spec patch after an update does not undo an edit the
  user made while the update ran.  It is about fields that the reconcile read
  as set and that both UpdateService takes and DescribeServices reports; the
  response then has the value desired had and the merge patch leaves it out.
- `SpecReachesECS`: once edits, drift and faults stop, and the reference
  resolves, ECS has the values of the spec, unless drift has made the object
  terminal (`EndedByDrift`): the strategy may change in ECS between the read and
  UpdateService, which is then rejected for good.
- `NoSpuriousRevisions`: a revision is registered at most once per CR, edit,
  lost revision and fault.  It needs the spec patch: without it each resync
  would register another revision.
- `NewestRevisionIsDesired`: the revision that a service of the family gets is
  in the end the one the CR describes, unless ECS rejected the template and the
  object is terminal.
- `DeletionCompletes`: a deletion ends.  For services it may instead end in a
  terminal error, if something drifted; for clusters
  it waits until the services in the cluster are gone.
- Cluster, `SpecReachesECS`: an update that is cut off between its calls is
  completed by later reconciles, although PutClusterCapacityProviders is refused
  while ECS still works on an earlier one, unless the object is terminal.
- Cluster, `UpdatesStop`: the calls of updates come to an end, except for one
  that does not: while the strategy has an item with Base or Weight unset, or a
  number over 32 bits, PutClusterCapacityProviders is called at every resync
  (section 7).  The other calls end then, too.
- `LeavesAwsTagsAlone`, `SpecHoldsUserTagsOnly`: the tags of the user, the
  controller and AWS services stay apart, whoever changes them between which
  calls.
- `NoPartialReference`: the references are resolved one by one into the list in
  place, yet a part of the list never becomes the cluster's.
- `PatchKeepsEdits`: the merge of UpdateCluster's reply overwrites the whole
  spec of the copy, yet the patch leaves what the user wrote meanwhile; drift
  between two calls of one update is adopted into the spec, so the property
  speaks of runs without drift.  It also leaves out fields that the reconcile
  read as not set, and strategies that are incomplete or oversized: the reply's
  values do become the spec's there.
- Cluster, `TerminalHasReason`: an object stays terminal, which ends the retries,
  only for a reason that users can see: its cluster's name was in use before, a
  capacity provider that the spec names went away at some time, or the spec has a
  number over 32 bits, which `int32()` makes one that ECS may reject.  No fault,
  drift, crash or refused call does it.
- `OrphansHaveKnownCauses`: a provider is orphaned in two ways only: ECS accepts
  its deletion and later fails it, or the reply of CreateCapacityProvider is lost
  and the runtime takes the finalizer off.
- `RefStaysDeclared`, `StaleReplyNotAdopted`, `SettingsReachECS`,
  `LateInitializationCompletes`: what background updates, stale replies,
  rebuilt structs and failed second reads do not break.  The last two except
  objects that ECS made terminal by rejecting a call.
- `ClusterOutlivesService`: the two objects may be
  deleted in either order, or created again between any two calls of a reconcile
  that rests on the reference; the finalizers and ECS's refusal still keep
  the Cluster object as long as the service is active.
- `InstallCompletes`: created in any order, the service ends up running in its
  cluster; it rests on ClusterNotFoundException not being among the terminal
  errors.
- `UninstallCompletes`: both objects go in the end.  Its exception, a service
  that runs on without its object, is what `ref_orphan` is about, and it keeps
  the Cluster object for ever.
- `Converges`, `UserValueKept`: each field of each kind is sent, read back,
  compared and kept consistently, outside five lists of exceptions
  (section 7), none of which can be shortened without a violation.

## 4. Bounds and fairness

`MaxLives`, `MaxEdits`, `MaxDrifts`, `MaxFaults` and `MaxRefs` bound how often
the user creates and edits the CR, others change ECS, a call fails or the
controller stops, and the reference changes.  The controller's own steps are
not bounded.

- Two lives let a CR meet the service, or the revisions, of its predecessor.
- Two edits let one fall before and one into a reconcile.
- Two faults let a retry fail again, or a crash follow a lost reply.
- `lifecycle` lets the runtime drop the finalizer after a failed Create,
  `convergence` lets it keep it and CreateService lose its reply; the proofs
  cover both.  In the capacity provider's module either may happen each time.
- Both fields drift in `lifecycle` and in `convergence`, so a change of the
  strategy meets UpdateService in either.
- Two fields, the desired count and the capacity provider strategy, are the
  two that the code treats specially (scale-down, forced deployment); `Tags`
  stands in the run that is about it.
  Values 0 and 1 tell zero from not zero, `Nil` is a field that is not set.
- `PageSize` 8 is more than the revisions the other bounds allow; 1 is the
  smallest page that can overflow.  ECS's is 100.
- `convergence` has one life: after the orphan of `ref_orphan` a second life
  would begin with a service the CR does not manage.
- `app` has one life of the service and three events of the cluster, among them
  its lives; one spec field suffices, since no edits or drift are in it.
- In the cluster, capacity provider and field runs one bound, `MaxEvents`,
  covers everything the environment does.  Three events let a CR be created
  twice and meet a fault, or be created once and meet any two of an edit, a
  fault, drift and a reference that comes or goes.
- A cluster has two capacity providers (a reference list can be cut in the
  middle), one user tag besides the two system tags, and four strategies: none,
  a plain one, one with an item that leaves Base or Weight unset, and one with
  a number over 32 bits.
- `fields` has a largest integer `MaxInt32` of 3 instead of 2^31 - 1: the
  properties tell values that fit from one that does not, and its low bits from
  both.  Three events let an edit, a drift and an update for another field's
  sake meet.  What it says of user values is proved for every `MaxInt32`.
- Two workers and two keys are enough for each worker to miss, wait behind and
  meet the other on the same and on different keys; the proofs cover any number.

All runs but `factory` say `CHECK_DEADLOCK FALSE`: when the CR is
absent and the bounds are used up the system has nothing left to do.

Fairness, only in the runs with liveness:

- `WF(Reconcile)`: a worker takes what is queued and goes on.  The queue
  retries an error after a back-off without end.
- `WF(Resync)`: a CR that reconciled is queued again after
  `reconcile.defaultResyncPeriod` (36000 s, `helm/values.yaml`).
- `WF(Drained)`, `WF(Provisioned)`, `WF(Settled)`: ECS finishes what it began:
  it stops the tasks of a deleted service, attaches the providers of a cluster,
  ends an update or a deletion of a provider (which may fail).
- `WF(Vacated)`, `WF(Detached)`: whoever runs services in a cluster, or uses a
  provider in one, stops some day; without that ECS refuses the deletion for
  ever.
- In `app`, `WF` of each of the two workers and of each of the two resyncs, since
  the kinds have a queue each, and `WF(Drained)`.
- In `fields`, `WF(Create)` and `WF(Reconcile)`, by the same resync.
- In the factory, weak fairness of each worker's steps (goroutines are
  scheduled) and strong fairness of `RLock` and `Lock` (an RWMutex starves
  neither readers nor writers).  No fairness of `Call`.

Nothing is assumed of the user, of drift and of faults.

## 5. The proofs

The proof modules follow one argument: a conjunction `IInv` that holds
initially and that each step keeps, one lemma per conjunct with one step per
action, `Invariance` from these, and each property as a consequence.

`ManagerFactoryProofs`, for any workers, accounts, regions and roles:
`TypeCorrect`, `MapAccessSafe`, `ManagerIsRight`, `BuildsAreBounded`.  `IInv`
adds to the types `LockInv` (who holds the lock is who stands between the lock
and the unlock, and a writer stands alone), `KeyInv` (each cache entry, and the
manager in a worker's hand, is for its key) and `BuildInv` (a manager that was
built has its key in the cache or is in the hands of its builder, and a worker
that found nothing has built nothing for the key).  `BuildInv` is needed because
"at most one build per worker" is not inductive: a step before a second build
looks like a step before a first one unless the miss is remembered.

`ServiceManagerProofs`, for any fields, values, bounds and both behaviours of
the runtime after a failed Create (`Unmanages`): `TypeCorrect`,
`DefaultClusterStaysEmpty`, `SuccessLeavesCleanConditions` and `EditsSurvive`
without condition; `ServiceIsNeverOrphaned` and `TerminalNeedsDrift` for a CR
that names its cluster (`~ByRef`); `SuccessMeansActive` when nobody else
deletes the service (`~OthersDelete`); and `ManagerImplementsLifecycle`, the
refinement of `ManagedResource`, under both.  The strengthening:

- `HoldInv`: an object being deleted has its finalizer, an absent one has
  none, an active service implies the finalizer.
- `PhaseInv`: what a reconcile at a given call may rely on, such as that at
  `create` the service is missing or inactive and the finalizer is on, and at
  `release` the service is not active.  Without it `Release` could take the
  finalizer off an active service.
- `OutcomeInv`: the conditions in hand are clean before a success is recorded,
  and the service is active when `pc` is `patch`.
- `PatchInv`: where the reconcile read a set field that is sent and read back,
  `latest` agrees with `desired`.
- `CalmInv`: while nothing has drifted, what the reconcile read is still so,
  and a service about to be deleted is scaled to zero.

`TaskDefinitionManagerProofs`, for any container definitions, page size and
bounds: `TypeCorrect` and `RevisionsHaveReasons` without condition;
`FamilyIsNeverOrphaned` and `ManagerImplementsLifecycle` as long as a page of
ListTaskDefinitions holds the active revisions of the family (`[]Fits`).  The
run `td_pages` shows that they need it.  The strengthening:

- `HoldInv`, `PhaseInv`: as for the service.
- `RoomInv`: `Room` is what has happened so far less the revisions registered
  for it.  That it never is negative is the property, but a step before a
  superfluous registration would look like one before a due registration; so
  the invariant reserves one unit for what the running reconcile may register
  and one for an edit it has not seen, and gives both back when the response's
  defaults have reached the spec.
- `PageInv`: at each turn of the loop the ARNs ahead include every active
  revision, so that none is left when the finalizer comes off.

`ClusterManagerProofs`, for any tags, settings, capacity providers and bounds,
with names or references (`ByRef`) and with both behaviours of the runtime
(`Unmanages`): `TypeCorrect`, `ClusterIsNeverOrphaned`, `AwsTagsLeftAlone`,
`SpecHoldsUserTags`, `ReferencesWhole`, `TerminalErrorsHaveReasons` and
`ManagerImplementsLifecycle` without condition, and `PatchKeepsWhatUsersWrote`
when the replies of UpdateCluster are complete (`~RepliesWithoutTags`).  Its
strengthening:

- `HoldInv`, `PhaseInv`: as for the service; in addition, an object that is
  live under its finalizer has no cluster that is going away, and a reconcile
  that has come to a call of an update has a cluster that exists.
- `TagInv`: between ReadOne and the last call of an update, desired and latest
  have the same tag of AWS services, since `mirrorAWSTags` copied it; what an
  AWS service does meanwhile changes neither.
- `ReferenceInv`: only a reconcile that deletes may hold a part of the list.
- `LivesInv`: a cluster that is going away under a live object belongs to an
  earlier life of it, so the object was created twice.
- `ReasonInv`: unless the object has been queued again, what a running reconcile
  sends is what the object says.  ECS rejects `desired`, which was read long
  before; the property speaks of the spec users see, and an edit in between
  leads to another reconcile.
- `CalmInv`, for the patch: at each call of an update, ECS has the tags, lists
  and settings of `desired` where an earlier call has sent them and those of
  `latest` elsewhere.  `PatchKeepsEdits` says nothing before the last call, so
  what each earlier one has achieved has to be carried along, and
  `NextCallEffect` shows that a call that was passed over had nothing to do.

`CapacityProviderManagerProofs`, for any settings, tags and bounds and with the
role named or referenced (`ByRef`), all without condition: `TypeCorrect`,
`OrphansHaveTwoCauses`, `ReferenceStaysDeclared` and
`StaleRepliesAreNotAdopted`.  Its strengthening:

- `HoldInv`: the finalizer is on an object that is being deleted and on none that
  is absent; ECS updates only what is active.
- `PhaseInv`: what a reconcile at a call may rely on, as above; at `release` the
  provider is gone, or its deletion has failed since ECS accepted it.
- `ReferenceInv`: the role is in every resource that ECS replied with, the
  reference only in the object and what was read from it, and the two resources
  of a patch differ in it only after a creation.
- `PatchInv`: a resource that is about to be patched has the settings that the
  reconcile read from the object, whatever the reply said.

`ServiceInClusterProofs`, for any bounds of the two environments, all without
condition: `ClusterStaysForItsService`, `NothingElsewhere`, `ReleaseNeedsAnswer`
and `ClusterKeepsItsContract`.  Neither manager's invariant says anything of the
other, so the theorems of the two do not add up to one about both: the service's
manager takes it from its environment whether the reference resolves, and the
cluster's whether ECS refuses to delete an occupied cluster.  The strengthening:

- `HoldInv`, `PhaseInv`: the cluster's, reduced to the finalizer, the status in
  ECS and the call at hand.
- `ServiceInv`: the service's, of which only this is needed: a sync is always in
  the named cluster, and at `release` the service is stopped or the deletion is
  about the default cluster.
- `Housed`: an active service is in a cluster that exists.  It couples the two
  and is what makes `ClusterOutlivesService` inductive.  The property only
  speaks of the Cluster's object and finalizer; a step before the finalizer
  comes off, what keeps it on is that ECS still has the cluster, and what keeps
  ECS from deleting it is `Occupied`.  Conversely a CreateService may be under
  way while the cluster goes: it then ends in `ClusterNotFound`, not in a service
  without a cluster.

`ClusterKeepsItsContract` is the refinement of `ManagedResource` inside the
composition: each step of the two, those of the service included, is a step of
the abstract lifecycle of the Cluster or leaves it alone.  The service's half has
no such theorem, and cannot have one: a deletion whose reference does not resolve
releases the Service object while its service runs (run `ref_orphan`).
`ReleaseNeedsAnswer` states what is left: this is the only way.

`FieldConversionsProofs`, for any width of integers and number of events: `Typed`;
`WhatTheUserWroteStays`, the property `UserValueKept` of the run `fields`; and
two theorems that are what `Converges` rests on, less the fairness:
`EveryReconcileTakesEffect` (what the CR wants is in ECS after every create and
every reconcile that is not refused) and `SettledStaysQuiet` (once it is there, no
reconcile calls ECS because of it).  It is about all the fields of the four specs and all the tables, but the proof
has no case per field.  It compares whole tables by the rules of
`FieldTablesProofs`:

- `Covers(t, u)`: a field that `u` copies from a reply was in the request of `t`.
  It goes through `As`, `In` and `@@` the way the tables are written, so a proof
  that one table covers another follows the two side by side
  (`TaskDefinitionReply`, `ServiceReply`, ... for creations and
  `ServiceUpdateReply`, ... for updates, less the fields of `Reverted`).
- `CutOnlyAt(t, paths)`: integers that a table cuts without a check are on these
  paths, which gives `Unchecked`.
- `AllWithin`, `PathsApart`, `BelowApart`: the fields with a reference that the
  code resolves, clears and restores are the same, or lie in `ListReferences`.
- `Bypassed(f, paths)`: none of the paths leads to a struct around the field, so a
  reference beside it is not compared (`ReferencesBypassed`).

From these, `SentAsItIs` says that what passed the payload function reaches ECS
as it is, so that the reply brings it back; `ReferenceAlone` that a reference
which the checks let pass is the only source of the value, and `ReferenceKept`
that the patch leaves it so.
`UserValueKept` compares what the generated code does with what it does
elsewhere.  The other two measure it against the API types, field by field:
`EveryFieldSent` (by `sdkCreate`), `EveryFieldRead` (by `sdkFind`, less `NotRead`),
`EveryFieldUpdated` (by `sdkUpdate`, less `Stuck`, and `Reverted`, which it copies
back) and `EveryFieldCompared` (by `newResourceDelta`).  The launch template of a
capacity provider has too many fields for one step; `InstancesA`, ... are its
struct in parts that the code handles in one place each, and `InstancesWhole`
puts them together again.
The invariant is `Types`: without it the payload could be handed a value that
`Refused` does not recognise.  The tables of the four kinds are instances of the
same vocabulary with operators of their own, so the first four lemmas
(`TaskDefinitionOperators`, ...) identify them with those of `FieldTables`.
That module defines `@@` itself instead of taking it from `TLC`, for the
provers expand it only where its definition is a project's own; and the rules
are in a module of their own because expanding `@@` where all tables can be seen
takes more memory than there is.

The bounds are arbitrary naturals in the proofs, so they limit nothing there.
The proofs use only the modules' named assumptions on constants, which TLC
evaluates in the runs.  Every invariant and every action property of a passing
run is a theorem.  What stays with TLC is liveness (`CallsReturn`,
`SpecReachesECS`, `UpdatesStop`, `DeletionCompletes`, `NewestRevisionIsDesired`,
`SettingsReachECS`, `LateInitializationCompletes`, `InstallCompletes`,
`UninstallCompletes`, `Converges`), since it needs fairness and `ENABLED`, and
the four runs that show a violation.

## 6. What the models assume of code that is not here

- The runtime puts the finalizer on before `Create`, and takes it off after a
  deletion found nothing or `Delete` reported success.  After a failed `Create`
  it may take it off again (`Unmanages`) unless the error is a post-create
  error; both are modelled.  For services and clusters, `CreateReplyLost` is
  checked without it: a runtime that drops the finalizer when the reply is lost
  orphans the resource whatever this code does.  The provider's module has both
  together, and `OrphansHaveKnownCauses` says what they lead to.
- A deletion goes on when `ResolveReferences` fails; a sync ends.
- A resource that exists while the CR has no finalizer is not adopted but
  reported as a terminal error.
- A terminal error, the runtime's own or the `InvalidParameterException` of
  `terminalAWSError`, is not retried before the object changes or the
  controller restarts.
- The spec patch is a merge patch of desired against latest, without an
  optimistic lock.
- The patch applies `ClearResolvedReferences`, `FilterSystemTags` and, where the
  kind has it, `EnsureReferences` to what it writes.
- `Update` is given the resource that was read from Kubernetes, with the tags
  of `EnsureTags` and `mirrorAWSTags`; a worker that panics recovers and
  requeues the object.  Only `cluster_lost_status` rests on the two.
- Whether a reconcile that fails takes the condition `ACK.ResourceSynced` back, and
  with it the reference, is left open (`SyncedAfter` in `ServiceInCluster`).
- One controller and one reconcile of a CR at a time.
- ECS: CreateService is rejected while a service of that name is active or
  draining; DeleteService is rejected above zero; a changed capacity provider
  strategy needs a forced deployment; a deleted service drains, is INACTIVE and
  is then forgotten; values are reported in the form the user wrote.  CreateCluster
  of an active cluster returns it; a change of its providers, or its deletion
  with providers, takes a while; DeleteCluster is rejected while services run
  in it or the providers are changed; the reply of UpdateCluster carries the
  tags (`RepliesWithoutTags` is the other case, in which `Spec.Tags` would be
  cleared).  UpdateCapacityProvider replies with the provider as it was before,
  is rejected while another update runs, and may fail after its reply; so may
  DeleteCapacityProvider, which is rejected while a cluster uses the provider.  A default
  cluster exists.  ECS may answer with `InvalidParameterException` where what it is
  sent gives a reason: to services in the cases above; to clusters for a capacity
  provider that does not exist and for a number that `int32()` cut to one out of
  range; for task definitions to any RegisterTaskDefinition, and for providers to
  any create, update or deletion.  Every other failure is one that passes.
  DescribeTaskDefinition with a family describes its newest active revision; a clean-up by others leaves the last one.

## 7. What the checks found

Each of these is a run with one property, stated in the repository's words, that
TLC shows to be violated; `PROJECT.json` quotes the text.

1. `ref_orphan`: a Service CR deleted while its `clusterRef` does not resolve
   is looked for in the default cluster, not found, and let go although its
   service runs (`service/references.go:176`).
2. `tags`: an edit of a service's tags makes a delta but no call carries it;
   the response then overwrites the spec (`service/sdk.go:2021`).
3. `td_pages`: `sdkDelete` ignores `NextToken`; beyond one page of revisions
   the rest stay active without a CR (`task_definition/sdk.go:3602`).
4. `cluster_lost_status`: after a crash between CreateCluster and the status
   patch the object has no ARN; a difference in the tags then dereferences a
   nil pointer in every reconcile (`cluster/sdk.go:683`).

The exceptions of `Converges` and `UserValueKept` are lists in
`FieldConversions`; each stands for something the code does not do:

| list | fields | what happens to an edit |
|---|---|---|
| `NotRead` | TaskDefinition `Tags`; Service `Role`, `ServiceConnectConfiguration`, `VolumeConfigurations` | `sdkFind` does not read it back (`service/sdk.go:112`, `task_definition/sdk.go:79`): no difference, so an edit of it alone makes no call |
| `Reverted` | Service `LaunchType`, `SchedulingStrategy`, `Tags`; CapacityProvider `Tags` | a difference, a call without it, and the reply's old value in the spec; for the provider although `generator.yaml:78` means to "avoid improperly mutating spec fields to stale values" |
| `Stuck` | CapacityProvider `CapacityOptionType`, `FipsEnabled` of the launch template | a difference and a call without it at every resync (`capacity_provider/sdk.go:1717`) |
| `Unchecked` | Cluster `Base` and `Weight` of the default strategy, numbers over 32 bits | sent cut, re-sent at every resync, and brought back cut by the next UpdateCluster (`cluster/sdk.go:705`) |
| `ListReferences` | the references in Service `LoadBalancers` | replaced by what they resolve to at the first create, as the comment of `EnsureReferences` documents |

Other behaviour a reader of the code should know, which the properties leave out
or no run shows:

- When an item of a cluster's strategy leaves Base or Weight unset, ECS reports 0.
  The delta takes nil and 0 for different (`cluster/delta.go:118`), and an update
  that only calls PutClusterCapacityProviders returns without writing anything
  back (`cluster/sdk.go:723`), so the call is repeated at every resync.
  `UpdatesStop` exempts it and fails without the exemption.
- A base or weight over 32 bits that is cut to a negative number makes a cluster
  terminal at its first update (`cluster/sdk.go:705`); create checks the range and
  reports an error instead.  So does a capacity provider that goes between the
  resolution of its reference and the call, although the cause may pass: a
  terminal object waits for an edit or a restart (`TerminalHasReason`).
- A CreateCapacityProvider whose reply is lost leaves a provider without its object
  if the runtime then takes the finalizer off (`capacity_provider/sdk.go:520`), and
  so does a deletion that fails after ECS accepted it
  (`capacity_provider/sdk.go:1815`).
- Two workers that miss in the manager cache together build two managers for one
  key; there is no second look-up under the write lock
  (`service/manager_factory.go:70`).  Harmless while managers are stateless;
  `OneBuildPerWorker` is what remains true.
- The reply of RegisterTaskDefinition carries ECS's defaults, so the whole list
  of container definitions is patched into the spec, over an edit that the user
  made while the call ran (`task_definition/sdk.go:2217`).  Compare
  `UserEditSurvives`, which holds for the scalar fields of a service.
- `name` is optional in the CRD of a cluster (`apis/v1alpha1/cluster.go:69`),
  but `sdkFind` dereferences it (`cluster/sdk.go:75`).  The model's CRs have a
  name.

## 8. What is not modelled

- Service: a change of `Cluster` or `Name` of an existing CR.
- TaskDefinition: a change of the family; the conditions are those of
  `AckConditions`, checked with the service.
- Cluster: the status fields besides the ARN and the status, and the status
  FAILED, which `sdkFind` treats like ACTIVE: it would be a cluster whose calls
  all fail.  When the reply of CreateCluster is not ACTIVE, `sdkCreate` takes
  `ACK.ResourceSynced` back, which hastens the next reconcile; that there is one is
  in the model in either case.
- The error code `UNKNOWN`, which `sdkFind` of clusters, services and providers
  takes for NotFound (`cluster/sdk.go:91`): a placeholder of the generator that ECS does not send.
- `validateReferenceFields` in the manager modules, whose objects pass it; it is
  in the tables and `FieldConversions`.
- `FieldConversions` has one field at a time, in structs that are there: what
  two fields do to each other, structs that come and go, and lists of several
  elements are left out.  Names and what the CRD makes immutable (`Fixed`) do
  not change in it, and late initialisation is in `CapacityProviderManager`.
- `zz_generated.deepcopy.go`: generated copies, modelled by TLA+'s values having
  no aliases.  Status types and enumerations: only what the managers test.
- Adoption, identifiers, registry, start-up, manifests: sequential copies or
  configuration without behaviour of their own.
- Two controllers at once (leader election is off by default).

## 9. The plan

Done: the modules of section 2, the proofs of the factory, of the four managers,
of the composition of a service with its cluster and of the fields.

Next, in this order:

1. Two controllers at once during a rolling update.
2. `Cluster` and `Name` of a Service CR as fields that the user may edit.
3. Edits during a reconcile in `FieldConversions`: its reconciles are atomic, and
   the manager modules, which take them apart, have one field each.
