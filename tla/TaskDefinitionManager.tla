------------------------ MODULE TaskDefinitionManager ------------------------
(***************************************************************************)
(* One TaskDefinition custom resource, the resource manager that           *)
(* reconciles it (pkg/resource/task_definition) and the family of          *)
(* revisions it has in ECS.                                                *)
(*                                                                         *)
(* A revision is never changed: an update registers another one, and a     *)
(* deletion deregisters those that one call of ListTaskDefinitions         *)
(* returns, one call each.  As in ServiceManager each API call is a step;  *)
(* the order of the calls, the finalizer and the spec patch are the ACK    *)
(* runtime's.  The template stands for the fields that are compared, sent  *)
(* and read back; it is one value because the list of container            *)
(* definitions is compared and patched as a whole.                         *)
(***************************************************************************)
EXTENDS Naturals, Sequences, FiniteSets

CONSTANTS
    Images,      \* what distinguishes one list of container definitions from another
    PageSize,    \* how many ARNs ListTaskDefinitions returns at most
    MaxLives, MaxEdits, MaxDrifts, MaxFaults   \* the environment's bounds

ASSUME ConstantsAssumption ==
    /\ Images # {}
    /\ PageSize \in Nat \ {0}
    /\ {MaxLives, MaxEdits, MaxDrifts, MaxFaults} \subseteq Nat

\* A list of container definitions, with or without the defaults ECS fills in.
Templates == [image : Images, filled : BOOLEAN]
NoTemplate == [image |-> CHOOSE i \in Images : TRUE, filled |-> FALSE]

Revisions == [image : Images, status : {"ACTIVE", "INACTIVE"}]
Budgets == {"lives", "edits", "drifts", "faults"}

VARIABLES
    crState,     \* the Kubernetes object: absent, live or deleting
    finalizer,   \* whether it carries the ACK finalizer
    template,    \* the container definitions in its spec
    outcome,     \* how its last reconcile ended
    queued,      \* whether it is in the work queue
    pc,          \* the next call of the running reconcile
    mode,        \* sync or delete, as the object was when it was read
    desired,     \* the template it read
    latest,      \* the template of the resource the last operation returned
    arns,        \* the revisions sdkDelete has still to deregister
    revisions,   \* ECS: the revisions of the family, by number
    left         \* what is left of each bound

crVars == <<crState, finalizer, template>>
statusVars == <<outcome, queued>>
workVars == <<pc, mode, desired, latest, arns>>
vars == <<crVars, statusVars, workVars, revisions, left>>

TypeOK ==
    /\ crState \in {"absent", "live", "deleting"}
    /\ finalizer \in BOOLEAN
    /\ template \in Templates
    /\ outcome \in {"none", "success", "error", "terminal"}
    /\ queued \in BOOLEAN
    /\ pc \in {"idle", "find", "manage", "create", "update", "patch", "list",
               "deregister"}
    /\ mode \in {"sync", "delete"}
    /\ desired \in Templates
    /\ latest \in Templates
    /\ arns \subseteq DOMAIN revisions
    /\ revisions \in Seq(Revisions)
    /\ left \in [Budgets -> Nat]

Init ==
    /\ crState = "absent" /\ finalizer = FALSE /\ template = NoTemplate
    /\ outcome = "none" /\ queued = FALSE
    /\ pc = "idle" /\ mode = "sync"
    /\ desired = NoTemplate /\ latest = NoTemplate /\ arns = {}
    /\ revisions = <<>>
    /\ left = [lives |-> MaxLives, edits |-> MaxEdits,
               drifts |-> MaxDrifts, faults |-> MaxFaults]

Spend(k) == left[k] > 0 /\ left' = [left EXCEPT ![k] = left[k] - 1]

-----------------------------------------------------------------------------
(* What ECS does with the calls, and what the code makes of the answers.   *)

Active == {n \in DOMAIN revisions : revisions[n].status = "ACTIVE"}

\* DescribeTaskDefinition with a family describes its newest active revision.
Newest == CHOOSE n \in Active : \A m \in Active : m <= n

\* A family without an active revision is a ClientException, which sdkFind takes
\* for NotFound.
DescribeError == IF Active = {} THEN "NotFound" ELSE "nil"

\* Mutant: the image is not read back.
ObserveDesired == [image |-> desired.image, filled |-> TRUE]

\* sdkFind's merge: ECS reports the template with its defaults.
Observe == [image |-> revisions[Newest].image, filled |-> TRUE]

Register(t) == Append(revisions, [image |-> t.image, status |-> "ACTIVE"])

\* Mutant: the defaults do not reach the spec.
MergeNothing(t) == t

\* sdkCreate's and sdkUpdate's merge of the response.
Merge(t) == [t EXCEPT !.filled = TRUE]

\* Mutant: DeleteTaskDefinitions is called instead.
DeletedInstead(n) == [revisions EXCEPT ![n].status = "DELETE_IN_PROGRESS"]

Deregistered(n) == [revisions EXCEPT ![n].status = "INACTIVE"]

\* ListTaskDefinitions lists active revisions, oldest first; NextToken is ignored.
ListTaskDefinitions ==
    {n \in Active : Cardinality({m \in Active : m < n}) < PageSize}

\* Terminal are the runtime's error for a family it does not manage and the
\* exception that terminalAWSError lists.
OutcomeOf(err) ==
    CASE err = "nil" -> "success"
      [] err \in {"Terminal", "InvalidParameter"} -> "terminal"
      [] OTHER -> "error"

\* What the end of a reconcile leaves to the runtime.
Finish(err) ==
    /\ pc' = "idle" /\ mode' = "sync"
    /\ desired' = NoTemplate /\ latest' = NoTemplate /\ arns' = {}
    /\ IF crState' = "absent"
       THEN outcome' = "none" /\ queued' = FALSE
       ELSE /\ outcome' = OutcomeOf(err)
            /\ queued' = (queued \/ OutcomeOf(err) = "error" \/ template' # template)

Continue(label) ==
    /\ pc' = label
    /\ UNCHANGED <<mode, desired, statusVars>>

-----------------------------------------------------------------------------
(* The reconcile, one action per API call.                                 *)

Begin ==
    /\ pc = "idle" /\ queued /\ crState # "absent"
    /\ pc' = "find"
    /\ mode' = IF crState = "live" THEN "sync" ELSE "delete"
    /\ desired' = template /\ queued' = FALSE
    /\ UNCHANGED <<crVars, outcome, latest, arns, revisions, left>>

FindFails ==
    /\ pc = "find" /\ Spend("faults")
    /\ UNCHANGED <<crVars, revisions>>
    /\ Finish("Retryable")

\* A sync creates what is not there; a deletion has nothing to deregister.
FindNothing ==
    /\ pc = "find" /\ DescribeError = "NotFound"
    /\ Continue(IF mode = "sync" THEN "manage" ELSE "deregister")
    /\ UNCHANGED <<crVars, latest, arns, revisions, left>>

FindForSync ==
    /\ pc = "find" /\ mode = "sync" /\ DescribeError = "nil"
    /\ UNCHANGED <<crVars, revisions, left>>
    /\ IF ~finalizer THEN Finish("Terminal")
       ELSE IF desired = Observe THEN Finish("nil")
       ELSE Continue("update") /\ latest' = Observe /\ UNCHANGED arns

FindForDelete ==
    /\ pc = "find" /\ mode = "delete" /\ DescribeError = "nil"
    /\ Continue("list")
    /\ UNCHANGED <<crVars, latest, arns, revisions, left>>

SetManaged ==
    /\ pc = "manage"
    /\ UNCHANGED <<crState, template, revisions, left>>
    /\ IF crState = "absent"
       THEN Finish("Retryable") /\ UNCHANGED finalizer
       ELSE finalizer' = TRUE /\ Continue("create") /\ UNCHANGED <<latest, arns>>

\* sdkCreate and sdkUpdate both register a revision.
RegisterTaskDefinition ==
    /\ pc \in {"create", "update"}
    /\ revisions' = Register(desired)
    /\ latest' = Merge(desired)
    /\ Continue("patch")
    /\ UNCHANGED <<crVars, arns, left>>

\* The call fails, ECS rejects the template, or the reply is lost.
RegisterFails ==
    /\ pc \in {"create", "update"} /\ Spend("faults")
    /\ UNCHANGED crVars
    /\ \/ UNCHANGED revisions /\ Finish("Retryable")
       \/ UNCHANGED revisions /\ Finish("InvalidParameter")
       \/ revisions' = Register(desired) /\ Finish("Retryable")

\* The runtime patches the list as a whole when latest and desired differ in it.
PatchSpec ==
    /\ pc = "patch"
    /\ template' = IF latest # desired THEN latest ELSE template
    /\ UNCHANGED <<crState, finalizer, revisions, left>>
    /\ Finish("nil")

PatchFails ==
    /\ pc = "patch" /\ Spend("faults")
    /\ UNCHANGED <<crVars, revisions>>
    /\ Finish("Retryable")

List ==
    /\ pc = "list"
    /\ arns' = ListTaskDefinitions
    /\ Continue("deregister")
    /\ UNCHANGED <<crVars, latest, revisions, left>>

ListFails ==
    /\ pc = "list" /\ Spend("faults")
    /\ UNCHANGED <<crVars, revisions>>
    /\ Finish("Retryable")

\* Mutant: the loop does not advance.
DeregisterOldestAgain ==
    /\ pc = "deregister"
    /\ \E n \in arns :
          /\ \A m \in arns : n <= m
          /\ revisions' = Deregistered(n)
    /\ Continue(pc)
    /\ UNCHANGED <<crVars, latest, arns, left>>

\* One turn of the loop over the ARNs.
DeregisterTaskDefinition ==
    /\ pc = "deregister"
    /\ \E n \in arns :
          /\ \A m \in arns : n <= m
          /\ revisions' = Deregistered(n)
          /\ arns' = arns \ {n}
    /\ Continue(pc)
    /\ UNCHANGED <<crVars, latest, left>>

\* Mutant: the error is dropped.
DeregisterErrorDropped ==
    /\ pc = "deregister" /\ Spend("faults")
    /\ \E n \in arns :
          /\ \A m \in arns : n <= m
          /\ arns' = arns \ {n}
    /\ Continue(pc)
    /\ UNCHANGED <<crVars, latest, revisions>>

\* An error ends the loop and leaves the rest to the next reconcile.
DeregisterFails ==
    /\ pc = "deregister" /\ arns # {} /\ Spend("faults")
    /\ \/ UNCHANGED revisions
       \/ \E n \in arns : (\A m \in arns : n <= m) /\ revisions' = Deregistered(n)
    /\ UNCHANGED crVars
    /\ Finish("Retryable")

\* sdkDelete returned no error: the finalizer comes off.
Release ==
    /\ pc = "deregister" /\ arns = {}
    /\ finalizer' = FALSE
    /\ IF crState = "deleting"
       THEN crState' = "absent" /\ template' = NoTemplate
       ELSE UNCHANGED <<crState, template>>
    /\ UNCHANGED <<revisions, left>>
    /\ Finish("nil")

ReleaseFails ==
    /\ pc = "deregister" /\ arns = {} /\ Spend("faults")
    /\ UNCHANGED <<crVars, revisions>>
    /\ Finish("Retryable")

Reconcile ==
    \/ Begin
    \/ FindFails \/ FindNothing \/ FindForSync \/ FindForDelete
    \/ SetManaged \/ RegisterTaskDefinition \/ RegisterFails
    \/ PatchSpec \/ PatchFails
    \/ List \/ ListFails \/ DeregisterTaskDefinition \/ DeregisterFails
    \/ Release \/ ReleaseFails

-----------------------------------------------------------------------------
(* Restart, resync, the user and ECS.                                      *)

Crash ==
    /\ Spend("faults")
    /\ pc # "idle"
    /\ pc' = "idle" /\ mode' = "sync"
    /\ desired' = NoTemplate /\ latest' = NoTemplate /\ arns' = {}
    /\ queued' = (crState # "absent")
    /\ UNCHANGED <<crVars, outcome, revisions>>

Resync ==
    /\ pc = "idle" /\ crState = "live" /\ outcome = "success" /\ ~queued
    /\ queued' = TRUE
    /\ UNCHANGED <<crVars, outcome, workVars, revisions, left>>

UserCreates ==
    /\ crState = "absent" /\ Spend("lives")
    /\ crState' = "live" /\ template' \in Templates /\ queued' = TRUE
    /\ UNCHANGED <<finalizer, outcome, workVars, revisions>>

UserEdits ==
    /\ crState = "live" /\ Spend("edits")
    /\ template' \in Templates \ {template} /\ queued' = TRUE
    /\ UNCHANGED <<crState, finalizer, outcome, workVars, revisions>>

UserDeletes ==
    /\ crState = "live"
    /\ IF finalizer
       THEN /\ crState' = "deleting" /\ queued' = TRUE
            /\ UNCHANGED <<template, outcome>>
       ELSE /\ crState' = "absent" /\ queued' = FALSE
            /\ template' = NoTemplate /\ outcome' = "none"
    /\ UNCHANGED <<finalizer, workVars, revisions, left>>

\* A clean-up job deregisters a revision, but not the last one.
OthersDeregister ==
    /\ Cardinality(Active) > 1 /\ Spend("drifts")
    /\ \E n \in Active : revisions' = Deregistered(n)
    /\ UNCHANGED <<crVars, statusVars, workVars>>

Environment ==
    \/ Crash \/ Resync \/ UserCreates \/ UserEdits \/ UserDeletes \/ OthersDeregister

Next == Reconcile \/ Environment

Spec == Init /\ [][Next]_vars

\* The worker runs what is queued and the resync timer fires.
FairSpec == Spec /\ WF_vars(Reconcile) /\ WF_vars(Resync)

-----------------------------------------------------------------------------
(* Properties.                                                             *)

\* An active revision always has its object, and the object its finalizer: a
\* deletion that is interrupted anywhere in the loop, or follows an update whose
\* reply was lost, still ends with every revision deregistered.
NoOrphan == Active # {} => crState # "absent" /\ finalizer

Spent(k, max) == max - left[k]

\* Revisions are registered for a reason: one for each object, edit, revision
\* lost to others, and fault.  The defaults that ECS fills in must reach the spec,
\* or every resync would find a difference and register another revision.
NoSpuriousRevisions ==
    Len(revisions) <= Spent("lives", MaxLives) + Spent("edits", MaxEdits)
                      + Spent("drifts", MaxDrifts) + Spent("faults", MaxFaults)

\* The object's life and the family's follow the contract of ManagedResource.
Lifecycle == INSTANCE ManagedResource WITH
    object <- crState, held <- finalizer, exists <- (Active # {})

ImplementsLifecycle == Lifecycle!Spec

\* Once edits, clean-ups and faults stop, the revision that services of the family
\* get is the one the spec describes, unless ECS rejected it for good: a terminal
\* object is not tried again before the user edits it.
NewestRevisionIsDesired ==
    <>[](crState = "live" /\ outcome # "terminal" =>
           Active # {} /\ revisions[Newest].image = template.image)

\* A deletion comes to its end, however often its loop is interrupted.
DeletionCompletes == crState = "deleting" ~> crState = "absent"
=============================================================================
