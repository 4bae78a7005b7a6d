--------------------------- MODULE ManagerFactory ---------------------------
(***************************************************************************)
(* The cache of resource managers behind resourceManagerFactory.ManagerFor *)
(* (pkg/resource/<kind>/manager_factory.go, the same text for the four     *)
(* kinds).  The reconcile workers of one kind share one factory: a map     *)
(* guarded by a sync.RWMutex, read under the read lock and filled under    *)
(* the write lock.  Every lock operation, map access and construction is   *)
(* one step of the worker that runs it.                                    *)
(***************************************************************************)
EXTENDS Naturals, FiniteSets

CONSTANTS
    Workers,     \* reconcile workers that call ManagerFor concurrently
    Accounts,    \* AWS account IDs
    Regions,     \* AWS regions
    Roles,       \* role ARNs the workers assume (one of them may be "no role")
    NoManager,   \* Go's nil *resourceManager
    NoTarget     \* the arguments of a worker that is in no call

Target == [account : Accounts, region : Regions, role : Roles]

\* What newResourceManager keeps of its arguments: the account and the region
\* as fields, the role inside the client built from clientcfg.  by and serial
\* are the identity of the object: the n-th manager its worker built.
Manager == [account : Accounts, region : Regions, role : Roles,
            by : Workers, serial : Nat]

ASSUME NoManagerAssumption == NoManager \notin Manager
ASSUME NoTargetAssumption == NoTarget \notin Target

\* Mutant: the role ARN is left out of the key.
RmIdWithoutRole(t) == <<t.account, t.region, CHOOSE r \in Roles : TRUE>>

\* fmt.Sprintf("%s/%s/%s", id, region, roleARN): accounts and regions hold no
\* slash, so the formatted key determines the three parts.
RmId(t) == <<t.account, t.region, t.role>>

Ids == Accounts \X Regions \X Roles

VARIABLES
    rmCache,   \* the map: what each key holds, NoManager when absent
    readers,   \* workers that hold the read lock
    writer,    \* workers that hold the write lock (at most one)
    waiting,   \* workers blocked in Lock(), which hold back new readers
    pc,        \* where each worker is in ManagerFor
    want,      \* the account, region and role ARN of its call
    rm,        \* its local variable rm
    built      \* every manager constructed so far

vars == <<rmCache, readers, writer, waiting, pc, want, rm, built>>

PCs == {"idle", "rlock", "lookup", "runlock", "lock", "build", "store",
        "unlock", "return"}

TypeOK ==
    /\ rmCache \in [Ids -> Manager \cup {NoManager}]
    /\ readers \subseteq Workers
    /\ writer \subseteq Workers
    /\ waiting \subseteq Workers
    /\ pc \in [Workers -> PCs]
    /\ want \in [Workers -> Target \cup {NoTarget}]
    /\ rm \in [Workers -> Manager \cup {NoManager}]
    /\ built \subseteq Manager

Init ==
    /\ rmCache = [k \in Ids |-> NoManager]
    /\ readers = {}
    /\ writer = {}
    /\ waiting = {}
    /\ pc = [w \in Workers |-> "idle"]
    /\ want = [w \in Workers |-> NoTarget]
    /\ rm = [w \in Workers |-> NoManager]
    /\ built = {}

Goto(w, label) == pc' = [pc EXCEPT ![w] = label]

-----------------------------------------------------------------------------
(* ManagerFor, one action per step of a worker.                            *)

Call(w) ==
    /\ pc[w] = "idle"
    /\ \E t \in Target : want' = [want EXCEPT ![w] = t]
    /\ Goto(w, "rlock")
    /\ UNCHANGED <<rmCache, readers, writer, waiting, rm, built>>

\* Mutant: the read lock does not wait for a writer.
RLockIgnoringWriter(w) ==
    /\ pc[w] = "rlock"
    /\ readers' = readers \cup {w}
    /\ Goto(w, "lookup")
    /\ UNCHANGED <<rmCache, writer, waiting, want, rm, built>>

\* RLock blocks while a writer holds the lock or is waiting for it.
RLock(w) ==
    /\ pc[w] = "rlock"
    /\ writer = {} /\ waiting = {}
    /\ readers' = readers \cup {w}
    /\ Goto(w, "lookup")
    /\ UNCHANGED <<rmCache, writer, waiting, want, rm, built>>

LookUp(w) ==
    /\ pc[w] = "lookup"
    /\ rm' = [rm EXCEPT ![w] = rmCache[RmId(want[w])]]
    /\ Goto(w, "runlock")
    /\ UNCHANGED <<rmCache, readers, writer, waiting, want, built>>

\* After a hit the call returns; after a miss it goes on to Lock, which first
\* announces itself and so holds back the readers that come later.
RUnlock(w) ==
    /\ pc[w] = "runlock"
    /\ readers' = readers \ {w}
    /\ \/ /\ rm[w] # NoManager
          /\ Goto(w, "return")
          /\ UNCHANGED waiting
       \/ /\ rm[w] = NoManager
          /\ Goto(w, "lock")
          /\ waiting' = waiting \cup {w}
    /\ UNCHANGED <<rmCache, writer, want, rm, built>>

Lock(w) ==
    /\ pc[w] = "lock"
    /\ readers = {} /\ writer = {}
    /\ writer' = {w}
    /\ waiting' = waiting \ {w}
    /\ Goto(w, "build")
    /\ UNCHANGED <<rmCache, readers, want, rm, built>>

\* Mutant: the account ID and the region change places in the call.
newResourceManagerSwapped(t, w, n) ==
    [account |-> t.region, region |-> t.account, role |-> t.role,
     by |-> w, serial |-> n]

newResourceManager(t, w, n) ==
    [account |-> t.account, region |-> t.region, role |-> t.role,
     by |-> w, serial |-> n]

\* newResourceManager has no failing path.  The cache is not looked at again.
NewResourceManager(w) ==
    /\ pc[w] = "build"
    /\ LET n == Cardinality({b \in built : b.by = w}) + 1
           m == newResourceManager(want[w], w, n)
       IN  /\ rm' = [rm EXCEPT ![w] = m]
           /\ built' = built \cup {m}
    /\ Goto(w, "store")
    /\ UNCHANGED <<rmCache, readers, writer, waiting, want>>

\* Mutant: the new manager is not put in the cache.
StoreForgotten(w) ==
    /\ pc[w] = "store"
    /\ Goto(w, "unlock")
    /\ UNCHANGED <<rmCache, readers, writer, waiting, want, rm, built>>

Store(w) ==
    /\ pc[w] = "store"
    /\ rmCache' = [rmCache EXCEPT ![RmId(want[w])] = rm[w]]
    /\ Goto(w, "unlock")
    /\ UNCHANGED <<readers, writer, waiting, want, rm, built>>

\* Mutant: the write lock is kept.
UnlockForgotten(w) ==
    /\ pc[w] = "unlock"
    /\ Goto(w, "return")
    /\ UNCHANGED <<rmCache, readers, writer, waiting, want, rm, built>>

\* The deferred Unlock.
Unlock(w) ==
    /\ pc[w] = "unlock"
    /\ writer' = writer \ {w}
    /\ Goto(w, "return")
    /\ UNCHANGED <<rmCache, readers, waiting, want, rm, built>>

\* The caller has its manager and reconciles with it; the locals are gone.
Return(w) ==
    /\ pc[w] = "return"
    /\ rm' = [rm EXCEPT ![w] = NoManager]
    /\ want' = [want EXCEPT ![w] = NoTarget]
    /\ Goto(w, "idle")
    /\ UNCHANGED <<rmCache, readers, writer, waiting, built>>

Step(w) ==
    \/ RLock(w) \/ LookUp(w) \/ RUnlock(w)
    \/ Lock(w) \/ NewResourceManager(w) \/ Store(w) \/ Unlock(w)
    \/ Return(w)

Next == \E w \in Workers : Call(w) \/ Step(w)

Spec == Init /\ [][Next]_vars

\* A goroutine that can run is eventually run, and sync.RWMutex starves neither
\* side: a waiting writer holds back new readers, the readers that waited for a
\* writer are released by its Unlock, and the inner Mutex is fair to writers.
Fairness ==
    \A w \in Workers : WF_vars(Step(w)) /\ SF_vars(RLock(w)) /\ SF_vars(Lock(w))

FairSpec == Spec /\ Fairness

-----------------------------------------------------------------------------
(* Properties.                                                             *)

\* A reconcile never works with a manager that was built for another account,
\* region or role: the key must tell apart everything ManagerFor is given.
RightManager ==
    \A w \in Workers : pc[w] = "return" =>
        /\ rm[w] \in Manager
        /\ rm[w].account = want[w].account
        /\ rm[w].region = want[w].region
        /\ rm[w].role = want[w].role

\* Go maps must not be read while they are written: no worker is about to
\* store into rmCache while another one is about to read it or to store.
NoConcurrentMapAccess ==
    \A v, w \in Workers :
        v # w /\ pc[v] = "store" => pc[w] \notin {"lookup", "store"}

\* What the missing second look-up can cost: a worker builds at most one
\* manager per account, region and role, so there are never more managers of
\* one target than workers.
OneBuildPerWorker ==
    \A m, n \in built : m.by = n.by /\ RmId(m) = RmId(n) => m = n

\* ManagerFor always returns: whatever the other workers do, nobody waits for
\* the lock for ever.
CallsReturn == \A w \in Workers : pc[w] = "rlock" ~> pc[w] = "return"
=============================================================================
