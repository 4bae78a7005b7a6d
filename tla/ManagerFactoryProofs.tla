------------------------ MODULE ManagerFactoryProofs ------------------------
(***************************************************************************)
(* Proofs, for any number of workers, accounts, regions and roles, of the  *)
(* safety properties of ManagerFactory.  One inductive invariant serves    *)
(* them all: the lock is held exactly where the program counters say, the  *)
(* cache and the local variables hold managers of the right key, and a     *)
(* manager that was built is either cached or still in the hands of its    *)
(* builder, which alone holds the write lock.                              *)
(***************************************************************************)
EXTENDS ManagerFactory, FiniteSetTheorems, TLAPS

\* Who holds the lock.
LockInv ==
    /\ \A w \in Workers : w \in writer <=> pc[w] \in {"build", "store", "unlock"}
    /\ \A w \in Workers : w \in readers <=> pc[w] \in {"lookup", "runlock"}
    /\ \A v, w \in writer : v = w
    /\ writer # {} => readers = {}

\* What the cache and the local variables hold.
KeyInv ==
    /\ \A k \in Ids : rmCache[k] # NoManager => RmId(rmCache[k]) = k
    /\ \A w \in Workers : pc[w] # "idle" => want[w] \in Target
    /\ \A w \in Workers : pc[w] = "runlock" /\ rm[w] # NoManager
                             => RmId(rm[w]) = RmId(want[w])
    /\ \A w \in Workers : pc[w] \in {"store", "unlock", "return"}
                             => rm[w] \in Manager /\ RmId(rm[w]) = RmId(want[w])

\* A worker that found nothing in the cache has built nothing for that key.
Missed(w) ==
    \/ pc[w] = "runlock" /\ rm[w] = NoManager
    \/ pc[w] \in {"lock", "build"}

\* Where a manager is once it was built.
BuildInv ==
    /\ \A m \in built : \/ rmCache[RmId(m)] # NoManager
                        \/ pc[m.by] = "store" /\ rm[m.by] = m
    /\ \A w \in Workers : Missed(w) =>
          \A m \in built : m.by = w => RmId(m) # RmId(want[w])
    /\ OneBuildPerWorker

TypeInv == TypeOK /\ IsFiniteSet(built)

IInv == TypeInv /\ LockInv /\ KeyInv /\ BuildInv

-----------------------------------------------------------------------------

\* The key of a target, and of a manager, is one of the cache's keys.
LEMMA RmIdType ==
    /\ \A t \in Target : RmId(t) \in Ids
    /\ \A m \in Manager : RmId(m) \in Ids
BY DEF Target, Manager, RmId, Ids

\* The serial number a new manager gets is a natural number.
LEMMA SerialType ==
    ASSUME TypeInv, NEW w \in Workers
    PROVE  Cardinality({b \in built : b.by = w}) + 1 \in Nat
<1> DEFINE mine == {b \in built : b.by = w}
<1>1. IsFiniteSet(mine)
  <2>1. mine \subseteq built
    OBVIOUS
  <2> QED  BY <2>1, FS_Subset DEF TypeInv
<1>2. Cardinality(mine) \in Nat
  BY <1>1, FS_CardinalityType
<1> QED  BY <1>2

\* What a worker builds is a manager of the key it was asked for.
LEMMA NewManager ==
    ASSUME NEW t \in Target, NEW w \in Workers, NEW n \in Nat
    PROVE  LET m == newResourceManager(t, w, n)
           IN  m \in Manager /\ RmId(m) = RmId(t) /\ m.by = w /\ m # NoManager
BY NoManagerAssumption DEF Target, Manager, newResourceManager, RmId

\* The invariant holds before the first call.
LEMMA InitInv == Init => IInv
<1> SUFFICES ASSUME Init PROVE IInv
  OBVIOUS
<1>1. TypeInv
  BY FS_EmptySet DEF Init, TypeInv, TypeOK, PCs
<1>2. LockInv
  BY DEF Init, LockInv
<1>3. KeyInv
  BY DEF Init, KeyInv
<1>4. BuildInv
  BY DEF Init, BuildInv, Missed, OneBuildPerWorker
<1> QED  BY <1>1, <1>2, <1>3, <1>4 DEF IInv

-----------------------------------------------------------------------------

\* Every step keeps the types.
LEMMA TypeStep ==
    ASSUME IInv, [Next]_vars
    PROVE  TypeInv'
<1> USE DEF IInv, TypeInv
<1>1. CASE UNCHANGED vars
  BY <1>1 DEF vars, TypeOK
<1>2. CASE \E w \in Workers : Call(w) \/ Step(w)
  <2> SUFFICES ASSUME NEW w \in Workers, Call(w) \/ Step(w)
               PROVE  TypeInv'
    BY <1>2
  <2> USE DEF TypeOK, Goto, PCs
  <2>1. CASE Call(w)
    BY <2>1 DEF Call
  <2>2. CASE RLock(w)
    BY <2>2 DEF RLock
  <2>3. CASE LookUp(w)
    <3>1. RmId(want[w]) \in Ids
      BY <2>3, RmIdType DEF LookUp, KeyInv
    <3> QED  BY <2>3, <3>1 DEF LookUp
  <2>4. CASE RUnlock(w)
    BY <2>4 DEF RUnlock
  <2>5. CASE Lock(w)
    BY <2>5 DEF Lock
  <2>6. CASE NewResourceManager(w)
    <3> DEFINE n == Cardinality({b \in built : b.by = w}) + 1
               m == newResourceManager(want[w], w, n)
    <3>1. want[w] \in Target /\ n \in Nat
      BY <2>6, SerialType DEF NewResourceManager, KeyInv
    <3>2. m \in Manager
      BY <3>1, NewManager
    <3>3. rm' = [rm EXCEPT ![w] = m] /\ built' = built \cup {m}
      BY <2>6 DEF NewResourceManager
    <3>4. IsFiniteSet(built')
      BY <3>3, FS_AddElement
    <3> HIDE DEF m
    <3> QED  BY <2>6, <3>2, <3>3, <3>4 DEF NewResourceManager
  <2>7. CASE Store(w)
    <3>1. rm[w] \in Manager /\ RmId(want[w]) \in Ids
      BY <2>7, RmIdType DEF Store, KeyInv
    <3> QED  BY <2>7, <3>1 DEF Store
  <2>8. CASE Unlock(w)
    BY <2>8 DEF Unlock
  <2>9. CASE Return(w)
    BY <2>9 DEF Return
  <2> QED
    BY <2>1, <2>2, <2>3, <2>4, <2>5, <2>6, <2>7, <2>8, <2>9 DEF Step
<1> QED  BY <1>1, <1>2 DEF Next

\* The lock and the program counters stay in step.
LEMMA LockStep ==
    ASSUME IInv, [Next]_vars
    PROVE  LockInv'
<1> USE DEF IInv, TypeInv, LockInv
<1>1. CASE UNCHANGED vars
  BY <1>1 DEF vars
<1>2. CASE \E w \in Workers : Call(w) \/ Step(w)
  <2> SUFFICES ASSUME NEW w \in Workers, Call(w) \/ Step(w)
               PROVE  LockInv'
    BY <1>2
  <2>0. pc \in [Workers -> PCs] /\ readers \subseteq Workers /\ writer \subseteq Workers
    BY DEF TypeOK
  <2> USE DEF Goto
  <2>1. CASE Call(w)
    BY <2>0, <2>1 DEF Call
  <2>2. CASE RLock(w)
    BY <2>0, <2>2 DEF RLock
  <2>3. CASE LookUp(w)
    BY <2>0, <2>3 DEF LookUp
  <2>4. CASE RUnlock(w)
    BY <2>0, <2>4 DEF RUnlock
  <2>5. CASE Lock(w)
    BY <2>0, <2>5 DEF Lock
  <2>6. CASE NewResourceManager(w)
    BY <2>0, <2>6 DEF NewResourceManager
  <2>7. CASE Store(w)
    BY <2>0, <2>7 DEF Store
  <2>8. CASE Unlock(w)
    BY <2>0, <2>8 DEF Unlock
  <2>9. CASE Return(w)
    BY <2>0, <2>9 DEF Return
  <2> QED
    BY <2>1, <2>2, <2>3, <2>4, <2>5, <2>6, <2>7, <2>8, <2>9 DEF Step
<1> QED  BY <1>1, <1>2 DEF Next

\* Keys and managers stay in step.
LEMMA KeyStep ==
    ASSUME IInv, [Next]_vars
    PROVE  KeyInv'
<1> USE DEF IInv, TypeInv, KeyInv
<1>1. CASE UNCHANGED vars
  BY <1>1 DEF vars
<1>2. CASE \E w \in Workers : Call(w) \/ Step(w)
  <2> SUFFICES ASSUME NEW w \in Workers, Call(w) \/ Step(w)
               PROVE  KeyInv'
    BY <1>2
  <2>0. /\ pc \in [Workers -> PCs] /\ want \in [Workers -> Target \cup {NoTarget}]
        /\ rm \in [Workers -> Manager \cup {NoManager}]
        /\ rmCache \in [Ids -> Manager \cup {NoManager}]
    BY DEF TypeOK
  <2> USE DEF Goto
  <2>1. CASE Call(w)
    BY <2>0, <2>1 DEF Call
  <2>2. CASE RLock(w)
    BY <2>0, <2>2 DEF RLock
  <2>3. CASE LookUp(w)
    <3>1. RmId(want[w]) \in Ids
      BY <2>3, RmIdType DEF LookUp
    <3> QED  BY <2>0, <2>3, <3>1 DEF LookUp
  <2>4. CASE RUnlock(w)
    BY <2>0, <2>4 DEF RUnlock
  <2>5. CASE Lock(w)
    BY <2>0, <2>5 DEF Lock
  <2>6. CASE NewResourceManager(w)
    <3> DEFINE n == Cardinality({b \in built : b.by = w}) + 1
               m == newResourceManager(want[w], w, n)
    <3>1. want[w] \in Target /\ n \in Nat
      BY <2>6, SerialType DEF NewResourceManager
    <3>2. m \in Manager /\ RmId(m) = RmId(want[w])
      BY <3>1, NewManager
    <3>3. rm' = [rm EXCEPT ![w] = m]
      BY <2>6 DEF NewResourceManager
    <3> HIDE DEF m
    <3> QED  BY <2>0, <2>6, <3>2, <3>3 DEF NewResourceManager
  <2>7. CASE Store(w)
    <3>1. rm[w] \in Manager /\ RmId(rm[w]) = RmId(want[w])
      BY <2>7 DEF Store
    <3> QED  BY <2>0, <2>7, <3>1 DEF Store
  <2>8. CASE Unlock(w)
    BY <2>0, <2>8 DEF Unlock
  <2>9. CASE Return(w)
    BY <2>0, <2>9 DEF Return
  <2> QED
    BY <2>1, <2>2, <2>3, <2>4, <2>5, <2>6, <2>7, <2>8, <2>9 DEF Step
<1> QED  BY <1>1, <1>2 DEF Next

\* Every manager stays accounted for.
LEMMA BuildStep ==
    ASSUME IInv, [Next]_vars
    PROVE  BuildInv'
<1> USE DEF IInv, TypeInv, BuildInv, OneBuildPerWorker, Missed
<1>1. CASE UNCHANGED vars
  BY <1>1 DEF vars
<1>2. CASE \E w \in Workers : Call(w) \/ Step(w)
  <2> SUFFICES ASSUME NEW w \in Workers, Call(w) \/ Step(w)
               PROVE  BuildInv'
    BY <1>2
  <2>0. /\ pc \in [Workers -> PCs] /\ want \in [Workers -> Target \cup {NoTarget}]
        /\ rm \in [Workers -> Manager \cup {NoManager}]
        /\ rmCache \in [Ids -> Manager \cup {NoManager}]
        /\ built \subseteq Manager
        /\ \A m \in Manager : m.by \in Workers
    BY DEF TypeOK, Manager
  <2> USE DEF Goto
  <2>1. CASE Call(w)
    BY <2>0, <2>1 DEF Call
  <2>2. CASE RLock(w)
    BY <2>0, <2>2 DEF RLock
  <2>3. CASE LookUp(w)
    <3>1. RmId(want[w]) \in Ids /\ \A m \in built : RmId(m) \in Ids
      BY <2>0, <2>3, RmIdType DEF LookUp, KeyInv
    <3>2. rmCache[RmId(want[w])] = NoManager
             => \A m \in built : m.by = w => RmId(m) # RmId(want[w])
      BY <2>3 DEF LookUp
    <3> QED  BY <2>0, <2>3, <3>1, <3>2 DEF LookUp
  <2>4. CASE RUnlock(w)
    BY <2>0, <2>4 DEF RUnlock
  <2>5. CASE Lock(w)
    BY <2>0, <2>5 DEF Lock
  <2>6. CASE NewResourceManager(w)
    <3> DEFINE n == Cardinality({b \in built : b.by = w}) + 1
               m == newResourceManager(want[w], w, n)
    <3>1. want[w] \in Target /\ n \in Nat
      BY <2>6, SerialType DEF NewResourceManager, KeyInv
    <3>2. m \in Manager /\ RmId(m) = RmId(want[w]) /\ m.by = w
      BY <3>1, NewManager
    <3>3. rm' = [rm EXCEPT ![w] = m] /\ built' = built \cup {m}
      BY <2>6 DEF NewResourceManager
    <3>4. \A b \in built : b.by = w => RmId(b) # RmId(m)
      BY <2>6, <3>2 DEF NewResourceManager
    <3> HIDE DEF m
    <3> QED  BY <2>0, <2>6, <3>2, <3>3, <3>4 DEF NewResourceManager
  <2>7. CASE Store(w)
    <3>1. /\ rm[w] \in Manager /\ RmId(want[w]) \in Ids
          /\ RmId(rm[w]) = RmId(want[w])
      BY <2>7, RmIdType DEF Store, KeyInv
    <3>2. rmCache'[RmId(want[w])] # NoManager
      BY <2>0, <2>7, <3>1, NoManagerAssumption DEF Store
    <3>3. \A k \in Ids : rmCache[k] # NoManager => rmCache'[k] # NoManager
      BY <2>0, <2>7, <3>2 DEF Store
    <3>4. \A m \in built : RmId(m) \in Ids
      BY <2>0, RmIdType
    <3> QED  BY <2>0, <2>7, <3>1, <3>2, <3>3, <3>4 DEF Store
  <2>8. CASE Unlock(w)
    BY <2>0, <2>8 DEF Unlock
  <2>9. CASE Return(w)
    BY <2>0, <2>9 DEF Return
  <2> QED
    BY <2>1, <2>2, <2>3, <2>4, <2>5, <2>6, <2>7, <2>8, <2>9 DEF Step
<1> QED  BY <1>1, <1>2 DEF Next

-----------------------------------------------------------------------------

\* The inductive invariant.
THEOREM Invariance == Spec => []IInv
<1>1. Init => IInv
  BY InitInv
<1>2. IInv /\ [Next]_vars => IInv'
  BY TypeStep, LockStep, KeyStep, BuildStep DEF IInv
<1> QED  BY <1>1, <1>2, PTL DEF Spec

\* The variables keep their types: in particular a worker that reads rmCache
\* always does so under one of its keys.
THEOREM TypeCorrect == Spec => []TypeOK
<1>1. IInv => TypeOK
  BY DEF IInv, TypeInv
<1> QED  BY <1>1, Invariance, PTL

\* No worker reads or writes the Go map while another one writes it.
THEOREM MapAccessSafe == Spec => []NoConcurrentMapAccess
<1>1. IInv => NoConcurrentMapAccess
  BY DEF IInv, LockInv, NoConcurrentMapAccess
<1> QED  BY <1>1, Invariance, PTL

\* ManagerFor returns a manager of the account, region and role it was given.
THEOREM ManagerIsRight == Spec => []RightManager
<1>1. IInv => RightManager
  BY DEF IInv, KeyInv, RightManager, RmId
<1> QED  BY <1>1, Invariance, PTL

\* There are never more managers of one target than workers, although the cache
\* is not looked at again under the write lock.
THEOREM BuildsAreBounded == Spec => []OneBuildPerWorker
<1>1. IInv => OneBuildPerWorker
  BY DEF IInv, BuildInv
<1> QED  BY <1>1, Invariance, PTL
=============================================================================
