--------------------------- MODULE PoolBrokerProofs ---------------------------
(***************************************************************************)
(* Theorems about the pool reconcilers, for any objects, target pools,     *)
(* classes, capacities, changes and faults.                                *)
(***************************************************************************)
EXTENDS PoolBroker, FiniteSetTheorems, WellFoundedInduction, TLAPS

(***************************************************************************)
(* The sum of a function.  The induction is over sets, by least elements.  *)
(***************************************************************************)
LEMMA LeastNumber ==
  ASSUME NEW T, T \subseteq Nat, T # {}
  PROVE  \E n \in T : \A k \in T : n <= k
<1>1. PICK n \in T : \A k \in T : ~ (<<k, n>> \in OpToRel(<, Nat))
  BY NatLessThanWellFounded, WFMin
<1>2. \A k \in T : <<k, n>> \in OpToRel(<, Nat) <=> k < n
  BY DEF OpToRel
<1>3. \A k \in T : k \in Nat /\ n \in Nat /\ ~(k < n)
  BY <1>1, <1>2
<1>4. \A k \in T : n <= k
  BY <1>3
<1> QED
  BY <1>4

Some(s) == CHOOSE x \in s : TRUE

Step(f, g, s) == IF s = {} THEN 0 ELSE f[Some(s)] + g[s \ {Some(s)}]

\* g adds up the values of f over every set of sets.
Sums(g, f, sets) == g = [s \in sets |-> Step(f, g, s)]

Below(S, n) == {s \in SUBSET S : Cardinality(s) <= n}

LEMMA SomeElement == \A s : s # {} => Some(s) \in s
BY DEF Some

LEMMA SmallerRest ==
  ASSUME NEW S, IsFiniteSet(S), NEW s \in SUBSET S, s # {}
  PROVE  /\ s \ {Some(s)} \in SUBSET S
         /\ Cardinality(s) \in Nat /\ Cardinality(s) > 0
         /\ Cardinality(s \ {Some(s)}) = Cardinality(s) - 1
<1>1. IsFiniteSet(s)
  BY FS_Subset
<1>2. Cardinality(s) \in Nat /\ Cardinality(s) # 0
  BY <1>1, FS_CardinalityType, FS_EmptySet
<1>3. Cardinality(s \ {Some(s)}) = Cardinality(s) - 1
  BY <1>1, SomeElement, FS_RemoveElement
<1> QED
  BY <1>2, <1>3

\* The recursive function behind SumFunction, and that there is one.
LEMMA SumByStep ==
  ASSUME NEW S, NEW f
  PROVE  SumFunctionOnSet(f, S) = (CHOOSE g : g = [s \in SUBSET S |-> Step(f, g, s)])[S]
BY DEF SumFunctionOnSet, FoldFunctionOnSet, MapThenFoldSet, Step, Some

LEMMA StepBelowZero ==
  ASSUME NEW S, IsFiniteSet(S), NEW f
  PROVE  \E g : Sums(g, f, Below(S, 0))
<1> DEFINE g == [s \in Below(S, 0) |-> 0]
<1>1. \A s \in Below(S, 0) : s = {}
  BY FS_Subset, FS_CardinalityType, FS_EmptySet DEF Below
<1>2. \A s \in Below(S, 0) : Step(f, g, s) = 0
  BY <1>1 DEF Step
<1>3. g = [s \in Below(S, 0) |-> Step(f, g, s)]
  BY <1>2
<1> QED
  BY <1>3 DEF Sums

LEMMA StepBelowNext ==
  ASSUME NEW S, IsFiniteSet(S), NEW f, NEW n \in Nat,
         NEW g, Sums(g, f, Below(S, n))
  PROVE  \E h : Sums(h, f, Below(S, n + 1))
<1> DEFINE h == [s \in Below(S, n + 1) |-> Step(f, g, s)]
<1>1. \A s \in Below(S, n + 1) : s # {} =>
       s \ {Some(s)} \in Below(S, n) /\ s \ {Some(s)} \in Below(S, n + 1)
  BY SmallerRest DEF Below
<1>2. \A r \in Below(S, n) : g[r] = Step(f, g, r)
  BY DEF Sums
<1>3. Below(S, n) \subseteq Below(S, n + 1)
  BY FS_Subset, FS_CardinalityType DEF Below
<1>4. \A r \in Below(S, n) : h[r] = g[r]
  BY <1>2, <1>3
<1> HIDE DEF h
<1>5. \A s \in Below(S, n + 1) : Step(f, h, s) = Step(f, g, s)
  BY <1>1, <1>4 DEF Step
<1>6. h = [s \in Below(S, n + 1) |-> Step(f, h, s)]
  BY <1>5 DEF h
<1> QED
  BY <1>6 DEF Sums

LEMMA StepBelow ==
  ASSUME NEW S, IsFiniteSet(S), NEW f, NEW n \in Nat
  PROVE  \E g : Sums(g, f, Below(S, n))
<1> DEFINE Bad == {k \in Nat : ~ \E g : Sums(g, f, Below(S, k))}
<1> SUFFICES ASSUME Bad # {} PROVE FALSE
  OBVIOUS
<1>1. PICK k \in Bad : \A l \in Bad : k <= l
  BY LeastNumber
<1>2. k # 0
  BY StepBelowZero
<1>3. k - 1 \in Nat /\ k - 1 \notin Bad
  BY <1>1, <1>2
<1>4. PICK g : Sums(g, f, Below(S, k - 1))
  BY <1>3
<1>5. \E h : Sums(h, f, Below(S, (k - 1) + 1))
  BY <1>3, <1>4, StepBelowNext
<1>6. (k - 1) + 1 = k
  BY <1>3
<1> QED
  BY <1>5, <1>6

LEMMA SumUnfolds ==
  ASSUME NEW S, IsFiniteSet(S), NEW f
  PROVE  \E g : Sums(g, f, SUBSET S) /\ SumFunctionOnSet(f, S) = g[S]
<1>1. PICK n \in Nat : Below(S, n) = SUBSET S
  BY FS_Subset, FS_CardinalityType DEF Below
<1>2. \E h : Sums(h, f, Below(S, n))
  BY StepBelow
<1>3. \E h : Sums(h, f, SUBSET S)
  BY <1>1, <1>2
<1> DEFINE g == CHOOSE h : h = [s \in SUBSET S |-> Step(f, h, s)]
<1>4. g = [s \in SUBSET S |-> Step(f, g, s)]
  BY <1>3 DEF Sums
<1>5. SumFunctionOnSet(f, S) = g[S]
  BY SumByStep
<1> HIDE DEF g
<1> QED
  BY <1>4, <1>5 DEF Sums

LEMMA TimesNext == \A a, b \in Nat : b > 0 => a * b = a * (b - 1) + a /\ a * b \in Nat
OBVIOUS

LEMMA SumBounded ==
  ASSUME NEW S, IsFiniteSet(S), NEW max \in Nat, NEW f \in [S -> 0..max]
  PROVE  SumFunction(f) \in 0..max * Cardinality(S)
<1>1. PICK g : Sums(g, f, SUBSET S) /\ SumFunctionOnSet(f, S) = g[S]
  BY SumUnfolds
<1> DEFINE Bounded(s) == g[s] \in 0..max * Cardinality(s)
           Bad == {k \in Nat : \E s \in SUBSET S : Cardinality(s) = k /\ ~Bounded(s)}
<1>2. Bad = {}
  <2> SUFFICES ASSUME Bad # {} PROVE FALSE
    OBVIOUS
  <2>1. PICK k \in Bad : \A l \in Bad : k <= l
    BY LeastNumber
  <2>2. PICK s \in SUBSET S : Cardinality(s) = k /\ ~Bounded(s)
    OBVIOUS
  <2> DEFINE r == s \ {Some(s)}
  <2>3. g[s] = Step(f, g, s)
    BY <1>1 DEF Sums
  <2>4. s # {}
    <3> SUFFICES ASSUME s = {} PROVE FALSE
      OBVIOUS
    <3>1. g[s] = 0 /\ Cardinality(s) = 0
      BY <2>3, FS_EmptySet DEF Step
    <3> QED
      BY <2>2, <3>1
  <2>5. r \in SUBSET S /\ Cardinality(r) = k - 1 /\ k > 0 /\ k \in Nat
    BY <2>2, <2>4, SmallerRest
  <2>6. k - 1 \in Nat /\ k - 1 \notin Bad
    BY <2>1, <2>5
  <2>7. g[r] \in 0..max * (k - 1)
    BY <2>5, <2>6
  <2>8. f[Some(s)] \in 0..max
    BY <2>4, SomeElement
  <2>9. g[s] = f[Some(s)] + g[r]
    BY <2>3, <2>4 DEF Step
  <2> HIDE DEF r, Bad
  <2>10. g[s] \in 0..max * k
    BY <2>5, <2>6, <2>7, <2>8, <2>9, TimesNext
  <2> QED
    BY <2>2, <2>10
<1>3. Bounded(S)
  BY <1>2, FS_CardinalityType
<1>4. SumFunction(f) = g[S]
  BY <1>1 DEF SumFunction
<1> QED
  BY <1>3, <1>4

(***************************************************************************)
(* Type correctness.                                                       *)
(***************************************************************************)
LEMMA TimesMonotonic == \A a, b, c \in Nat : b <= c => a * b <= a * c
<1> SUFFICES ASSUME NEW a \in Nat, NEW b \in Nat, NEW c \in Nat, b <= c
             PROVE  a * b <= a * c
  OBVIOUS
<1>1. PICK d \in Nat : c = b + d
  <2>1. c - b \in Nat /\ c = b + (c - b)
    OBVIOUS
  <2> QED
    BY <2>1
<1>2. a * c = a * b + a * d /\ a * d \in Nat /\ a * b \in Nat
  BY <1>1
<1> QED
  BY <1>2

LEMMA TotalType == Total \in Nat /\ Nothing \in Offer
<1>1. Cardinality(TargetPools) \in Nat
  BY PoolAssumption, FS_CardinalityType
<1>2. \A a, b \in Nat : a * b \in Nat
  OBVIOUS
<1>3. Total \in Nat
  BY <1>1, <1>2, PoolAssumption DEF Total
<1> QED
  BY <1>3 DEF Nothing, Offer

\* What the selected pools have fits in what all of them may have.
LEMMA AccumulateType ==
  ASSUME NEW pools \in [TargetPools -> TargetPool]
  PROVE  Accumulate(pools) \in Offer
<1> DEFINE S == Selected(pools)
           f == [t \in S |-> pools[t].available]
<1>1. IsFiniteSet(S) /\ Cardinality(S) <= Cardinality(TargetPools)
  BY PoolAssumption, FS_Subset DEF Selected
<1>2. Cardinality(S) \in Nat /\ Cardinality(TargetPools) \in Nat
  BY <1>1, PoolAssumption, FS_CardinalityType
<1>3. \A t \in S : pools[t].available \in 0..MaxCapacity /\ pools[t].classes \in SUBSET Classes
  BY DEF Selected, TargetPool
<1>4. f \in [S -> 0..MaxCapacity]
  BY <1>3
<1>5. SumFunction(f) \in 0..MaxCapacity * Cardinality(S)
  BY <1>1, <1>4, PoolAssumption, SumBounded
<1>6. MaxCapacity * Cardinality(S) <= MaxCapacity * Cardinality(TargetPools)
  BY <1>1, <1>2, PoolAssumption, TimesMonotonic
<1>7. /\ MaxCapacity * Cardinality(S) \in Nat
      /\ MaxCapacity * Cardinality(TargetPools) \in Nat
  BY <1>2, PoolAssumption
<1>8. SumFunction(f) \in 0..Total
  BY <1>5, <1>6, <1>7 DEF Total
<1>9. UNION {pools[t].classes : t \in S} \in SUBSET Classes
  BY <1>3
<1> QED
  BY <1>8, <1>9 DEF Accumulate, Offer

LEMMA NoPoolType == NoPool \in Pool /\ NoPool.phase = "absent"
BY TotalType DEF NoPool, Pool

LEMMA WriteType ==
  ASSUME NEW p \in Pool, Write(p)
  PROVE  pool' \in Pool
BY NoPoolType DEF Write

LEMMA TypesInit == Init => TypeOK
<1> SUFFICES ASSUME Init PROVE TypeOK
  OBVIOUS
<1>1. targets \in [TargetPools -> TargetPool]
  BY PoolAssumption DEF Init, NoTargetPool, TargetPool
<1>2. objects \in [Objects -> ObjectStates]
  BY DEF Init, ObjectStates
<1>3. oseen = objects /\ tseen = targets /\ pool = NoPool /\ seen = NoPool /\ copy = NoPool
  BY DEF Init
<1>4. changes \in 0..MaxChanges /\ faults \in 0..MaxFaults
  BY PoolAssumption DEF Init
<1>5. plan \in Offer
  BY TotalType DEF Init
<1>6. world \in Worlds /\ queue \in BOOLEAN /\ pc = "start" /\ todo = {} /\ missed = {}
  BY DEF Init
<1> QED
  BY <1>1, <1>2, <1>3, <1>4, <1>5, <1>6, NoPoolType DEF TypeOK

LEMMA TypesBegin ==
  ASSUME TypeOK, Initialize \/ Begin
  PROVE  TypeOK'
<1>1. CASE Initialize
  <2>1. pool' \in Pool
    BY <1>1, NoPoolType DEF Initialize, TypeOK, Pool
  <2> QED
    BY <1>1, <2>1 DEF Initialize, TypeOK
<1>2. CASE Begin
  <2>1. Accumulate(tseen) \in Offer
    BY AccumulateType DEF TypeOK
  <2> QED
    BY <1>2, <2>1 DEF Begin, TypeOK, worker, clusters, Assigned
<1> QED
  BY <1>1, <1>2

\* The worker ends its pass.
LEMMA FinishType ==
  ASSUME Finish
  PROVE  /\ pc' = "idle" /\ copy' \in Pool /\ plan' \in Offer /\ todo' = {}
BY NoPoolType, TotalType DEF Finish

LEMMA TypesWrite ==
  ASSUME TypeOK, PatchStatus \/ RemoveFinalizer
  PROVE  TypeOK'
<1>1. Finish /\ queue' \in BOOLEAN
  BY DEF TypeOK, PatchStatus, RemoveFinalizer, Done, Retry
<1>2. pool' \in Pool
  <2>1. CASE PatchStatus
    BY <2>1 DEF PatchStatus, TypeOK, Pool, Offer
  <2>2. CASE RemoveFinalizer
    <3>1. [pool EXCEPT !.fin = FALSE] \in Pool
      BY DEF TypeOK, Pool
    <3> QED
      BY <2>2, <3>1, WriteType DEF RemoveFinalizer, TypeOK
  <2> QED
    BY <2>1, <2>2
<1> QED
  BY <1>1, <1>2, FinishType DEF TypeOK, PatchStatus, RemoveFinalizer

LEMMA TypesNextObject ==
  ASSUME TypeOK, NEW o \in Objects, pc = "drain", o \in todo, NextObject(o)
  PROVE  /\ queue' \in BOOLEAN /\ pc' \in {"idle", "drain"}
         /\ copy' \in Pool /\ plan' \in Offer
         /\ todo' \subseteq Objects /\ (todo' # {}) = (pc' = "drain")
<1>1. CASE todo = {o}
  BY <1>1, FinishType DEF NextObject, Done, TypeOK
<1>2. CASE todo # {o}
  <2>1. todo \ {o} # {}
    BY <1>2
  <2> QED
    BY <1>2, <2>1 DEF NextObject, TypeOK
<1> QED
  BY <1>1, <1>2

LEMMA FaultType ==
  ASSUME TypeOK, NEW event, Fault(event)
  PROVE  faults' \in 0..MaxFaults
BY PoolAssumption DEF TypeOK, Fault

LEMMA TypesDelete ==
  ASSUME TypeOK, NEW o \in Objects, DeleteObject(o) \/ DeleteObjectFails(o)
  PROVE  TypeOK'
<1>1. /\ queue' \in BOOLEAN /\ pc' \in {"idle", "drain"}
      /\ copy' \in Pool /\ plan' \in Offer
      /\ todo' \subseteq Objects /\ (todo' # {}) = (pc' = "drain")
  BY TypesNextObject DEF DeleteObject, DeleteObjectFails
<1>2. CASE DeleteObject(o)
  BY <1>1, <1>2 DEF DeleteObject, TypeOK, ObjectStates
<1>3. CASE DeleteObjectFails(o)
  BY <1>1, <1>3, FaultType DEF DeleteObjectFails, TypeOK, clusters
<1> QED
  BY <1>2, <1>3

LEMMA TypesFault ==
  ASSUME TypeOK, CallFails \/ Restart
  PROVE  TypeOK'
<1>1. faults' \in 0..MaxFaults
  BY FaultType DEF CallFails, Restart
<1>2. /\ copy' \in Pool /\ plan' \in Offer /\ todo' = {} /\ queue' \in BOOLEAN
      /\ pc' \in {"start", "idle"}
  BY NoPoolType, TotalType DEF CallFails, Restart, Retry, Finish
<1> QED
  BY <1>1, <1>2 DEF CallFails, Restart, TypeOK, clusters

LEMMA TypesObserve ==
  ASSUME TypeOK, Informers
  PROVE  TypeOK'
<1>1. CASE ObservePool
  BY <1>1 DEF ObservePool, TypeOK, worker
<1>2. ASSUME NEW o \in Objects, ObserveObject(o) PROVE TypeOK'
  BY <1>2 DEF ObserveObject, TypeOK, worker
<1>3. ASSUME NEW t \in TargetPools, ObserveTargetPool(t) PROVE TypeOK'
  BY <1>3 DEF ObserveTargetPool, TypeOK, worker
<1> QED
  BY <1>1, <1>2, <1>3 DEF Informers

\* What the clusters do changes the pool, an object, or a target pool.
LEMMA ClusterSteps ==
  ASSUME TypeOK, Clusters
  PROVE  \/ \E p \in Pool : ChangePool(p)
         \/ \E o \in Objects, state \in ObjectStates : ChangeObject(o, state)
         \/ \E t \in TargetPools, p \in TargetPool : ChangeTarget(t, p)
<1>1. CASE GiveFinalizer
  BY <1>1 DEF GiveFinalizer, TypeOK, Pool
<1>2. CASE DeletePool
  BY <1>2, NoPoolType DEF DeletePool, TypeOK, Pool
<1>3. ASSUME NEW o \in Objects, Assign(o) \/ ObjectVanishes(o)
      PROVE  \E state \in ObjectStates : ChangeObject(o, state)
  BY <1>3 DEF Assign, ObjectVanishes, ObjectStates
<1>4. ASSUME NEW t \in TargetPools,
             AddTargetPool(t) \/ ReportTargetPool(t) \/ Relabel(t) \/ DropTargetPool(t)
      PROVE  \E p \in TargetPool : ChangeTarget(t, p)
  <2>1. targets[t] \in TargetPool
    BY DEF TypeOK
  <2>2. NoTargetPool \in TargetPool
    BY PoolAssumption DEF NoTargetPool, TargetPool
  <2>3. CASE AddTargetPool(t)
    <3>1. \A matches \in BOOLEAN :
            [NoTargetPool EXCEPT !.there = TRUE, !.matches = matches] \in TargetPool
      BY <2>2 DEF TargetPool
    <3> QED
      BY <2>3, <3>1 DEF AddTargetPool
  <2>4. CASE ReportTargetPool(t)
    <3>1. \A classes \in SUBSET Classes : \A available \in 0..MaxCapacity :
            [targets[t] EXCEPT !.classes = classes, !.available = available] \in TargetPool
      BY <2>1 DEF TargetPool
    <3> QED
      BY <2>4, <3>1 DEF ReportTargetPool
  <2>5. CASE Relabel(t)
    <3>1. [targets[t] EXCEPT !.matches = ~@] \in TargetPool
      BY <2>1 DEF TargetPool
    <3> QED
      BY <2>5, <3>1 DEF Relabel
  <2>6. CASE DropTargetPool(t)
    BY <2>2, <2>6 DEF DropTargetPool
  <2> QED
    BY <1>4, <2>3, <2>4, <2>5, <2>6
<1> QED
  BY <1>1, <1>2, <1>3, <1>4 DEF Clusters, GiveFinalizer, DeletePool

LEMMA TypesClusters ==
  ASSUME TypeOK, Clusters
  PROVE  TypeOK'
<1>1. ASSUME NEW p \in Pool, ChangePool(p) PROVE TypeOK'
  <2>1. pool' \in Pool
    BY <1>1, WriteType DEF ChangePool
  <2> QED
    BY <1>1, <2>1 DEF ChangePool, TypeOK, worker
<1>2. ASSUME NEW o \in Objects, NEW state \in ObjectStates, ChangeObject(o, state) PROVE TypeOK'
  BY <1>2 DEF ChangeObject, TypeOK, worker
<1>3. ASSUME NEW t \in TargetPools, NEW p \in TargetPool, ChangeTarget(t, p) PROVE TypeOK'
  BY <1>3, PoolAssumption DEF ChangeTarget, TypeOK, worker
<1> QED
  BY <1>1, <1>2, <1>3, ClusterSteps

LEMMA TypesStep == TypeOK /\ [Next]_vars => TypeOK'
<1> SUFFICES ASSUME TypeOK, [Next]_vars PROVE TypeOK'
  OBVIOUS
<1>1. CASE UNCHANGED vars
  BY <1>1 DEF vars, TypeOK
<1>2. CASE Work
  BY <1>2, TypesBegin, TypesWrite, TypesDelete DEF Work
<1>3. CASE CallFails \/ Restart
  BY <1>3, TypesFault
<1>4. CASE Informers
  BY <1>4, TypesObserve
<1>5. CASE Clusters
  BY <1>5, TypesClusters
<1>6. CASE \E o \in Objects : DeleteObjectFails(o)
  BY <1>6, TypesDelete
<1> QED
  BY <1>1, <1>2, <1>3, <1>4, <1>5, <1>6 DEF Next

\* The types hold, for any number of target pools and any capacity: what a pool
\* offers never exceeds what all target pools may have (VolumePoolReconciler.accumulatePools),
\* and a pass deletes objects exactly while there are objects left to delete.
THEOREM TypeCorrect == Spec => []TypeOK
<1>1. Init => TypeOK
  BY TypesInit
<1>2. TypeOK /\ [Next]_vars => TypeOK'
  BY TypesStep
<1> QED
  BY <1>1, <1>2, PTL DEF Spec

(***************************************************************************)
(* NothingLeft.  Its strengthening says what is known while no request is  *)
(* queued, because each event that matters queues one.                     *)
(***************************************************************************)
Quiet == pc # "start" /\ ~queue

\* The copy of a pass is what the cache shows as long as nothing is queued, and a
\* pool that is seen to be deleted is never live again, but after a restart.
LifeInv ==
  /\ pool.phase = "terminating" => pool.fin
  /\ seen.phase = "terminating" => seen.fin /\ pool.phase # "live"
  /\ copy.phase = "terminating" => pool.phase # "live"
  /\ seen.fin /\ pool.phase = "live" => pool.fin
  /\ pc \in {"start", "idle"} => copy.phase = "absent"
  /\ pc = "status" => copy.phase = "live"
  /\ pc \in {"drain", "release"} => copy.phase = "terminating"
  /\ Quiet /\ pc # "idle" => copy = seen

\* Which target pools match is known, and what is offered, or about to be, is theirs.
OfferInv ==
  ~May("relabel") =>
    /\ pc # "start" => \A t \in TargetPools :
         t \in Selected(tseen) /\ targets[t].there => targets[t].matches
    /\ Quiet /\ pc = "status" => plan = Accumulate(tseen)
    /\ Quiet /\ pc = "idle" /\ pool.phase = "live" /\ seen = pool => pool.offer = Accumulate(tseen)

\* No event is expected of an object but its end.
Leaving(o) == o \in missed \/ objects[o] \in {"terminating", "absent"}

DrainInv ==
  /\ \A o \in Objects : Assigned(o, oseen) => objects[o] # "unassigned"
  /\ Quiet /\ pc = "drain" => \E o \in Objects : Assigned(o, oseen) /\ (o \in todo \/ Leaving(o))
  /\ Quiet /\ pc = "idle" /\ seen = pool /\ pool.phase = "terminating" =>
       \E o \in Objects : Assigned(o, oseen) /\ Leaving(o)

LeftInv == TypeOK /\ LifeInv /\ OfferInv /\ DrainInv

LEMMA LeftSuffices == LeftInv => NothingLeft
<1> SUFFICES ASSUME LeftInv, AtRest PROVE
      /\ pool.phase = "live" /\ ~May("relabel") => pool.offer = Accumulate(targets)
      /\ pool.phase = "terminating" =>
           \E o \in Objects : objects[o] = "terminating" \/ (o \in missed /\ Assigned(o, objects))
  BY DEF NothingLeft
<1>1. Quiet /\ pc = "idle" /\ seen = pool /\ oseen = objects /\ tseen = targets
  BY DEF AtRest, Quiet
<1>2. pool.phase = "live" /\ ~May("relabel") => pool.offer = Accumulate(targets)
  BY <1>1 DEF LeftInv, OfferInv
<1>3. ASSUME pool.phase = "terminating"
      PROVE  \E o \in Objects : objects[o] = "terminating" \/ (o \in missed /\ Assigned(o, objects))
  <2>1. PICK o \in Objects : Assigned(o, objects) /\ Leaving(o)
    BY <1>1, <1>3 DEF LeftInv, DrainInv
  <2> QED
    BY <2>1 DEF Assigned, Leaving
<1> QED
  BY <1>2, <1>3

LEMMA LeftInit == Init => LeftInv
<1> SUFFICES ASSUME Init PROVE LeftInv
  OBVIOUS
<1>1. TypeOK
  BY TypesInit
<1>2. pool = NoPool /\ seen = NoPool /\ copy = NoPool /\ pc = "start"
  BY DEF Init
<1>3. LifeInv
  BY <1>2 DEF LifeInv, NoPool, Quiet
<1>4. OfferInv
  BY <1>2 DEF OfferInv, Quiet
<1>5. \A o \in Objects : ~Assigned(o, oseen)
  BY DEF Init, Assigned
<1>6. DrainInv
  BY <1>2, <1>5 DEF DrainInv, Quiet
<1> QED
  BY <1>1, <1>3, <1>4, <1>6 DEF LeftInv

(***************************************************************************)
(* The pool and the copy of a pass.                                        *)
(***************************************************************************)
LEMMA WriteEffect ==
  ASSUME NEW p \in Pool, Write(p)
  PROVE  /\ pool'.phase = "terminating" => pool' = p /\ p.fin
         /\ pool'.phase = "live" => pool' = p
         /\ pool' = p \/ pool' = NoPool
BY NoPoolType DEF Write, NoPool, Pool

LEMMA LifeInitialize ==
  ASSUME TypeOK, LifeInv, Initialize
  PROVE  LifeInv'
<1>1. seen' = pool' /\ copy' = copy /\ pc' = "idle" /\ copy.phase = "absent" /\ queue'
  BY DEF Initialize, LifeInv
<1>2. pool'.phase = "terminating" => pool'.fin
  BY DEF Initialize, LifeInv, TypeOK, Pool, NoPool
<1> QED
  BY <1>1, <1>2 DEF LifeInv, Quiet

LEMMA LifeBegin ==
  ASSUME TypeOK, LifeInv, Begin
  PROVE  LifeInv'
BY DEF Begin, LifeInv, Quiet, worker, clusters, TypeOK, Pool

\* A pass ends, and what is done to the pool keeps its phase or lets it go.
LEMMA LifeEnd ==
  ASSUME TypeOK, LifeInv, Finish, seen' = seen,
         \/ pool' = pool
         \/ /\ pool.phase = "live" => pool'.phase = "live" /\ pool'.fin = pool.fin
            /\ pool'.phase = "terminating" => pool.phase = "terminating" /\ pool'.fin = pool.fin
            /\ pool'.phase = "live" => pool.phase = "live"
  PROVE  LifeInv'
BY NoPoolType DEF LifeInv, Finish, Quiet, NoPool, Pool, TypeOK

LEMMA LifeWrite ==
  ASSUME TypeOK, LifeInv, PatchStatus \/ RemoveFinalizer
  PROVE  LifeInv'
<1>1. CASE PatchStatus
  <2>1. Finish /\ seen' = seen /\ pool'.phase = pool.phase /\ pool'.fin = pool.fin
    BY <1>1 DEF PatchStatus, Done, Retry, TypeOK, Pool
  <2> QED
    BY <2>1, LifeEnd
<1>2. CASE RemoveFinalizer
  <2>1. Finish /\ seen' = seen /\ pool.phase # "live"
    BY <1>2 DEF RemoveFinalizer, Done, Retry, LifeInv
  <2>2. CASE pool.phase = "absent"
    BY <1>2, <2>1, <2>2, LifeEnd DEF RemoveFinalizer
  <2>3. CASE pool.phase = "terminating"
    <3>1. [pool EXCEPT !.fin = FALSE] \in Pool /\ ~[pool EXCEPT !.fin = FALSE].fin
      BY DEF TypeOK, Pool
    <3>2. Write([pool EXCEPT !.fin = FALSE])
      BY <1>2, <2>3 DEF RemoveFinalizer
    <3>3. pool' = NoPool
      BY <2>3, <3>2 DEF Write, TypeOK, Pool
    <3> QED
      BY <2>1, <3>3, LifeEnd, NoPoolType
  <2> QED
    BY <2>1, <2>2, <2>3 DEF TypeOK, Pool
<1> QED
  BY <1>1, <1>2

LEMMA LifeDelete ==
  ASSUME TypeOK, LifeInv, NEW o \in Objects, DeleteObject(o) \/ DeleteObjectFails(o)
  PROVE  LifeInv'
<1>1. pool' = pool /\ seen' = seen /\ NextObject(o)
  BY DEF DeleteObject, DeleteObjectFails, clusters
<1>2. CASE Finish
  BY <1>1, <1>2, LifeEnd
<1>3. CASE UNCHANGED <<queue, pc, copy, plan>>
  BY <1>1, <1>3 DEF LifeInv, Quiet
<1> QED
  BY <1>1, <1>2, <1>3 DEF NextObject, Done

LEMMA LifeFault ==
  ASSUME TypeOK, LifeInv, CallFails \/ Restart
  PROVE  LifeInv'
<1>1. CASE CallFails
  BY <1>1, LifeEnd DEF CallFails, Retry, clusters
<1>2. CASE Restart
  BY <1>2, NoPoolType DEF Restart, LifeInv, Quiet, NoPool, clusters
<1> QED
  BY <1>1, <1>2

LEMMA LifeObserve ==
  ASSUME TypeOK, LifeInv, Informers
  PROVE  LifeInv'
<1>1. CASE ObservePool
  BY <1>1 DEF ObservePool, LifeInv, Quiet, worker
<1>2. ASSUME NEW o \in Objects, ObserveObject(o) PROVE LifeInv'
  BY <1>2 DEF ObserveObject, LifeInv, Quiet, worker
<1>3. ASSUME NEW t \in TargetPools, ObserveTargetPool(t) PROVE LifeInv'
  BY <1>3 DEF ObserveTargetPool, LifeInv, Quiet, worker
<1> QED
  BY <1>1, <1>2, <1>3 DEF Informers

\* Only what is done to the pool matters.
LEMMA PoolChanges ==
  ASSUME TypeOK, Clusters
  PROVE  /\ UNCHANGED <<world, seen, oseen, tseen, queue, worker, missed>>
         /\ \/ /\ pool' = pool
            \/ /\ UNCHANGED <<objects, targets>>
               /\ pool.phase = "live" /\ pool'.offer = pool.offer
               /\ pool' = [pool EXCEPT !.fin = TRUE] /\ ~pool.fin
            \/ /\ UNCHANGED <<objects, targets>>
               /\ pool.phase = "live"
               /\ pool' = NoPool \/ (pool'.phase = "terminating" /\ pool'.fin)
<1>1. CASE GiveFinalizer
  <2>1. [pool EXCEPT !.fin = TRUE] \in Pool
    BY DEF TypeOK, Pool
  <2>2. Write([pool EXCEPT !.fin = TRUE]) /\ pool.phase = "live" /\ ~pool.fin
    BY <1>1 DEF GiveFinalizer, ChangePool
  <2>3. pool' = [pool EXCEPT !.fin = TRUE]
    BY <2>2 DEF Write, TypeOK, Pool
  <2> QED
    BY <1>1, <2>2, <2>3 DEF GiveFinalizer, ChangePool, TypeOK, Pool
<1>2. CASE DeletePool
  <2>1. CASE pool.fin
    <3>1. Write([pool EXCEPT !.phase = "terminating"])
      BY <1>2, <2>1 DEF DeletePool, ChangePool
    <3>2. pool'.phase = "terminating" /\ pool'.fin
      BY <2>1, <3>1 DEF Write, TypeOK, Pool
    <3> QED
      BY <1>2, <3>2 DEF DeletePool, ChangePool
  <2>2. CASE ~pool.fin
    BY <1>2, <2>2 DEF DeletePool, ChangePool, Write
  <2> QED
    BY <2>1, <2>2
<1>3. ASSUME NEW o \in Objects, Assign(o) \/ ObjectVanishes(o)
      PROVE  UNCHANGED <<world, pool, seen, oseen, tseen, queue, worker, missed>>
  BY <1>3 DEF Assign, ObjectVanishes, ChangeObject
<1>4. ASSUME NEW t \in TargetPools,
             AddTargetPool(t) \/ ReportTargetPool(t) \/ Relabel(t) \/ DropTargetPool(t)
      PROVE  UNCHANGED <<world, pool, seen, oseen, tseen, queue, worker, missed>>
  BY <1>4 DEF AddTargetPool, ReportTargetPool, Relabel, DropTargetPool, ChangeTarget
<1> QED
  BY <1>1, <1>2, <1>3, <1>4 DEF Clusters

LEMMA LifeClusters ==
  ASSUME TypeOK, LifeInv, Clusters
  PROVE  LifeInv'
<1>1. UNCHANGED <<seen, queue, worker>>
  BY PoolChanges
<1>2. CASE pool' = pool
  BY <1>1, <1>2 DEF LifeInv, Quiet, worker
<1>3. CASE pool.phase = "live" /\ pool' = [pool EXCEPT !.fin = TRUE]
  BY <1>1, <1>3 DEF LifeInv, Quiet, worker, TypeOK, Pool
<1>4. CASE pool.phase = "live" /\ (pool' = NoPool \/ (pool'.phase = "terminating" /\ pool'.fin))
  BY <1>1, <1>4 DEF LifeInv, Quiet, worker, NoPool
<1> QED
  BY <1>2, <1>3, <1>4, PoolChanges

LEMMA LifeStep == TypeOK /\ LifeInv /\ [Next]_vars => LifeInv'
<1> SUFFICES ASSUME TypeOK, LifeInv, [Next]_vars PROVE LifeInv'
  OBVIOUS
<1>1. CASE UNCHANGED vars
  BY <1>1 DEF vars, LifeInv, Quiet
<1>2. CASE Work
  BY <1>2, LifeInitialize, LifeBegin, LifeWrite, LifeDelete DEF Work
<1>3. CASE CallFails \/ Restart
  BY <1>3, LifeFault
<1>4. CASE Informers
  BY <1>4, LifeObserve
<1>5. CASE Clusters
  BY <1>5, LifeClusters
<1>6. CASE \E o \in Objects : DeleteObjectFails(o)
  BY <1>6, LifeDelete
<1> QED
  BY <1>1, <1>2, <1>3, <1>4, <1>5, <1>6 DEF Next

(***************************************************************************)
(* What the pool offers.                                                   *)
(***************************************************************************)
LEMMA OfferBegin ==
  ASSUME TypeOK, LifeInv, OfferInv, Initialize \/ Begin
  PROVE  OfferInv'
<1>1. CASE Initialize
  BY <1>1 DEF Initialize, OfferInv, Quiet, May, Selected
<1>2. CASE Begin
  <2>1. UNCHANGED <<world, pool, seen, targets, tseen>> /\ ~queue' /\ pc = "idle"
    BY <1>2 DEF Begin, clusters
  <2>2. pc' = "status" => plan' = Accumulate(tseen)
    BY <1>2 DEF Begin, worker
  <2>3. pc' = "idle" => seen.phase = "absent"
    BY <1>2 DEF Begin, worker, LifeInv, TypeOK, Pool
  <2>4. Accumulate(tseen)' = Accumulate(tseen) /\ Selected(tseen)' = Selected(tseen)
    BY <2>1 DEF Accumulate, Selected
  <2>5. May("relabel")' = May("relabel")
    BY <2>1 DEF May
  <2>6. pc' = "idle" => ~(pool'.phase = "live" /\ seen' = pool')
    BY <2>1, <2>3
  <2>7. pc' # "start"
    BY <1>2 DEF Begin, worker
  <2> QED
    BY <2>1, <2>2, <2>4, <2>5, <2>6 DEF OfferInv, Quiet
<1> QED
  BY <1>1, <1>2

\* A merge patch made of the copy that the cache still shows leaves either what is
\* planned or a pool that the cache does not show yet.
LEMMA PatchEffect ==
  ASSUME TypeOK, PatchStatus, copy = seen, seen = pool', pool'.phase = "live"
  PROVE  pool'.offer = plan
<1>1. pool.phase # "absent"
  BY DEF PatchStatus
<1>2. /\ pool'.offer.classes = IF plan.classes = copy.offer.classes THEN pool.offer.classes
                                ELSE plan.classes
      /\ pool'.offer.available = IF plan.available = copy.offer.available
                                 THEN pool.offer.available ELSE plan.available
      /\ pool' \in Pool
  BY <1>1 DEF PatchStatus, TypeOK, Pool, Offer
<1>3. pool'.offer.classes = copy.offer.classes /\ pool'.offer.available = copy.offer.available
  OBVIOUS
<1>4. pool'.offer.classes = plan.classes /\ pool'.offer.available = plan.available
  BY <1>2, <1>3
<1>5. pool'.offer \in Offer /\ plan \in Offer
  BY <1>2 DEF TypeOK, Pool
<1> QED
  BY <1>4, <1>5 DEF Offer

\* The target pools and what is seen of them stay as they are while a pass ends.
LEMMA OfferEnd ==
  ASSUME OfferInv, UNCHANGED <<world, targets, tseen>>, pc # "start", pc' = "idle",
         Quiet' /\ pool'.phase = "live" /\ seen' = pool' /\ ~May("relabel") =>
           pool'.offer = Accumulate(tseen)
  PROVE  OfferInv'
BY DEF OfferInv, Quiet, May, Selected, Accumulate

LEMMA OfferWrite ==
  ASSUME TypeOK, LifeInv, OfferInv, PatchStatus \/ RemoveFinalizer
  PROVE  OfferInv'
<1>1. /\ UNCHANGED <<world, targets, tseen, seen>> /\ pc' = "idle"
      /\ pc \in {"status", "release"} /\ (Quiet' => Quiet)
  BY DEF PatchStatus, RemoveFinalizer, Done, Retry, Finish, Quiet
<1>2. ASSUME Quiet', pool'.phase = "live", seen' = pool', ~May("relabel")
      PROVE  pool'.offer = Accumulate(tseen)
  <2>1. copy = seen
    BY <1>1, <1>2 DEF LifeInv
  <2>2. CASE PatchStatus
    <3>1. pool'.offer = plan
      BY <1>1, <1>2, <2>1, <2>2, PatchEffect
    <3> QED
      BY <1>1, <1>2, <2>2, <3>1 DEF OfferInv, PatchStatus
  <2>3. CASE RemoveFinalizer
    <3>1. copy.phase = "terminating"
      BY <2>3 DEF LifeInv, RemoveFinalizer
    <3> QED
      BY <1>1, <1>2, <2>1, <3>1
  <2> QED
    BY <2>2, <2>3
<1> QED
  BY <1>1, <1>2, OfferEnd

LEMMA OfferDelete ==
  ASSUME TypeOK, LifeInv, OfferInv, NEW o \in Objects, DeleteObject(o) \/ DeleteObjectFails(o)
  PROVE  OfferInv'
<1>1. /\ UNCHANGED <<world, pool, seen, targets, tseen>> /\ NextObject(o) /\ pc = "drain"
  BY DEF DeleteObject, DeleteObjectFails, clusters
<1>2. CASE Done
  <2>1. pc' = "idle" /\ (Quiet' => Quiet)
    BY <1>1, <1>2 DEF Done, Finish, Quiet
  <2>2. Quiet' => seen'.phase = "terminating"
    BY <1>1, <2>1 DEF LifeInv
  <2> QED
    BY <1>1, <2>1, <2>2, OfferEnd
<1>3. CASE UNCHANGED <<queue, pc, copy, plan>>
  BY <1>1, <1>3 DEF OfferInv, Quiet, May, Selected, Accumulate
<1> QED
  BY <1>1, <1>2, <1>3 DEF NextObject

LEMMA OfferFault ==
  ASSUME TypeOK, OfferInv, CallFails \/ Restart
  PROVE  OfferInv'
<1>1. CASE CallFails
  BY <1>1, OfferEnd DEF CallFails, Retry, Finish, Quiet, clusters
<1>2. CASE Restart
  BY <1>2 DEF Restart, OfferInv, Quiet
<1> QED
  BY <1>1, <1>2

LEMMA SameOffer ==
  ASSUME NEW a, NEW b, Selected(a) = Selected(b), \A t \in Selected(a) : a[t] = b[t]
  PROVE  Accumulate(a) = Accumulate(b)
<1>1. {a[t].classes : t \in Selected(a)} = {b[t].classes : t \in Selected(b)}
  OBVIOUS
<1>2. [t \in Selected(a) |-> a[t].available] = [t \in Selected(b) |-> b[t].available]
  OBVIOUS
<1> QED
  BY <1>1, <1>2 DEF Accumulate

\* An event that wakes nobody changes nothing that is offered.
LEMMA OfferObserveTarget ==
  ASSUME TypeOK, OfferInv, NEW t \in TargetPools, ObserveTargetPool(t)
  PROVE  OfferInv'
<1> SUFFICES ASSUME ~May("relabel")
             PROVE  /\ \A u \in TargetPools :
                         u \in Selected(tseen)' /\ targets'[u].there => targets'[u].matches
                    /\ Quiet' /\ pc' = "status" => plan' = Accumulate(tseen)'
                    /\ Quiet' /\ pc' = "idle" /\ pool'.phase = "live" /\ seen' = pool' =>
                         pool'.offer = Accumulate(tseen)'
  BY DEF OfferInv, ObserveTargetPool, May
<1>1. /\ UNCHANGED <<pool, seen, targets, pc, plan>> /\ tseen' = [tseen EXCEPT ![t] = targets[t]]
      /\ pc # "start" /\ tseen \in [TargetPools -> TargetPool]
      /\ targets \in [TargetPools -> TargetPool]
  BY DEF ObserveTargetPool, worker, TypeOK
<1>2. \A u \in TargetPools : u \in Selected(tseen) /\ targets[u].there => targets[u].matches
  BY <1>1 DEF OfferInv
<1>3. \A u \in TargetPools : tseen'[u] = IF u = t THEN targets[t] ELSE tseen[u]
  BY <1>1
<1>4. \A u \in TargetPools : u \in Selected(tseen)' /\ targets'[u].there => targets'[u].matches
  BY <1>1, <1>2, <1>3 DEF Selected
<1>5. ASSUME Quiet' PROVE Quiet /\ Accumulate(tseen') = Accumulate(tseen)
  <2>1. ~queue /\ t \notin Selected(IF targets[t].there THEN targets ELSE tseen)
    BY <1>5 DEF ObserveTargetPool, Quiet
  <2>2. t \notin Selected(tseen') /\ t \notin Selected(tseen)
    BY <1>2, <1>3, <2>1 DEF Selected
  <2>3. Selected(tseen') = Selected(tseen) /\ \A u \in Selected(tseen') : tseen'[u] = tseen[u]
    BY <1>3, <2>2 DEF Selected
  <2> QED
    BY <1>1, <2>1, <2>3, SameOffer DEF Quiet
<1>6. Accumulate(tseen') = Accumulate(tseen)'
  BY DEF Accumulate, Selected
<1> QED
  BY <1>1, <1>4, <1>5, <1>6 DEF OfferInv

LEMMA OfferObserve ==
  ASSUME TypeOK, OfferInv, Informers
  PROVE  OfferInv'
<1>1. CASE ObservePool
  BY <1>1 DEF ObservePool, OfferInv, Quiet, worker, May, Selected
<1>2. ASSUME NEW o \in Objects, ObserveObject(o) PROVE OfferInv'
  <2>1. UNCHANGED <<world, pool, seen, targets, tseen, pc, plan>> /\ (Quiet' => Quiet)
    BY <1>2 DEF ObserveObject, Quiet, worker
  <2> QED
    BY <2>1 DEF OfferInv, May, Selected, Accumulate
<1> QED
  BY <1>1, <1>2, OfferObserveTarget DEF Informers

\* Without labels that are taken away a target pool goes on to match until it goes,
\* and the next of its name comes after its end was seen.
LEMMA MatchesKept ==
  ASSUME TypeOK, Clusters, ~May("relabel"), pc # "start",
         NEW u \in TargetPools, u \in Selected(tseen),
         targets[u].there => targets[u].matches, targets'[u].there
  PROVE  targets'[u].matches
<1>1. CASE UNCHANGED targets
  BY <1>1
<1>2. ASSUME NEW t \in TargetPools,
             AddTargetPool(t) \/ ReportTargetPool(t) \/ Relabel(t) \/ DropTargetPool(t)
      PROVE  targets'[u].matches
  <2>1. \E p : targets' = [targets EXCEPT ![t] = p]
    BY <1>2 DEF AddTargetPool, ReportTargetPool, Relabel, DropTargetPool, ChangeTarget
  <2>2. targets \in [TargetPools -> TargetPool]
    BY DEF TypeOK
  <2>3. CASE t # u
    <3>1. targets'[u] = targets[u]
      BY <2>1, <2>2, <2>3
    <3> QED
      BY <3>1
  <2>4. CASE t = u
    <3>1. ~AddTargetPool(u)
      BY DEF AddTargetPool, Selected
    <3>2. CASE ReportTargetPool(u)
      BY <2>2, <3>2 DEF ReportTargetPool, ChangeTarget, TargetPool
    <3>3. CASE Relabel(u)
      BY <2>2, <3>3 DEF Relabel, ChangeTarget, TargetPool
    <3>4. CASE DropTargetPool(u)
      BY <2>2, <3>4 DEF DropTargetPool, ChangeTarget, NoTargetPool
    <3> QED
      BY <1>2, <2>4, <3>1, <3>2, <3>3, <3>4
  <2> QED
    BY <2>3, <2>4
<1>3. ASSUME NEW o \in Objects, Assign(o) \/ ObjectVanishes(o) PROVE UNCHANGED targets
  BY <1>3 DEF Assign, ObjectVanishes, ChangeObject
<1>4. CASE GiveFinalizer \/ DeletePool
  BY <1>1, <1>4 DEF GiveFinalizer, DeletePool, ChangePool
<1> QED
  BY <1>1, <1>2, <1>3, <1>4 DEF Clusters

LEMMA OfferClusters ==
  ASSUME TypeOK, LifeInv, OfferInv, Clusters
  PROVE  OfferInv'
<1> SUFFICES ASSUME ~May("relabel")
             PROVE  /\ pc # "start" => \A u \in TargetPools :
                         u \in Selected(tseen)' /\ targets'[u].there => targets'[u].matches
                    /\ Quiet' /\ pc' = "status" => plan' = Accumulate(tseen)'
                    /\ Quiet' /\ pc' = "idle" /\ pool'.phase = "live" /\ seen' = pool' =>
                         pool'.offer = Accumulate(tseen)'
  BY PoolChanges DEF OfferInv, May, worker
<1>1. UNCHANGED <<world, seen, tseen, queue, pc, plan>>
  BY PoolChanges DEF worker
<1>2. Quiet' = Quiet /\ Accumulate(tseen)' = Accumulate(tseen) /\ Selected(tseen)' = Selected(tseen)
  BY <1>1 DEF Quiet, Accumulate, Selected
<1>3. pc # "start" => \A u \in TargetPools :
        u \in Selected(tseen)' /\ targets'[u].there => targets'[u].matches
  BY <1>2, MatchesKept DEF OfferInv
<1>4. pool' = pool \/ ~(pool'.phase = "live" /\ seen' = pool')
  <2>1. CASE pool.phase = "live" /\ ~pool.fin /\ pool' = [pool EXCEPT !.fin = TRUE]
    <3>1. pool'.fin
      BY <2>1 DEF TypeOK, Pool
    <3>2. ~seen.fin
      BY <2>1 DEF LifeInv
    <3> QED
      BY <1>1, <3>1, <3>2
  <2>2. CASE pool' = NoPool \/ pool'.phase = "terminating"
    BY <2>2, NoPoolType
  <2> QED
    BY <2>1, <2>2, PoolChanges
<1> QED
  BY <1>1, <1>2, <1>3, <1>4 DEF OfferInv

LEMMA OfferStep == TypeOK /\ LifeInv /\ OfferInv /\ [Next]_vars => OfferInv'
<1> SUFFICES ASSUME TypeOK, LifeInv, OfferInv, [Next]_vars PROVE OfferInv'
  OBVIOUS
<1>1. CASE UNCHANGED vars
  BY <1>1 DEF vars, OfferInv, Quiet, May, Selected, Accumulate
<1>2. CASE Work
  BY <1>2, OfferBegin, OfferWrite, OfferDelete DEF Work
<1>3. CASE CallFails \/ Restart
  BY <1>3, OfferFault
<1>4. CASE Informers
  BY <1>4, OfferObserve
<1>5. CASE Clusters
  BY <1>5, OfferClusters
<1>6. CASE \E o \in Objects : DeleteObjectFails(o)
  BY <1>6, OfferDelete
<1> QED
  BY <1>1, <1>2, <1>3, <1>4, <1>5, <1>6 DEF Next

(***************************************************************************)
(* The objects of a pool that is deleted.                                  *)
(***************************************************************************)
LEMMA DrainBegin ==
  ASSUME TypeOK, LifeInv, DrainInv, Initialize \/ Begin
  PROVE  DrainInv'
<1>1. CASE Initialize
  BY <1>1 DEF Initialize, DrainInv, Quiet, Assigned
<1>2. CASE Begin
  <2>1. UNCHANGED <<pool, seen, objects, oseen, missed>> /\ pc = "idle"
    BY <1>2 DEF Begin, clusters
  <2>2. \A o \in Objects : Assigned(o, oseen)' = Assigned(o, oseen) /\ Leaving(o)' = Leaving(o)
    BY <2>1 DEF Assigned, Leaving
  <2>3. pc' = "idle" => seen.phase = "absent"
    BY <1>2 DEF Begin, worker, LifeInv, TypeOK, Pool
  <2>4. pc' = "drain" => \E o \in Objects : Assigned(o, oseen) /\ o \in todo'
    BY <1>2, <2>1 DEF Begin, worker
  <2> QED
    BY <2>1, <2>2, <2>3, <2>4 DEF DrainInv
<1> QED
  BY <1>1, <1>2

LEMMA DrainWrite ==
  ASSUME TypeOK, LifeInv, DrainInv, PatchStatus \/ RemoveFinalizer
  PROVE  DrainInv'
<1>1. /\ UNCHANGED <<objects, oseen, seen, missed>> /\ pc' = "idle" /\ (Quiet' => Quiet)
  BY DEF PatchStatus, RemoveFinalizer, Done, Retry, Finish, Quiet
<1>2. \A o \in Objects : Assigned(o, oseen)' = Assigned(o, oseen)
  BY <1>1 DEF Assigned
<1>3. ASSUME Quiet', seen' = pool', pool'.phase = "terminating" PROVE FALSE
  <2>1. CASE PatchStatus
    BY <1>1, <1>3, <2>1 DEF LifeInv, PatchStatus
  <2>2. CASE RemoveFinalizer
    <3>1. [pool EXCEPT !.fin = FALSE] \in Pool /\ ~[pool EXCEPT !.fin = FALSE].fin
      BY DEF TypeOK, Pool
    <3>2. CASE Write([pool EXCEPT !.fin = FALSE])
      BY <1>3, <3>1, <3>2, WriteEffect
    <3>3. CASE pool.phase = "absent" /\ pool' = pool
      BY <1>3, <3>3
    <3> QED
      BY <2>2, <3>2, <3>3 DEF RemoveFinalizer
  <2> QED
    BY <2>1, <2>2
<1> QED
  BY <1>1, <1>2, <1>3 DEF DrainInv

\* The pass that made its last call leaves an object whose end is to come.
LEMMA DrainDelete ==
  ASSUME TypeOK, LifeInv, DrainInv, NEW o \in Objects, DeleteObject(o) \/ DeleteObjectFails(o)
  PROVE  DrainInv'
<1>1. /\ UNCHANGED <<pool, seen, oseen>> /\ NextObject(o) /\ pc = "drain" /\ o \in todo
      /\ objects \in [Objects -> ObjectStates]
  BY DEF DeleteObject, DeleteObjectFails, clusters, TypeOK
<1>2. Leaving(o)'
  <2>1. CASE DeleteObject(o)
    BY <1>1, <2>1 DEF DeleteObject, Leaving
  <2>2. CASE DeleteObjectFails(o)
    BY <2>2 DEF DeleteObjectFails, Leaving
  <2> QED
    BY <2>1, <2>2
<1>3. \A u \in Objects : Leaving(u) => Leaving(u)'
  <2>1. CASE DeleteObject(o)
    BY <1>1, <1>2, <2>1 DEF DeleteObject, Leaving
  <2>2. CASE DeleteObjectFails(o)
    BY <2>2 DEF DeleteObjectFails, Leaving, clusters
  <2> QED
    BY <2>1, <2>2
<1>4. \A u \in Objects : Assigned(u, oseen)' => Assigned(u, oseen) /\ objects'[u] # "unassigned"
  <2>1. \A u \in Objects : Assigned(u, oseen)' = Assigned(u, oseen)
    BY <1>1 DEF Assigned
  <2>2. \A u \in Objects : objects'[u] # objects[u] => objects'[u] = "terminating"
    BY <1>1 DEF DeleteObject, DeleteObjectFails, clusters
  <2> QED
    BY <2>1, <2>2 DEF DrainInv
<1>5. ASSUME Quiet'
      PROVE  \E u \in Objects : Assigned(u, oseen)' /\ (u \in todo' \/ Leaving(u)')
  <2>1. Quiet
    BY <1>1, <1>5 DEF NextObject, Done, Finish, Quiet
  <2>2. PICK u \in Objects : Assigned(u, oseen) /\ (u \in todo \/ Leaving(u))
    BY <1>1, <2>1 DEF DrainInv
  <2>3. Assigned(u, oseen)'
    BY <1>1, <2>2 DEF Assigned
  <2>4. u \in todo => u \in todo' \/ u = o
    BY <1>1 DEF NextObject, Done, Finish
  <2> QED
    BY <1>2, <1>3, <2>2, <2>3, <2>4
<1>6. pc' = "idle" => todo' = {}
  BY <1>1 DEF NextObject, Done, Finish
<1> QED
  BY <1>4, <1>5, <1>6 DEF DrainInv

LEMMA DrainFault ==
  ASSUME TypeOK, LifeInv, DrainInv, CallFails \/ Restart
  PROVE  DrainInv'
<1>1. UNCHANGED <<objects, oseen>> /\ ~Quiet'
  BY DEF CallFails, Restart, Retry, Quiet, clusters
<1> QED
  BY <1>1 DEF DrainInv, Assigned

\* An event that wakes nobody is about an object that was not seen to be assigned.
LEMMA DrainObserveObject ==
  ASSUME TypeOK, DrainInv, NEW o \in Objects, ObserveObject(o)
  PROVE  DrainInv'
<1>1. /\ UNCHANGED <<pool, seen, objects, todo, pc, missed>>
      /\ oseen' = [oseen EXCEPT ![o] = objects[o]]
      /\ oseen \in [Objects -> ObjectStates] /\ objects \in [Objects -> ObjectStates]
  BY DEF ObserveObject, worker, TypeOK
<1>2. \A u \in Objects : Leaving(u)' = Leaving(u)
  BY <1>1 DEF Leaving
<1>3. \A u \in Objects : oseen'[u] = IF u = o THEN objects[o] ELSE oseen[u]
  BY <1>1
<1>4. \A u \in Objects : Assigned(u, oseen)' => objects'[u] # "unassigned"
  BY <1>1, <1>3 DEF DrainInv, Assigned
<1>5. ASSUME Quiet' PROVE Quiet /\ \A u \in Objects : Assigned(u, oseen) => Assigned(u, oseen)'
  <2>1. ~queue /\ ~Assigned(o, IF objects[o] = "absent" THEN oseen ELSE objects)
    BY <1>5 DEF ObserveObject, Quiet
  <2>2. ~Assigned(o, oseen)
    BY <1>1, <2>1 DEF DrainInv, Assigned, ObjectStates
  <2>3. \A u \in Objects : Assigned(u, oseen) => Assigned(u, oseen)'
    BY <1>3, <2>2 DEF Assigned
  <2> QED
    BY <1>1, <1>5, <2>1, <2>3 DEF Quiet
<1> QED
  BY <1>1, <1>2, <1>4, <1>5 DEF DrainInv

LEMMA DrainObserve ==
  ASSUME TypeOK, DrainInv, Informers
  PROVE  DrainInv'
<1>1. CASE ObservePool
  BY <1>1 DEF ObservePool, DrainInv, Quiet, Assigned, worker
<1>2. ASSUME NEW t \in TargetPools, ObserveTargetPool(t) PROVE DrainInv'
  <2>1. UNCHANGED <<pool, seen, objects, oseen, todo, pc, missed>> /\ (Quiet' => Quiet)
    BY <1>2 DEF ObserveTargetPool, Quiet, worker
  <2> QED
    BY <2>1 DEF DrainInv, Assigned, Leaving
<1> QED
  BY <1>1, <1>2, DrainObserveObject DEF Informers

\* What the clusters do to an object keeps it leaving.
LEMMA ObjectChanges ==
  ASSUME TypeOK, Clusters, NEW u \in Objects
  PROVE  /\ objects'[u] = "unassigned" => objects[u] = "unassigned"
         /\ Leaving(u) => Leaving(u)'
<1>1. UNCHANGED missed /\ objects \in [Objects -> ObjectStates]
  BY PoolChanges DEF TypeOK
<1>2. CASE UNCHANGED objects
  BY <1>1, <1>2 DEF Leaving
<1>3. ASSUME NEW o \in Objects, Assign(o) \/ ObjectVanishes(o)
      PROVE  /\ objects'[u] = "unassigned" => objects[u] = "unassigned"
             /\ Leaving(u) => Leaving(u)'
  <2>1. CASE Assign(o)
    BY <1>1, <2>1 DEF Assign, ChangeObject, Leaving
  <2>2. CASE ObjectVanishes(o)
    BY <1>1, <2>2 DEF ObjectVanishes, ChangeObject, Leaving
  <2> QED
    BY <1>3, <2>1, <2>2
<1>4. CASE GiveFinalizer \/ DeletePool
  BY <1>2, <1>4 DEF GiveFinalizer, DeletePool, ChangePool
<1>5. ASSUME NEW t \in TargetPools,
             AddTargetPool(t) \/ ReportTargetPool(t) \/ Relabel(t) \/ DropTargetPool(t)
      PROVE  UNCHANGED objects
  BY <1>5 DEF AddTargetPool, ReportTargetPool, Relabel, DropTargetPool, ChangeTarget
<1> QED
  BY <1>2, <1>3, <1>4, <1>5 DEF Clusters

LEMMA DrainClusters ==
  ASSUME TypeOK, LifeInv, DrainInv, Clusters
  PROVE  DrainInv'
<1>1. UNCHANGED <<seen, oseen, queue, pc, todo>>
  BY PoolChanges DEF worker
<1>2. Quiet' = Quiet /\ \A u \in Objects : Assigned(u, oseen)' = Assigned(u, oseen)
  BY <1>1 DEF Quiet, Assigned
<1>3. seen' = pool' /\ pool'.phase = "terminating" => pool' = pool
  <2>1. CASE pool' = NoPool \/ (pool' = [pool EXCEPT !.fin = TRUE] /\ pool.phase = "live")
    BY <2>1, NoPoolType DEF TypeOK, Pool
  <2>2. CASE pool.phase = "live" /\ pool'.phase = "terminating"
    BY <1>1, <2>2 DEF LifeInv
  <2> QED
    BY <2>1, <2>2, PoolChanges
<1> QED
  BY <1>1, <1>2, <1>3, ObjectChanges DEF DrainInv

LEMMA DrainStep == TypeOK /\ LifeInv /\ DrainInv /\ [Next]_vars => DrainInv'
<1> SUFFICES ASSUME TypeOK, LifeInv, DrainInv, [Next]_vars PROVE DrainInv'
  OBVIOUS
<1>1. CASE UNCHANGED vars
  BY <1>1 DEF vars, DrainInv, Quiet, Assigned, Leaving
<1>2. CASE Work
  BY <1>2, DrainBegin, DrainWrite, DrainDelete DEF Work
<1>3. CASE CallFails \/ Restart
  BY <1>3, DrainFault
<1>4. CASE Informers
  BY <1>4, DrainObserve
<1>5. CASE Clusters
  BY <1>5, DrainClusters
<1>6. CASE \E o \in Objects : DeleteObjectFails(o)
  BY <1>6, DrainDelete
<1> QED
  BY <1>1, <1>2, <1>3, <1>4, <1>5, <1>6 DEF Next

\* No event that matters is lost, however passes, events, restarts, failed calls and
\* changes of the pool, its objects and the target pools follow each other.
THEOREM NothingLeftHolds == Spec => []NothingLeft
<1>1. Init => LeftInv
  BY LeftInit
<1>2. LeftInv /\ [Next]_vars => LeftInv'
  BY TypesStep, LifeStep, OfferStep, DrainStep DEF LeftInv
<1>3. LeftInv => NothingLeft
  BY LeftSuffices
<1> QED
  BY <1>1, <1>2, <1>3, PTL DEF Spec
===============================================================================
