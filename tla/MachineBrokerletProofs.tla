------------------------ MODULE MachineBrokerletProofs ------------------------
(***************************************************************************)
(* ReleasedLast, TypeOK and NeverInPart of MachineBrokerlet, for any       *)
(* worlds and bounds.                                                      *)
(*                                                                         *)
(* For ReleasedLast: the worker of an object that is about to release it   *)
(* found the target gone by a live Delete.  Meanwhile only the same worker *)
(* could make a target, as nobody provides the targets of a brokered kind, *)
(* and what changes a target changes one that is there.                    *)
(***************************************************************************)
EXTENDS MachineBrokerlet, TLAPS

IsObject(o) ==
  /\ o = [phase |-> o.phase, fin |-> o.fin, link |-> o.link,
          lists |-> o.lists, bound |-> o.bound, up |-> o.up]
  /\ o.fin \in BOOLEAN

\* As much of the types as the argument needs.
Shape ==
  /\ world \in Worlds
  /\ src = [k \in Kinds |-> src[k]] /\ \A k \in Kinds : IsObject(src[k])
  /\ target = [k \in Kinds |-> target[k]]
  /\ pc = [k \in Kinds |-> pc[k]]

Release == \A k \in world.brokered : pc[k] = "release" => target[k] = NoTarget

EmptySpace == ~space => \A k \in Kinds : target[k] = NoTarget

RInv == Shape /\ EmptySpace /\ Release

\* A step of which the finalizer of the object k, if it goes, goes last.
Last(k) == src[k].fin /\ ~src'[k].fin => target[k] = NoTarget

\* The kinds of a world are kinds, and those that are brokered are not given.
LEMMA WorldKinds ==
  ASSUME NEW w \in Worlds
  PROVE  w.brokered \subseteq Kinds /\ w.brokered \cap w.given = {}
BY BrokerletAssumption

LEMMA NoObjectShape == IsObject(NoObject) /\ ~NoObject.fin /\ NoObject.phase = "absent"
BY DEF NoObject, IsObject

\* What is written to an object, and what not to the others.
LEMMA WriteEffect ==
  ASSUME Shape, NEW k \in Kinds, NEW object, IsObject(object), Write(k, object)
  PROVE  /\ src' = [j \in Kinds |-> src'[j]] /\ \A j \in Kinds : IsObject(src'[j])
         /\ \A j \in Kinds \ {k} : src'[j] = src[j]
         /\ src'[k] = object \/ (~object.fin /\ src'[k] = NoObject)
<1> DEFINE o == IF object.phase = "terminating" /\ ~object.fin THEN NoObject ELSE object
<1>1. src' = [src EXCEPT ![k] = o]
  BY DEF Write
<1>2. IsObject(o) /\ (o = object \/ (~object.fin /\ o = NoObject))
  BY NoObjectShape
<1> HIDE DEF o
<1>3. src = [j \in Kinds |-> src[j]] /\ \A j \in Kinds : IsObject(src[j])
  BY DEF Shape
<1>4. src' = [j \in Kinds |-> IF j = k THEN o ELSE src[j]]
  BY <1>1, <1>3
<1> QED
  BY <1>2, <1>3, <1>4

\* An object with a field set.
LEMMA FinSet ==
  ASSUME NEW o, IsObject(o), NEW b \in BOOLEAN
  PROVE  IsObject([o EXCEPT !.fin = b]) /\ [o EXCEPT !.fin = b].fin = b
BY DEF IsObject

LEMMA UpSet ==
  ASSUME NEW o, IsObject(o), NEW x
  PROVE  IsObject([o EXCEPT !.up = x]) /\ [o EXCEPT !.up = x].fin = o.fin
BY DEF IsObject

LEMMA ListsSet ==
  ASSUME NEW o, IsObject(o), NEW x, NEW y
  PROVE  /\ IsObject([o EXCEPT !.lists = x, !.bound = y])
         /\ [o EXCEPT !.lists = x, !.bound = y].fin = o.fin
<1> DEFINE l == [o EXCEPT !.lists = x]
<1>1. IsObject(l) /\ l.fin = o.fin
  BY DEF IsObject
<1>2. [o EXCEPT !.lists = x, !.bound = y] = [l EXCEPT !.bound = y]
  OBVIOUS
<1> HIDE DEF l
<1>3. IsObject([l EXCEPT !.bound = y]) /\ [l EXCEPT !.bound = y].fin = l.fin
  BY <1>1 DEF IsObject
<1> QED
  BY <1>1, <1>2, <1>3

\* To write an object with the finalizer it has, or with one.
LEMMA WriteKeeps ==
  ASSUME Shape, NEW k \in Kinds, NEW object, IsObject(object), Write(k, object),
         src[k].fin => object.fin,
         target' = target, world' = world, space' = space, EmptySpace, Release,
         pc' = [j \in Kinds |-> pc'[j]],
         \A j \in Kinds : pc'[j] = "release" => pc[j] = "release"
  PROVE  RInv' /\ \A j \in world.brokered : Last(j)
<1>1. /\ src' = [j \in Kinds |-> src'[j]] /\ \A j \in Kinds : IsObject(src'[j])
      /\ \A j \in Kinds \ {k} : src'[j] = src[j]
      /\ src'[k] = object \/ (~object.fin /\ src'[k] = NoObject)
  BY WriteEffect
<1>2. RInv'
  <2>1. Shape'
    BY <1>1 DEF Shape
  <2>2. EmptySpace' /\ Release'
    BY WorldKinds DEF Shape, EmptySpace, Release
  <2> QED BY <2>1, <2>2 DEF RInv
<1>3. \A j \in Kinds : Last(j)
  BY <1>1, NoObjectShape DEF Last
<1> QED
  BY <1>2, <1>3, WorldKinds DEF Shape

\* A step that leaves the objects alone, makes no target of a brokered kind and
\* sends no worker to the release.
LEMMA ElsewhereKeeps ==
  ASSUME RInv, src' = src, world' = world, pc' = [j \in Kinds |-> pc'[j]],
         target' = [j \in Kinds |-> target'[j]],
         \A j \in world.brokered : pc'[j] = "release" => target'[j] = NoTarget,
         EmptySpace'
  PROVE  RInv' /\ \A j \in world.brokered : Last(j)
<1>1. RInv'
  BY DEF RInv, Shape, Release
<1>2. \A j \in Kinds : Last(j)
  BY DEF Last, RInv, Shape, IsObject
<1> QED
  BY <1>1, <1>2, WorldKinds DEF RInv, Shape

\* A worker that ends its pass, or goes on to a step other than the release.
LEMMA GoesOn ==
  ASSUME RInv, NEW k \in Kinds, NEW step, step # "release", pc' = [pc EXCEPT ![k] = step]
  PROVE  /\ pc' = [j \in Kinds |-> pc'[j]]
         /\ \A j \in Kinds : pc'[j] = "release" => pc[j] = "release" /\ j # k
BY DEF RInv, Shape

LEMMA WorkKeeps ==
  ASSUME RInv, NEW k \in Kinds,
         \/ Begin(k) \/ CheckLive(k) \/ Resolve(k) \/ EnsureFinalizer(k) \/ CreateTarget(k)
         \/ PatchTarget(k) \/ DeleteTarget(k) \/ RemoveFinalizer(k)
         \/ k = "machine" /\ PatchStatus
         \/ k = "alias" /\ ApplyRouting
         \/ CallFails(k)
  PROVE  RInv' /\ \A j \in world.brokered : Last(j)
<1>s. Shape /\ EmptySpace /\ Release /\ world.brokered \subseteq Kinds
  BY WorldKinds DEF RInv, Shape
<1> USE DEF Goto, Finish, Done, Retry, sources, targets, spaces
<1>1. CASE Begin(k) \/ CheckLive(k) \/ Resolve(k) \/ CallFails(k)
           \/ (k = "alias" /\ ApplyRouting)
  <2>1. src' = src /\ target' = target /\ world' = world /\ space' = space
    BY <1>1 DEF Begin, CheckLive, Resolve, CallFails, ApplyRouting
  <2>2. pc' = pc \/ \E step : step # "release" /\ pc' = [pc EXCEPT ![k] = step]
    <3>1. CASE Begin(k)
      BY <3>1 DEF Begin
    <3>2. CASE CheckLive(k)
      BY <3>2 DEF CheckLive
    <3>3. CASE Resolve(k)
      BY <3>3 DEF Resolve, Applied
    <3>4. CASE CallFails(k)
      BY <3>4 DEF CallFails
    <3>5. CASE k = "alias" /\ ApplyRouting
      BY <3>5 DEF ApplyRouting
    <3> QED BY <1>1, <3>1, <3>2, <3>3, <3>4, <3>5
  <2>3. /\ pc' = [j \in Kinds |-> pc'[j]]
        /\ \A j \in Kinds : pc'[j] = "release" => pc[j] = "release"
    BY <1>s, <2>2, GoesOn DEF Shape
  <2> QED BY <1>s, <2>1, <2>3, ElsewhereKeeps DEF Shape, EmptySpace, Release
<1>2. CASE EnsureFinalizer(k)
  <2>1. /\ target' = target /\ world' = world /\ space' = space
        /\ pc' = [pc EXCEPT ![k] = "idle"]
    BY <1>2 DEF EnsureFinalizer
  <2>2. /\ pc' = [j \in Kinds |-> pc'[j]]
        /\ \A j \in Kinds : pc'[j] = "release" => pc[j] = "release"
    BY <2>1, GoesOn
  <2>3. CASE src' = src
    BY <1>s, <2>1, <2>2, <2>3, ElsewhereKeeps DEF Shape, EmptySpace, Release
  <2>4. CASE src' # src
    <3> DEFINE o == [src[k] EXCEPT !.fin = TRUE]
    <3>1. IsObject(o) /\ o.fin
      <4>1. IsObject(src[k])
        BY <1>s DEF Shape
      <4> QED BY <4>1, FinSet
    <3>2. Write(k, o)
      BY <1>2, <2>4 DEF EnsureFinalizer
    <3> HIDE DEF o
    <3> QED BY <1>s, <2>1, <2>2, <3>1, <3>2, WriteKeeps
  <2> QED BY <2>3, <2>4
<1>3. CASE CreateTarget(k)
  <2>1. src' = src /\ world' = world /\ space' = space
    BY <1>3 DEF CreateTarget
  <2>2. PICK step : step # "release" /\ pc' = [pc EXCEPT ![k] = step]
    BY <1>3 DEF CreateTarget, Applied
  <2>3. /\ pc' = [j \in Kinds |-> pc'[j]]
        /\ \A j \in Kinds : pc'[j] = "release" => pc[j] = "release" /\ j # k
    BY <2>2, GoesOn
  <2>4. target' = target \/ (space /\ \E t : target' = [target EXCEPT ![k] = t])
    BY <1>3 DEF CreateTarget
  <2>5. /\ target' = [j \in Kinds |-> target'[j]]
        /\ \A j \in Kinds : j # k => target'[j] = target[j]
    BY <1>s, <2>4 DEF Shape
  <2>6. EmptySpace'
    BY <1>s, <2>1, <2>4 DEF EmptySpace
  <2> QED BY <1>s, <2>1, <2>3, <2>5, <2>6, ElsewhereKeeps DEF Release
<1>4. CASE PatchTarget(k)
  <2>1. src' = src /\ world' = world /\ space' = space
    BY <1>4 DEF PatchTarget
  <2>2. PICK step : step # "release" /\ pc' = [pc EXCEPT ![k] = step]
    BY <1>4 DEF PatchTarget, Applied
  <2>3. /\ pc' = [j \in Kinds |-> pc'[j]]
        /\ \A j \in Kinds : pc'[j] = "release" => pc[j] = "release" /\ j # k
    BY <2>2, GoesOn
  <2>4. \/ target' = target
        \/ target[k] # NoTarget /\ \E t : target' = [target EXCEPT ![k] = t]
    BY <1>4 DEF PatchTarget
  <2>5. /\ target' = [j \in Kinds |-> target'[j]]
        /\ \A j \in Kinds : j # k => target'[j] = target[j]
    BY <1>s, <2>4 DEF Shape
  <2>6. EmptySpace'
    BY <1>s, <2>1, <2>4 DEF EmptySpace
  <2> QED BY <1>s, <2>1, <2>3, <2>5, <2>6, ElsewhereKeeps DEF Release
<1>5. CASE DeleteTarget(k)
  <2>1. src' = src /\ world' = world /\ space' = space
    BY <1>5 DEF DeleteTarget
  <2>2. CASE pc' = [pc EXCEPT ![k] = "release"] /\ target' = target
             /\ (~space \/ target[k] = NoTarget)
    <3>1. target[k] = NoTarget
      BY <1>s, <2>2 DEF EmptySpace
    <3>2. /\ pc' = [j \in Kinds |-> pc'[j]]
          /\ \A j \in Kinds : pc'[j] = "release" => pc[j] = "release" \/ j = k
      BY <1>s, <2>2 DEF Shape
    <3> QED BY <1>s, <2>1, <2>2, <3>1, <3>2, ElsewhereKeeps DEF Shape, EmptySpace, Release
  <2>3. CASE pc' = [pc EXCEPT ![k] = "idle"]
             /\ (target' = target \/ (space /\ \E t : target' = [target EXCEPT ![k] = t]))
    <3>1. /\ pc' = [j \in Kinds |-> pc'[j]]
          /\ \A j \in Kinds : pc'[j] = "release" => pc[j] = "release" /\ j # k
      BY <2>3, GoesOn
    <3>2. /\ target' = [j \in Kinds |-> target'[j]]
          /\ \A j \in Kinds : j # k => target'[j] = target[j]
      BY <1>s, <2>3 DEF Shape
    <3>3. EmptySpace'
      BY <1>s, <2>1, <2>3 DEF EmptySpace
    <3> QED BY <1>s, <2>1, <3>1, <3>2, <3>3, ElsewhereKeeps DEF Release
  <2> QED BY <1>5, <2>2, <2>3 DEF DeleteTarget
<1>6. CASE RemoveFinalizer(k)
  <2>1. /\ target' = target /\ world' = world /\ space' = space
        /\ pc[k] = "release" /\ pc' = [pc EXCEPT ![k] = "idle"]
    BY <1>6 DEF RemoveFinalizer
  <2>2. /\ pc' = [j \in Kinds |-> pc'[j]]
        /\ \A j \in Kinds : pc'[j] = "release" => pc[j] = "release" /\ j # k
    BY <2>1, GoesOn
  <2>3. CASE src' = src
    BY <1>s, <2>1, <2>2, <2>3, ElsewhereKeeps DEF Shape, EmptySpace, Release
  <2>4. CASE src' # src
    <3> DEFINE o == [src[k] EXCEPT !.fin = FALSE]
    <3>1. IsObject(o)
      <4>1. IsObject(src[k])
        BY <1>s DEF Shape
      <4> QED BY <4>1, FinSet
    <3>2. Write(k, o)
      BY <1>6, <2>4 DEF RemoveFinalizer
    <3> HIDE DEF o
    <3>3. /\ src' = [j \in Kinds |-> src'[j]] /\ \A j \in Kinds : IsObject(src'[j])
          /\ \A j \in Kinds \ {k} : src'[j] = src[j]
      BY <1>s, <3>1, <3>2, WriteEffect
    <3>4. RInv'
      BY <1>s, <2>1, <2>2, <3>3 DEF RInv, Shape, EmptySpace, Release
    <3>5. \A j \in world.brokered : Last(j)
      BY <1>s, <2>1, <3>3 DEF Last, Release
    <3> QED BY <3>4, <3>5
  <2> QED BY <2>3, <2>4
<1>7. CASE k = "machine" /\ PatchStatus
  <2>1. /\ target' = target /\ world' = world /\ space' = space
        /\ pc' = [pc EXCEPT ![k] = "idle"]
    BY <1>7 DEF PatchStatus
  <2>2. /\ pc' = [j \in Kinds |-> pc'[j]]
        /\ \A j \in Kinds : pc'[j] = "release" => pc[j] = "release"
    BY <2>1, GoesOn
  <2>3. CASE src' = src
    BY <1>s, <2>1, <2>2, <2>3, ElsewhereKeeps DEF Shape, EmptySpace, Release
  <2>4. CASE src' # src
    <3>1. PICK x : Write(k, [src[k] EXCEPT !.up = x])
      BY <1>7, <2>4 DEF PatchStatus
    <3> DEFINE o == [src[k] EXCEPT !.up = x]
    <3>2. IsObject(o) /\ o.fin = src[k].fin
      <4>1. IsObject(src[k])
        BY <1>s DEF Shape
      <4> QED BY <4>1 DEF IsObject
    <3>3. Write(k, o)
      BY <3>1
    <3> HIDE DEF o
    <3> QED BY <1>s, <2>1, <2>2, <3>2, <3>3, WriteKeeps
  <2> QED BY <2>3, <2>4
<1> QED
  BY <1>1, <1>2, <1>3, <1>4, <1>5, <1>6, <1>7

\* A step of the source cluster writes an object and keeps its finalizer.
LEMMA SourceKeeps ==
  ASSUME RInv, SourceCluster
  PROVE  RInv' /\ \A j \in world.brokered : Last(j)
<1>s. Shape /\ EmptySpace /\ Release
  BY DEF RInv
<1>u. target' = target /\ world' = world /\ space' = space /\ pc' = pc
  BY DEF SourceCluster, Link, Unlink, ReportBound, Prepare, Unlist, DeleteSource, Route,
         Change, targets, spaces, worker
<1>a. All \subseteq Kinds
  BY <1>s, BrokerletAssumption DEF Shape, All
<1>1. CASE src' = src
  BY <1>s, <1>u, <1>1, ElsewhereKeeps DEF Shape, EmptySpace, Release
<1>2. ASSUME NEW k \in Kinds, NEW o, IsObject(o), Write(k, o), src[k].fin => o.fin
      PROVE  RInv' /\ \A j \in world.brokered : Last(j)
  BY <1>s, <1>u, <1>2, WriteKeeps DEF Shape
<1>3. ASSUME NEW k \in All, Link(k) \/ Unlink(k)
      PROVE  RInv' /\ \A j \in world.brokered : Last(j)
  <2>1. PICK x : Write(k, [src[k] EXCEPT !.link = x])
    BY <1>3 DEF Link, Unlink, Change
  <2> DEFINE o == [src[k] EXCEPT !.link = x]
  <2>2. IsObject(o) /\ o.fin = src[k].fin
    <3>1. IsObject(src[k])
      BY <1>s, <1>a DEF Shape
    <3> QED BY <3>1 DEF IsObject
  <2> HIDE DEF o
  <2>3. Write(k, o)
    BY <2>1 DEF o
  <2> QED BY <1>a, <1>2, <2>2, <2>3
<1>4. ASSUME NEW d \in All, ReportBound(d)
      PROVE  RInv' /\ \A j \in world.brokered : Last(j)
  <2>1. PICK x : Write("machine", [src["machine"] EXCEPT !.bound = x])
    BY <1>4 DEF ReportBound, Change
  <2> DEFINE o == [src["machine"] EXCEPT !.bound = x]
  <2>2. IsObject(o) /\ o.fin = src["machine"].fin
    <3>1. IsObject(src["machine"])
      BY <1>s DEF Shape, Kinds
    <3> QED BY <3>1 DEF IsObject
  <2> HIDE DEF o
  <2>3. Write("machine", o)
    BY <2>1 DEF o
  <2> QED BY <1>2, <2>2, <2>3 DEF Kinds
<1>5. ASSUME NEW k \in All, Prepare(k)
      PROVE  RInv' /\ \A j \in world.brokered : Last(j)
  <2> DEFINE o == [src[k] EXCEPT !.up = TRUE]
  <2>1. IsObject(o) /\ o.fin = src[k].fin
    <3>1. IsObject(src[k])
      BY <1>s, <1>a DEF Shape
    <3> QED BY <3>1, UpSet
  <2>2. Write(k, o)
    BY <1>5 DEF Prepare, Change
  <2> HIDE DEF o
  <2> QED BY <1>a, <1>2, <2>1, <2>2
<1>6. ASSUME NEW d \in All, Unlist(d)
      PROVE  RInv' /\ \A j \in world.brokered : Last(j)
  <2>1. PICK x, y : Write("machine", [src["machine"] EXCEPT !.lists = x, !.bound = y])
    BY <1>6 DEF Unlist, Change
  <2> DEFINE o == [src["machine"] EXCEPT !.lists = x, !.bound = y]
  <2>2. IsObject(o) /\ o.fin = src["machine"].fin
    <3>1. IsObject(src["machine"])
      BY <1>s DEF Shape, Kinds
    <3> QED BY <3>1, ListsSet
  <2> HIDE DEF o
  <2>3. Write("machine", o)
    BY <2>1 DEF o
  <2> QED BY <1>2, <2>2, <2>3 DEF Kinds
<1>7. ASSUME NEW k \in All, DeleteSource(k)
      PROVE  RInv' /\ \A j \in world.brokered : Last(j)
  <2>1. CASE src[k].fin
    <3> DEFINE o == [src[k] EXCEPT !.phase = "terminating"]
    <3>1. IsObject(o) /\ o.fin = src[k].fin
      <4>1. IsObject(src[k])
        BY <1>s, <1>a DEF Shape
      <4> QED BY <4>1 DEF IsObject
    <3>2. Write(k, o)
      BY <1>7, <2>1 DEF DeleteSource, Change
    <3> HIDE DEF o
    <3> QED BY <1>a, <1>2, <3>1, <3>2
  <2>2. CASE ~src[k].fin
    <3>1. Write(k, NoObject)
      BY <1>7, <2>2 DEF DeleteSource, Change
    <3> QED BY <1>a, <1>2, <2>2, <3>1, NoObjectShape
  <2> QED BY <2>1, <2>2
<1>8. CASE Route
  BY <1>1, <1>8 DEF Route
<1> QED
  BY <1>3, <1>4, <1>5, <1>6, <1>7, <1>8 DEF SourceCluster

\* A step of the target cluster makes no target of a brokered kind, and none
\* without a target Namespace.
LEMMA TargetKeeps ==
  ASSUME RInv, TargetCluster
  PROVE  RInv' /\ \A j \in world.brokered : Last(j)
<1>s. Shape /\ EmptySpace /\ Release /\ world.brokered \subseteq Kinds
      /\ world.brokered \cap world.given = {} /\ All \subseteq Kinds
  BY WorldKinds, BrokerletAssumption DEF RInv, Shape, All
<1>u. src' = src /\ world' = world /\ pc' = pc
  BY DEF TargetCluster, Provide, TargetVanishes, TargetRuns, EvictTarget, SpaceIsProvided,
         SpaceIsLost, Replace, sources, worker
<1>1. ASSUME target' = [j \in Kinds |-> target'[j]], EmptySpace',
             \A j \in world.brokered : target[j] = NoTarget => target'[j] = NoTarget
      PROVE  RInv' /\ \A j \in world.brokered : Last(j)
  BY <1>s, <1>u, <1>1, ElsewhereKeeps DEF Shape, Release
<1>2. ASSUME NEW k \in Kinds, NEW t, target' = [target EXCEPT ![k] = t], space' = space,
             t = NoTarget \/ space,
             t = NoTarget \/ target[k] # NoTarget \/ k \notin world.brokered
      PROVE  RInv' /\ \A j \in world.brokered : Last(j)
  <2>1. /\ target' = [j \in Kinds |-> target'[j]] /\ target'[k] = t
        /\ \A j \in Kinds : j # k => target'[j] = target[j]
    BY <1>s, <1>2 DEF Shape
  <2> QED BY <1>s, <1>1, <1>2, <2>1 DEF EmptySpace
<1>3. ASSUME NEW k \in All, Provide(k)
      PROVE  RInv' /\ \A j \in world.brokered : Last(j)
  BY <1>s, <1>2, <1>3 DEF Provide, Replace, spaces
<1>4. ASSUME NEW k \in All, TargetVanishes(k) \/ EvictTarget(k)
      PROVE  RInv' /\ \A j \in world.brokered : Last(j)
  BY <1>s, <1>2, <1>4 DEF TargetVanishes, EvictTarget, Replace, spaces
<1>5. CASE TargetRuns
  <2>1. space
    BY <1>s, <1>5 DEF TargetRuns, EmptySpace, Kinds
  <2>2. PICK t : target' = [target EXCEPT !["machine"] = t] /\ space' = space
    BY <1>5 DEF TargetRuns, Replace, spaces
  <2>3. target["machine"] # NoTarget
    BY <1>5 DEF TargetRuns
  <2> QED BY <1>2, <2>1, <2>2, <2>3 DEF Kinds
<1>6. CASE SpaceIsProvided
  BY <1>s, <1>1, <1>6 DEF SpaceIsProvided, targets, Shape, EmptySpace
<1>7. CASE SpaceIsLost
  BY <1>s, <1>1, <1>7 DEF SpaceIsLost, EmptySpace
<1> QED
  BY <1>3, <1>4, <1>5, <1>6, <1>7 DEF TargetCluster

LEMMA StepKeeps == RInv /\ [Next]_vars => RInv' /\ \A j \in world.brokered : Last(j)
<1> SUFFICES ASSUME RInv, [Next]_vars
             PROVE  RInv' /\ \A j \in world.brokered : Last(j)
  OBVIOUS
<1>s. Shape /\ EmptySpace /\ Release /\ world.brokered \subseteq Kinds
  BY WorldKinds DEF RInv, Shape
<1>1. CASE Workers
  <2>1. \E k \in Kinds :
          \/ Begin(k) \/ Deletes(k) \/ Applies(k)
          \/ k = "machine" /\ PatchStatus
          \/ k = "alias" /\ ApplyRouting
    BY <1>1, <1>s
       DEF Workers, MachineDelete, MachineReconcile, VolumeDelete, VolumeReconcile,
           NetworkDelete, NetworkReconcile, NetworkInterfaceDelete, NetworkInterfaceReconcile,
           VirtualIPDelete, VirtualIPReconcile, AliasPrefixDelete, AliasPrefixReconcile, Kinds
  <2> QED BY <2>1, WorkKeeps DEF Deletes, Applies
<1>2. CASE \E k \in world.brokered : CallFails(k)
  BY <1>2, <1>s, WorkKeeps
<1>3. CASE Restart
  BY <1>3, <1>s, ElsewhereKeeps DEF Restart, Shape, EmptySpace
<1>4. CASE Informers
  <2>1. src' = src /\ target' = target /\ world' = world /\ space' = space /\ pc' = pc
    BY <1>4 DEF Informers, ObserveSource, ObserveTarget, ObserveRouting, ObserveHome,
                ObserveSpaceCreated, sources, targets, spaces, worker
  <2> QED BY <1>s, <2>1, ElsewhereKeeps DEF Shape, EmptySpace, Release
<1>5. CASE SourceCluster
  BY <1>5, SourceKeeps
<1>6. CASE TargetCluster
  BY <1>6, TargetKeeps
<1>7. CASE UNCHANGED vars
  BY <1>7, <1>s, ElsewhereKeeps DEF vars, Shape, EmptySpace, Release
<1> QED
  BY <1>1, <1>2, <1>3, <1>4, <1>5, <1>6, <1>7 DEF Next

LEMMA InitReleases == Init => RInv
<1> SUFFICES ASSUME Init PROVE RInv
  OBVIOUS
<1>1. \A k \in Kinds : IsObject(src[k])
  <2> TAKE k \in Kinds
  <2>1. CASE src[k] = NoObject
    BY <2>1, NoObjectShape
  <2>2. CASE src[k] # NoObject
    <3>1. PICK a, b, c, d, e : src[k] = [NoObject EXCEPT !.phase = a, !.link = b, !.up = c,
                                                        !.lists = d, !.bound = e]
      BY <2>2 DEF Init
    <3> QED BY <3>1 DEF NoObject, IsObject
  <2> QED BY <2>1, <2>2
<1>2. EmptySpace
  BY DEF Init, EmptySpace
<1>3. Shape /\ Release
  BY <1>1, WorldKinds DEF Init, Shape, Release
<1> QED
  BY <1>2, <1>3 DEF RInv

\* ReleasedLast: no reconciler takes the finalizer off an object whose target is
\* there, in any world, with failed calls, restarts, evictions, and target
\* Namespaces that come and go.
THEOREM ReleasedLastHolds == Spec => ReleasedLast
<1>1. RInv /\ [Next]_vars => RInv' /\
        [\A k \in world.brokered : src[k].fin /\ ~src'[k].fin => target[k] = NoTarget]_vars
  BY StepKeeps DEF Last
<1> QED
  BY InitReleases, <1>1, PTL DEF Spec, ReleasedLast
(***************************************************************************)
(* The types.                                                              *)
(***************************************************************************)
LEMMA NoObjectTyped == NoObject \in Object
BY DEF NoObject, Object, Attached

LEMMA NoPlanTyped == NoPlan \in Plan /\ NoPlan.link = Keep /\ NoPlan.add = {} /\ NoPlan.drop = {}
<1>1. Keep \in 0..Keep /\ {} \in SUBSET Kinds
  BY BrokerletAssumption DEF Keep
<1> QED
  BY <1>1 DEF NoPlan, Plan

\* Targets and the absence of one have the same fields.
LEMMA AnyTarget ==
  ASSUME NEW t \in Target \cup {NoTarget}
  PROVE  /\ t.uid \in 0..MaxUid /\ t.link \in 0..MaxUid /\ t.holds \subseteq Kinds /\ t.up \in BOOLEAN
         /\ t # NoTarget => t \in Target
<1>1. 0 \in 0..MaxUid /\ \A u \in 1..MaxUid : u \in 0..MaxUid
  BY BrokerletAssumption
<1>2. CASE t \in Target
  BY <1>1, <1>2 DEF Target
<1>3. CASE t = NoTarget
  BY <1>1, <1>3 DEF NoTarget
<1> QED
  BY <1>2, <1>3

\* A target that is there stays one when a field of it is set.
LEMMA TargetSet ==
  ASSUME NEW t \in Target
  PROVE  /\ [t EXCEPT !.deleted = TRUE] \in Target
         /\ [t EXCEPT !.up = TRUE] \in Target
         /\ \A h \in SUBSET Kinds, l \in 0..MaxUid : [t EXCEPT !.holds = h, !.link = l] \in Target
<1>1. [t EXCEPT !.deleted = TRUE] \in Target /\ [t EXCEPT !.up = TRUE] \in Target
  BY DEF Target
<1>2. ASSUME NEW h \in SUBSET Kinds, NEW l \in 0..MaxUid
      PROVE  [t EXCEPT !.holds = h, !.link = l] \in Target
  BY DEF Target
<1> QED
  BY <1>1, <1>2

LEMMA TargetNew ==
  ASSUME NEW u \in 1..MaxUid
  PROVE  /\ [NoTarget EXCEPT !.uid = u] \in Target
         /\ \A h \in SUBSET Kinds, l \in 0..MaxUid :
              [NoTarget EXCEPT !.uid = u, !.holds = h, !.link = l] \in Target
<1>1. 0 \in 0..MaxUid /\ {} \in SUBSET Kinds
  BY BrokerletAssumption
<1>2. ASSUME NEW h \in SUBSET Kinds, NEW l \in 0..MaxUid
      PROVE  [NoTarget EXCEPT !.uid = u, !.holds = h, !.link = l] \in Target
  BY DEF NoTarget, Target
<1> QED
  BY <1>1, <1>2 DEF NoTarget, Target

\* An object stays one when a field of it is set.
LEMMA ObjectSet ==
  ASSUME NEW o \in Object
  PROVE  /\ \A b \in BOOLEAN : /\ [o EXCEPT !.fin = b] \in Object
                               /\ [o EXCEPT !.link = b] \in Object
                               /\ [o EXCEPT !.up = b] \in Object
         /\ [o EXCEPT !.phase = "terminating"] \in Object
         /\ \A x \in SUBSET Attached : [o EXCEPT !.bound = x] \in Object
         /\ \A x \in SUBSET Attached, y \in SUBSET Attached :
              [o EXCEPT !.lists = x, !.bound = y] \in Object
         /\ o.fin \in BOOLEAN /\ o.link \in BOOLEAN /\ o.up \in BOOLEAN
         /\ o.lists \subseteq Attached /\ o.bound \subseteq Attached
BY DEF Object

LEMMA WriteTyped ==
  ASSUME SourceTyped, NEW k \in Kinds, NEW object \in Object, Write(k, object)
  PROVE  src' \in [Kinds -> Object]
BY NoObjectTyped DEF SourceTyped, Write

\* A pass that ends.
LEMMA Ends ==
  ASSUME TypeOK, NEW k \in Kinds, world' = world, pc[k] # "idle", Finish(k),
         queue' = queue \/ queue' = queue \cup {k}
  PROVE  WorkerTyped' /\ PlanTyped'
<1>1. WorkerTyped'
  BY NoObjectTyped DEF TypeOK, WorkerTyped, Finish, Steps
<1>2. PlanTyped'
  BY NoPlanTyped DEF TypeOK, WorkerTyped, PlanTyped, Finish
<1> QED
  BY <1>1, <1>2

\* A pass that goes on, with a plan.
LEMMA GoesWith ==
  ASSUME TypeOK, NEW k \in Kinds, world' = world, pc[k] # "idle",
         NEW step \in Steps, Goto(k, step), NEW p \in Plan, plan' = [plan EXCEPT ![k] = p],
         step = "create" => p.link # Keep
  PROVE  WorkerTyped' /\ PlanTyped'
<1>1. WorkerTyped'
  BY DEF TypeOK, WorkerTyped, Goto
<1>2. PlanTyped'
  BY DEF TypeOK, WorkerTyped, PlanTyped, Goto
<1> QED
  BY <1>1, <1>2

LEMMA Goes ==
  ASSUME TypeOK, NEW k \in Kinds, world' = world, pc[k] # "idle",
         NEW step \in Steps, Goto(k, step), plan' = plan, step # "create"
  PROVE  WorkerTyped' /\ PlanTyped'
<1>1. WorkerTyped'
  BY DEF TypeOK, WorkerTyped, Goto
<1>2. PlanTyped'
  BY DEF TypeOK, WorkerTyped, PlanTyped, Goto
<1> QED
  BY <1>1, <1>2

LEMMA AppliedTyped ==
  ASSUME TypeOK, NEW k \in Kinds, world' = world, pc[k] # "idle",
         NEW partial \in BOOLEAN, NEW up \in BOOLEAN, Applied(k, partial, up)
  PROVE  WorkerTyped' /\ PlanTyped'
<1>1. CASE Done(k) \/ Retry(k)
  BY <1>1, Ends DEF Done, Retry
<1>2. CASE /\ Goto(k, IF k = "machine" THEN "status" ELSE "route")
           /\ plan' = [plan EXCEPT ![k] = [NoPlan EXCEPT !.partial = partial, !.up = up]]
  <2>1. [NoPlan EXCEPT !.partial = partial, !.up = up] \in Plan
    BY NoPlanTyped DEF Plan
  <2> QED BY <1>2, <2>1, GoesWith DEF Steps
<1> QED
  BY <1>1, <1>2 DEF Applied

\* What a target is to be made of.
LEMMA MutationTyped ==
  ASSUME TypeOK, NEW k \in Kinds, NEW base \in Target \cup {NoTarget}
  PROVE  /\ Mutation(k, base).holds \subseteq Kinds /\ Mutation(k, base).link \in 0..MaxUid
         /\ Mutation(k, base).partial \in BOOLEAN
<1>1. base.holds \subseteq Kinds /\ 0 \in 0..MaxUid
  BY AnyTarget, BrokerletAssumption
<1>2. \A d \in Kinds : tseen[d].uid \in 0..MaxUid
  BY AnyTarget DEF TypeOK, TargetTyped
<1>3. \A j, d \in Kinds : LinkTo(j, d) \in 0..MaxUid
  BY <1>1, <1>2 DEF LinkTo
<1>4. copy["machine"].lists \subseteq Kinds /\ copy["nic"].up \in BOOLEAN /\ copy["alias"].up \in BOOLEAN
  BY ObjectSet DEF TypeOK, WorkerTyped, Kinds, Attached
<1>5. CASE k = "machine"
  BY <1>1, <1>4, <1>5 DEF Mutation, MachineMutation, Ready, Listed, Kinds
<1>6. CASE k = "volume"
  BY <1>3, <1>6 DEF Mutation, VolumeMutation, Kinds
<1>7. CASE k = "nic"
  BY <1>1, <1>3, <1>4, <1>7 DEF Mutation, NicMutation, Kinds
<1>8. CASE k = "vip"
  BY <1>3, <1>8 DEF Mutation, VipMutation, Kinds
<1>9. CASE k = "alias"
  BY <1>1, <1>4, <1>9 DEF Mutation, AliasMutation, Kinds
<1>10. CASE k \notin {"machine", "volume", "nic", "vip", "alias"}
  BY <1>1, <1>10 DEF Mutation
<1> QED
  BY <1>5, <1>6, <1>7, <1>8, <1>9, <1>10

LEMMA TypeInit == Init => TypeOK
<1> SUFFICES ASSUME Init PROVE TypeOK
  OBVIOUS
<1>1. world \in Worlds
  BY DEF Init
<1>2. 1 \in 1..MaxUid /\ 0 \in 0..MaxUid /\ 1 \in 0..MaxUid /\ MaxFaults \in Nat
  BY BrokerletAssumption
<1>3. src \in [Kinds -> Object]
  <2>1. ASSUME NEW k \in Kinds
        PROVE  [NoObject EXCEPT !.phase = "live",
                                !.link = k \in world.early,
                                !.up = k \in world.early \cap {"nic", "alias"},
                                !.lists = IF k = "machine" THEN Attached \cap All ELSE {},
                                !.bound = IF k = "machine" /\ k \in world.early
                                          THEN Attached \cap world.early ELSE {}] \in Object
    <3> DEFINE l == IF k = "machine" THEN Attached \cap All ELSE {}
               b == IF k = "machine" /\ k \in world.early THEN Attached \cap world.early ELSE {}
               x == k \in world.early
               y == k \in world.early \cap {"nic", "alias"}
    <3>1. l \in SUBSET Attached /\ b \in SUBSET Attached
      OBVIOUS
    <3>2. x \in BOOLEAN /\ y \in BOOLEAN
      OBVIOUS
    <3> DEFINE o == [NoObject EXCEPT !.phase = "live"]
               o1 == [o EXCEPT !.link = x]
               o2 == [o1 EXCEPT !.up = y]
               o3 == [o2 EXCEPT !.lists = l, !.bound = b]
    <3>3. o \in Object
      BY NoObjectTyped DEF NoObject, Object
    <3>4. o1 \in Object
      <4> HIDE DEF o, x
      <4> QED BY <3>2, <3>3, ObjectSet
    <3>5. o2 \in Object
      <4> HIDE DEF o1, y
      <4> QED BY <3>2, <3>4, ObjectSet
    <3>6. o3 \in Object
      <4> HIDE DEF o2, l, b
      <4> QED BY <3>1, <3>5, ObjectSet
    <3> QED BY <3>6
  <2> QED BY <2>1, NoObjectTyped DEF Init
<1>4. SourceTyped
  BY <1>2, <1>3, NoObjectTyped DEF Init, SourceTyped
<1>5. TargetTyped
  <2>1. [NoTarget EXCEPT !.uid = 1] \in Target
    BY <1>2, TargetNew
  <2>2. target \in [Kinds -> Target \cup {NoTarget}]
    BY <2>1 DEF Init
  <2>3. \A k \in Kinds : target[k].uid \in 0..MaxUid
    BY <2>2, AnyTarget
  <2>4. gens \in [Kinds -> 0..MaxUid]
    <3>1. gens = [k \in Kinds |-> target[k].uid]
      BY DEF Init
    <3> QED BY <2>3, <3>1
  <2>5. tseen = target
    BY DEF Init
  <2> QED BY <2>2, <2>4, <2>5 DEF TargetTyped
<1>6. SpaceTyped
  <2>1. space = (world.early # {}) /\ spaceEvent = FALSE /\ homeSeen = space
    BY DEF Init
  <2>2. homonym \in BOOLEAN
    <3>1. homonym \in IF "alias" \in All THEN BOOLEAN ELSE {FALSE}
      BY Zenon DEF Init
    <3>2. CASE "alias" \in All
      BY <3>1, <3>2
    <3>3. CASE "alias" \notin All
      BY <3>1, <3>3
    <3> QED BY <3>2, <3>3
  <2>3. faults \in 0..MaxFaults
    <3>1. faults = 0
      BY DEF Init
    <3> QED BY <1>2, <3>1
  <2> QED BY <2>1, <2>2, <2>3, Zenon DEF SpaceTyped
<1>7. WorkerTyped
  BY NoObjectTyped DEF Init, WorkerTyped, Steps
<1>8. PlanTyped
  BY NoPlanTyped DEF Init, PlanTyped
<1> QED
  BY <1>1, <1>4, <1>5, <1>6, <1>7, <1>8 DEF TypeOK

\* Every call of a worker keeps the types.
LEMMA TypeWork ==
  ASSUME TypeOK, NEW k \in Kinds,
         \/ Begin(k) /\ k \in world.brokered
         \/ CheckLive(k) \/ Resolve(k) \/ EnsureFinalizer(k) \/ CreateTarget(k)
         \/ PatchTarget(k) \/ DeleteTarget(k) \/ RemoveFinalizer(k)
         \/ k = "machine" /\ PatchStatus
         \/ k = "alias" /\ ApplyRouting
         \/ CallFails(k)
  PROVE  TypeOK'
<1>t. /\ SourceTyped /\ TargetTyped /\ SpaceTyped /\ WorkerTyped /\ PlanTyped
      /\ world \in Worlds
  BY DEF TypeOK
<1>o. /\ src[k] \in Object /\ copy[k] \in Object /\ seen[k] \in Object /\ plan[k] \in Plan
      /\ target[k] \in Target \cup {NoTarget} /\ tseen[k] \in Target \cup {NoTarget}
      /\ gens[k] \in 0..MaxUid
  BY <1>t DEF SourceTyped, TargetTyped, WorkerTyped, PlanTyped
<1> USE DEF sources, targets, spaces
<1>1. CASE Begin(k) /\ k \in world.brokered
  <2>1. WorkerTyped'
    BY <1>t, <1>o, <1>1 DEF Begin, WorkerTyped, Steps
  <2>2. PlanTyped'
    BY <1>t, <1>1 DEF Begin, PlanTyped, WorkerTyped
  <2>3. SourceTyped' /\ TargetTyped' /\ SpaceTyped' /\ world' = world
    BY <1>t, <1>1 DEF Begin, SourceTyped, TargetTyped, SpaceTyped
  <2> QED BY <1>t, <2>1, <2>2, <2>3 DEF TypeOK
<1>2. CASE CheckLive(k)
  <2>1. pc[k] # "idle" /\ world' = world
    BY <1>2 DEF CheckLive
  <2>2. WorkerTyped' /\ PlanTyped'
    <3>1. CASE Goto(k, "resolve") /\ plan' = plan
      BY <2>1, <3>1, Goes DEF Steps
    <3>2. CASE Goto(k, "delete") /\ plan' = plan
      BY <2>1, <3>2, Goes DEF Steps
    <3>3. CASE Done(k)
      BY <2>1, <3>3, Ends DEF Done
    <3> QED BY <1>2, <3>1, <3>2, <3>3 DEF CheckLive
  <2>3. SourceTyped' /\ TargetTyped' /\ SpaceTyped'
    BY <1>t, <1>2 DEF CheckLive, SourceTyped, TargetTyped, SpaceTyped
  <2> QED BY <1>t, <2>1, <2>2, <2>3 DEF TypeOK
<1>3. CASE Resolve(k)
  <2> DEFINE base == tseen[k]
             new  == Mutation(k, base)
             diff == [add |-> new.holds \ base.holds, drop |-> base.holds \ new.holds,
                      link |-> IF new.link = base.link THEN Keep ELSE new.link,
                      partial |-> new.partial, up |-> FALSE]
             made == [diff EXCEPT !.link = new.link]
  <2>1. pc[k] # "idle" /\ world' = world
    BY <1>3 DEF Resolve
  <2>2. /\ new.holds \subseteq Kinds /\ new.link \in 0..MaxUid /\ new.partial \in BOOLEAN
        /\ base.holds \subseteq Kinds /\ base.up \in BOOLEAN
    BY <1>o, MutationTyped, AnyTarget
  <2>3. diff \in Plan /\ made \in Plan /\ made.link # Keep
    <3>1. new.link \in 0..Keep /\ Keep \in 0..Keep /\ new.link # Keep
      BY <2>2, BrokerletAssumption DEF Keep
    <3> HIDE DEF new, base
    <3> QED BY <2>2, <3>1 DEF Plan
  <2>4. \/ Goto(k, "finalize") /\ plan' = plan
        \/ Done(k) \/ Retry(k)
        \/ Goto(k, "create") /\ plan' = [plan EXCEPT ![k] = made]
        \/ Goto(k, "patch") /\ plan' = [plan EXCEPT ![k] = diff]
        \/ Applied(k, new.partial, base.up)
    BY <1>3 DEF Resolve
  <2> HIDE DEF diff, made, new, base
  <2>5. WorkerTyped' /\ PlanTyped'
    <3>1. CASE Goto(k, "finalize") /\ plan' = plan
      BY <2>1, <3>1, Goes DEF Steps
    <3>2. CASE Done(k) \/ Retry(k)
      BY <2>1, <3>2, Ends DEF Done, Retry
    <3>3. CASE Goto(k, "create") /\ plan' = [plan EXCEPT ![k] = made]
      BY <2>1, <2>3, <3>3, GoesWith DEF Steps
    <3>4. CASE Goto(k, "patch") /\ plan' = [plan EXCEPT ![k] = diff]
      BY <2>1, <2>3, <3>4, GoesWith DEF Steps
    <3>5. CASE Applied(k, new.partial, base.up)
      BY <2>1, <2>2, <3>5, AppliedTyped
    <3> QED BY <2>4, <3>1, <3>2, <3>3, <3>4, <3>5
  <2>6. SourceTyped' /\ TargetTyped' /\ SpaceTyped'
    BY <1>t, <1>3 DEF Resolve, SourceTyped, TargetTyped, SpaceTyped
  <2> QED BY <1>t, <2>1, <2>5, <2>6 DEF TypeOK
<1>4. CASE EnsureFinalizer(k)
  <2>1. pc[k] # "idle" /\ world' = world
    BY <1>4 DEF EnsureFinalizer
  <2>2. WorkerTyped' /\ PlanTyped'
    <3>1. Done(k) \/ Retry(k)
      BY <1>4 DEF EnsureFinalizer
    <3> QED BY <2>1, <3>1, Ends DEF Done, Retry
  <2>3. SourceTyped'
    <3>1. [src[k] EXCEPT !.fin = TRUE] \in Object
      BY <1>o, ObjectSet
    <3>2. src' \in [Kinds -> Object]
      BY <1>t, <1>4, <3>1, WriteTyped DEF EnsureFinalizer, SourceTyped
    <3> QED BY <1>t, <1>4, <3>2 DEF EnsureFinalizer, SourceTyped
  <2>4. TargetTyped' /\ SpaceTyped'
    BY <1>t, <1>4 DEF EnsureFinalizer, TargetTyped, SpaceTyped
  <2> QED BY <1>t, <2>1, <2>2, <2>3, <2>4 DEF TypeOK
<1>5. CASE CreateTarget(k)
  <2>1. pc[k] = "create" /\ pc[k] # "idle" /\ world' = world
    BY <1>5 DEF CreateTarget
  <2>2. WorkerTyped' /\ PlanTyped'
    <3>1. CASE Applied(k, FALSE, FALSE)
      BY <2>1, <3>1, AppliedTyped
    <3>2. CASE Retry(k)
      BY <2>1, <3>2, Ends DEF Retry
    <3> QED BY <1>5, <3>1, <3>2 DEF CreateTarget
  <2>3. TargetTyped'
    <3>1. CASE target' = target /\ gens' = gens
      BY <1>t, <1>5, <3>1 DEF CreateTarget, TargetTyped
    <3>2. CASE /\ gens[k] < MaxUid /\ gens' = [gens EXCEPT ![k] = @ + 1]
               /\ target' = [target EXCEPT ![k] =
                    [NoTarget EXCEPT !.uid = gens[k] + 1, !.holds = plan[k].add, !.link = plan[k].link]]
      <4>1. gens[k] + 1 \in 1..MaxUid /\ gens[k] + 1 \in 0..MaxUid
        BY <1>o, <3>2, BrokerletAssumption
      <4>2. plan[k].add \in SUBSET Kinds /\ plan[k].link \in 0..MaxUid
        BY <1>t, <1>o, <2>1, BrokerletAssumption DEF PlanTyped, Plan, Keep
      <4>3. [NoTarget EXCEPT !.uid = gens[k] + 1, !.holds = plan[k].add, !.link = plan[k].link]
              \in Target
        BY <4>1, <4>2, TargetNew
      <4> QED BY <1>t, <1>5, <3>2, <4>1, <4>3 DEF CreateTarget, TargetTyped
    <3> QED BY <1>5, <3>1, <3>2 DEF CreateTarget
  <2>4. SourceTyped' /\ SpaceTyped'
    BY <1>t, <1>5 DEF CreateTarget, SourceTyped, SpaceTyped
  <2> QED BY <1>t, <2>1, <2>2, <2>3, <2>4 DEF TypeOK
<1>6. CASE PatchTarget(k)
  <2>1. pc[k] # "idle" /\ world' = world
    BY <1>6 DEF PatchTarget
  <2>2. WorkerTyped' /\ PlanTyped'
    <3>1. CASE Applied(k, plan[k].partial, target[k].up)
      <4>1. plan[k].partial \in BOOLEAN /\ target[k].up \in BOOLEAN
        BY <1>o, AnyTarget DEF Plan
      <4> QED BY <2>1, <3>1, <4>1, AppliedTyped
    <3>2. CASE Retry(k)
      BY <2>1, <3>2, Ends DEF Retry
    <3> QED BY <1>6, <3>1, <3>2 DEF PatchTarget
  <2>3. TargetTyped'
    <3>1. CASE target' = target
      BY <1>t, <1>6, <3>1 DEF PatchTarget, TargetTyped
    <3>2. CASE target[k] # NoTarget /\ target' # target
      <4> DEFINE h == (target[k].holds \ plan[k].drop) \cup plan[k].add
                 l == IF plan[k].link = Keep THEN target[k].link ELSE plan[k].link
      <4>1. h \in SUBSET Kinds /\ l \in 0..MaxUid
        BY <1>o, AnyTarget, BrokerletAssumption DEF Plan, Keep
      <4>2. target' = [target EXCEPT ![k] = [target[k] EXCEPT !.holds = h, !.link = l]]
        BY <1>6, <3>2 DEF PatchTarget
      <4> HIDE DEF h, l
      <4>3. [target[k] EXCEPT !.holds = h, !.link = l] \in Target
        BY <1>o, <3>2, <4>1, TargetSet
      <4> QED BY <1>t, <1>6, <4>2, <4>3 DEF PatchTarget, TargetTyped
    <3> QED BY <1>6, <3>1, <3>2 DEF PatchTarget
  <2>4. SourceTyped' /\ SpaceTyped'
    BY <1>t, <1>6 DEF PatchTarget, SourceTyped, SpaceTyped
  <2> QED BY <1>t, <2>1, <2>2, <2>3, <2>4 DEF TypeOK
<1>7. CASE DeleteTarget(k)
  <2>1. pc[k] # "idle" /\ world' = world
    BY <1>7 DEF DeleteTarget
  <2>2. WorkerTyped' /\ PlanTyped'
    <3>1. CASE Goto(k, "release") /\ plan' = plan
      BY <2>1, <3>1, Goes DEF Steps
    <3>2. CASE Done(k) \/ Retry(k)
      BY <2>1, <3>2, Ends DEF Done, Retry
    <3> QED BY <1>7, <3>1, <3>2 DEF DeleteTarget
  <2>3. TargetTyped'
    <3>1. CASE target' = target
      BY <1>t, <1>7, <3>1 DEF DeleteTarget, TargetTyped
    <3>2. CASE target[k] # NoTarget /\ target' \in {[target EXCEPT ![k].deleted = TRUE],
                                                   [target EXCEPT ![k] = NoTarget]}
      <4>1. [target[k] EXCEPT !.deleted = TRUE] \in Target
        BY <1>o, <3>2, TargetSet
      <4> QED BY <1>t, <1>7, <3>2, <4>1 DEF DeleteTarget, TargetTyped
    <3> QED BY <1>7, <3>1, <3>2 DEF DeleteTarget
  <2>4. SourceTyped' /\ SpaceTyped'
    BY <1>t, <1>7 DEF DeleteTarget, SourceTyped, SpaceTyped
  <2> QED BY <1>t, <2>1, <2>2, <2>3, <2>4 DEF TypeOK
<1>8. CASE RemoveFinalizer(k)
  <2>1. pc[k] # "idle" /\ world' = world
    BY <1>8 DEF RemoveFinalizer
  <2>2. WorkerTyped' /\ PlanTyped'
    <3>1. Done(k) \/ Retry(k)
      BY <1>8 DEF RemoveFinalizer
    <3> QED BY <2>1, <3>1, Ends DEF Done, Retry
  <2>3. SourceTyped'
    <3>1. [src[k] EXCEPT !.fin = FALSE] \in Object
      BY <1>o, ObjectSet
    <3>2. src' \in [Kinds -> Object]
      BY <1>t, <1>8, <3>1, WriteTyped DEF RemoveFinalizer, SourceTyped
    <3> QED BY <1>t, <1>8, <3>2 DEF RemoveFinalizer, SourceTyped
  <2>4. TargetTyped' /\ SpaceTyped'
    BY <1>t, <1>8 DEF RemoveFinalizer, TargetTyped, SpaceTyped
  <2> QED BY <1>t, <2>1, <2>2, <2>3, <2>4 DEF TypeOK
<1>9. CASE k = "machine" /\ PatchStatus
  <2>1. pc[k] # "idle" /\ world' = world
    BY <1>9 DEF PatchStatus
  <2>2. WorkerTyped' /\ PlanTyped'
    <3>1. Done(k) \/ Retry(k)
      BY <1>9 DEF PatchStatus
    <3> QED BY <2>1, <3>1, Ends DEF Done, Retry
  <2>3. SourceTyped'
    <3> DEFINE b == IF copy[k].up = plan[k].up THEN src[k].up ELSE plan[k].up
    <3>1. b \in BOOLEAN
      BY <1>o, ObjectSet DEF Plan
    <3>2. src' = src \/ Write(k, [src[k] EXCEPT !.up = b])
      BY <1>9 DEF PatchStatus
    <3> HIDE DEF b
    <3>3. [src[k] EXCEPT !.up = b] \in Object
      BY <1>o, <3>1, ObjectSet
    <3>4. src' \in [Kinds -> Object]
      BY <1>t, <3>2, <3>3, WriteTyped DEF SourceTyped
    <3> QED BY <1>t, <1>9, <3>4 DEF PatchStatus, SourceTyped
  <2>4. TargetTyped' /\ SpaceTyped'
    BY <1>t, <1>9 DEF PatchStatus, TargetTyped, SpaceTyped
  <2> QED BY <1>t, <2>1, <2>2, <2>3, <2>4 DEF TypeOK
<1>10. CASE k = "alias" /\ ApplyRouting
  <2>1. pc[k] # "idle" /\ world' = world
    BY <1>10 DEF ApplyRouting
  <2>2. WorkerTyped' /\ PlanTyped'
    <3>1. Done(k) \/ Retry(k)
      BY <1>10 DEF ApplyRouting
    <3> QED BY <2>1, <3>1, Ends DEF Done, Retry
  <2>3. SourceTyped'
    <3>1. Destinations \in {{}} \cup {{u} : u \in 0..MaxUid}
      <4>1. tseen["nic"].uid \in 0..MaxUid
        BY <1>t, AnyTarget DEF TargetTyped, Kinds
      <4>2. Destinations = {} \/ Destinations = {tseen["nic"].uid}
        BY DEF Destinations
      <4> QED BY <4>1, <4>2
    <3>2. route' = route \/ route' = [route EXCEPT !.target = Destinations]
      BY <1>10 DEF ApplyRouting
    <3> QED BY <1>t, <1>10, <3>1, <3>2 DEF ApplyRouting, SourceTyped
  <2>4. TargetTyped' /\ SpaceTyped'
    BY <1>t, <1>10 DEF ApplyRouting, TargetTyped, SpaceTyped
  <2> QED BY <1>t, <2>1, <2>2, <2>3, <2>4 DEF TypeOK
<1>11. CASE CallFails(k)
  <2>1. pc[k] # "idle" /\ world' = world /\ Retry(k)
    BY <1>11 DEF CallFails
  <2>2. WorkerTyped' /\ PlanTyped'
    BY <2>1, Ends DEF Retry
  <2>3. SourceTyped' /\ TargetTyped' /\ SpaceTyped'
    BY <1>t, <1>11, BrokerletAssumption DEF CallFails, Fault, SourceTyped, TargetTyped, SpaceTyped
  <2> QED BY <1>t, <2>1, <2>2, <2>3 DEF TypeOK
<1> QED
  BY <1>1, <1>2, <1>3, <1>4, <1>5, <1>6, <1>7, <1>8, <1>9, <1>10, <1>11

\* The source cluster writes objects.
LEMMA TypeSource == TypeOK /\ SourceCluster => TypeOK'
<1> SUFFICES ASSUME TypeOK, SourceCluster PROVE TypeOK'
  OBVIOUS
<1>t. /\ SourceTyped /\ TargetTyped /\ SpaceTyped /\ WorkerTyped /\ PlanTyped
      /\ world \in Worlds /\ All \subseteq Kinds
  BY BrokerletAssumption DEF TypeOK, All
<1>u. /\ world' = world /\ UNCHANGED <<seen, targets, spaces, homonym, queue, worker, faults>>
      /\ route' = route \/ (Route /\ src' = src)
  BY DEF SourceCluster, Link, Unlink, ReportBound, Prepare, Unlist, DeleteSource, Route,
         Change, targets, spaces, worker
<1>1. src' \in [Kinds -> Object]
  <2>1. ASSUME NEW k \in Kinds, NEW o \in Object, Write(k, o)
        PROVE  src' \in [Kinds -> Object]
    BY <1>t, <2>1, WriteTyped
  <2>2. \A k \in Kinds : src[k] \in Object
    BY <1>t DEF SourceTyped
  <2>3. "machine" \in Kinds
    BY DEF Kinds
  <2>4. ASSUME NEW k \in All, Link(k) \/ Unlink(k) \/ Prepare(k)
        PROVE  src' \in [Kinds -> Object]
    BY <1>t, <2>1, <2>2, <2>4, ObjectSet DEF Link, Unlink, Prepare, Change
  <2>5. ASSUME NEW d \in All, ReportBound(d)
        PROVE  src' \in [Kinds -> Object]
    <3>1. src["machine"].bound \cup {d} \in SUBSET Attached
      BY <2>2, <2>3, <2>5, ObjectSet DEF ReportBound
    <3>2. [src["machine"] EXCEPT !.bound = src["machine"].bound \cup {d}] \in Object
      BY <2>2, <2>3, <3>1, ObjectSet
    <3> QED BY <2>1, <2>3, <2>5, <3>2 DEF ReportBound, Change
  <2>6. ASSUME NEW d \in All, Unlist(d)
        PROVE  src' \in [Kinds -> Object]
    <3> DEFINE l == src["machine"].lists \ {d}
               b == src["machine"].bound \ {d}
    <3>1. l \in SUBSET Attached /\ b \in SUBSET Attached
      BY <2>2, <2>3, ObjectSet
    <3>2. Write("machine", [src["machine"] EXCEPT !.lists = l, !.bound = b])
      BY <2>6 DEF Unlist, Change
    <3> HIDE DEF l, b
    <3>3. [src["machine"] EXCEPT !.lists = l, !.bound = b] \in Object
      BY <2>2, <2>3, <3>1, ObjectSet
    <3> QED BY <2>1, <2>3, <3>2, <3>3
  <2>7. ASSUME NEW k \in All, DeleteSource(k)
        PROVE  src' \in [Kinds -> Object]
    <3>1. [src[k] EXCEPT !.phase = "terminating"] \in Object
      BY <1>t, <2>2, ObjectSet
    <3> QED BY <1>t, <2>1, <2>7, <3>1, NoObjectTyped DEF DeleteSource, Change
  <2>8. CASE Route
    BY <1>t, <2>8 DEF Route, SourceTyped
  <2> QED BY <2>4, <2>5, <2>6, <2>7, <2>8 DEF SourceCluster
<1>2. SourceTyped'
  <2>1. route' = route \/ route' = [route EXCEPT !.src = TRUE]
    BY <1>u DEF Route
  <2> QED BY <1>t, <1>u, <1>1, <2>1 DEF SourceTyped
<1>3. TargetTyped' /\ SpaceTyped' /\ WorkerTyped' /\ PlanTyped'
  BY <1>t, <1>u DEF TargetTyped, SpaceTyped, WorkerTyped, PlanTyped, targets, spaces, worker
<1> QED
  BY <1>t, <1>u, <1>2, <1>3 DEF TypeOK

\* The target cluster makes, alters and takes away targets.
LEMMA TypeTarget == TypeOK /\ TargetCluster => TypeOK'
<1> SUFFICES ASSUME TypeOK, TargetCluster PROVE TypeOK'
  OBVIOUS
<1>t. /\ SourceTyped /\ TargetTyped /\ SpaceTyped /\ WorkerTyped /\ PlanTyped
      /\ world \in Worlds /\ All \subseteq Kinds
  BY BrokerletAssumption DEF TypeOK, All
<1>u. world' = world /\ UNCHANGED <<sources, tseen, homeSeen, homonym, queue, worker>>
  BY DEF TargetCluster, Provide, TargetVanishes, TargetRuns, EvictTarget, SpaceIsProvided,
         SpaceIsLost, Replace, sources, targets, spaces, worker
<1>1. target' \in [Kinds -> Target \cup {NoTarget}] /\ gens' \in [Kinds -> 0..MaxUid]
  <2>1. ASSUME NEW k \in Kinds, NEW t \in Target \cup {NoTarget}, Replace(k, t)
        PROVE  target' \in [Kinds -> Target \cup {NoTarget}]
    BY <1>t, <2>1 DEF TargetTyped, Replace
  <2>2. ASSUME NEW k \in All, Provide(k)
        PROVE  target' \in [Kinds -> Target \cup {NoTarget}] /\ gens' \in [Kinds -> 0..MaxUid]
    <3>1. gens[k] + 1 \in 1..MaxUid /\ gens[k] + 1 \in 0..MaxUid
      BY <1>t, <2>2, BrokerletAssumption DEF TargetTyped, Provide
    <3>2. [NoTarget EXCEPT !.uid = gens[k] + 1] \in Target
      BY <3>1, TargetNew
    <3> QED BY <1>t, <2>1, <2>2, <3>1, <3>2 DEF Provide, TargetTyped
  <2>3. ASSUME NEW k \in All, TargetVanishes(k) \/ EvictTarget(k)
        PROVE  target' \in [Kinds -> Target \cup {NoTarget}] /\ gens' \in [Kinds -> 0..MaxUid]
    BY <1>t, <2>1, <2>3 DEF TargetVanishes, EvictTarget, TargetTyped
  <2>4. CASE TargetRuns
    <3>1. target["machine"] \in Target /\ "machine" \in Kinds
      BY <1>t, <2>4 DEF TargetRuns, TargetTyped, Kinds
    <3>2. [target["machine"] EXCEPT !.up = TRUE] \in Target
      BY <3>1, TargetSet
    <3> QED BY <1>t, <2>1, <2>4, <3>1, <3>2 DEF TargetRuns, TargetTyped
  <2>5. CASE SpaceIsProvided
    BY <1>t, <2>5 DEF SpaceIsProvided, TargetTyped, targets
  <2>6. CASE SpaceIsLost
    BY <1>t, <2>6 DEF SpaceIsLost, TargetTyped
  <2> QED BY <2>2, <2>3, <2>4, <2>5, <2>6 DEF TargetCluster
<1>2. SpaceTyped'
  <2>1. faults' = faults \/ (faults < MaxFaults /\ faults' = faults + 1)
    BY DEF TargetCluster, Provide, TargetVanishes, TargetRuns, EvictTarget, SpaceIsProvided,
           SpaceIsLost, Fault
  <2>2. faults' \in 0..MaxFaults
    BY <1>t, <2>1, BrokerletAssumption DEF SpaceTyped
  <2>3. /\ space' = space \/ space' = TRUE \/ space' = FALSE
        /\ spaceEvent' = spaceEvent \/ spaceEvent' = TRUE
    BY DEF TargetCluster, Provide, TargetVanishes, TargetRuns, EvictTarget, SpaceIsProvided,
           SpaceIsLost, Replace, spaces
  <2>4. space' \in BOOLEAN /\ spaceEvent' \in BOOLEAN
    BY <1>t, <2>3 DEF SpaceTyped
  <2> QED BY <1>t, <1>u, <2>2, <2>4 DEF SpaceTyped
<1>3. SourceTyped' /\ TargetTyped' /\ WorkerTyped' /\ PlanTyped'
  BY <1>t, <1>u, <1>1 DEF SourceTyped, TargetTyped, WorkerTyped, PlanTyped, sources, worker
<1> QED
  BY <1>t, <1>u, <1>2, <1>3 DEF TypeOK

\* The informers and a restart.
LEMMA TypeInformers == TypeOK /\ (Informers \/ Restart \/ UNCHANGED vars) => TypeOK'
<1> SUFFICES ASSUME TypeOK, Informers \/ Restart \/ UNCHANGED vars PROVE TypeOK'
  OBVIOUS
<1>t. /\ SourceTyped /\ TargetTyped /\ SpaceTyped /\ WorkerTyped /\ PlanTyped
      /\ world \in Worlds
  BY DEF TypeOK
<1> USE DEF sources, targets, spaces, worker
<1>1. ASSUME NEW k \in Kinds, ObserveSource(k) PROVE TypeOK'
  <2>1. queue' \subseteq world.brokered
    BY <1>t, <1>1 DEF ObserveSource, Woken, WorkerTyped
  <2> QED BY <1>t, <1>1, <2>1
          DEF ObserveSource, TypeOK, SourceTyped, TargetTyped, SpaceTyped, WorkerTyped, PlanTyped
<1>2. ASSUME NEW k \in Kinds, ObserveTarget(k) PROVE TypeOK'
  <2>1. queue' \subseteq world.brokered
    BY <1>t, <1>2 DEF ObserveTarget, WorkerTyped
  <2> QED BY <1>t, <1>2, <2>1
          DEF ObserveTarget, TypeOK, SourceTyped, TargetTyped, SpaceTyped, WorkerTyped, PlanTyped
<1>3. CASE ObserveRouting
  <2>1. route' = [route EXCEPT !.seen = route.src]
    BY <1>3 DEF ObserveRouting
  <2>2. SourceTyped'
    BY <1>t, <1>3, <2>1 DEF ObserveRouting, SourceTyped
  <2> QED BY <1>t, <1>3, <2>2
          DEF ObserveRouting, TypeOK, TargetTyped, SpaceTyped, WorkerTyped, PlanTyped
<1>4. CASE ObserveHome
  BY <1>t, <1>4
     DEF ObserveHome, TypeOK, SourceTyped, TargetTyped, SpaceTyped, WorkerTyped, PlanTyped
<1>5. CASE ObserveSpaceCreated
  BY <1>t, <1>5
     DEF ObserveSpaceCreated, TypeOK, SourceTyped, TargetTyped, SpaceTyped, WorkerTyped, PlanTyped
<1>6. CASE Restart
  <2>1. SourceTyped' /\ TargetTyped'
    BY <1>t, <1>6 DEF Restart, SourceTyped, TargetTyped
  <2>2. SpaceTyped'
    <3>1. faults < MaxFaults /\ faults' = faults + 1 /\ faults \in 0..MaxFaults /\ MaxFaults \in Nat
      BY <1>t, <1>6, BrokerletAssumption DEF Restart, Fault, SpaceTyped
    <3>2. faults' \in 0..MaxFaults
      BY <3>1
    <3> QED BY <1>t, <1>6, <3>2 DEF Restart, SpaceTyped
  <2>3. WorkerTyped'
    BY <1>6, NoObjectTyped DEF Restart, WorkerTyped, Steps
  <2>4. PlanTyped'
    BY <1>6, NoPlanTyped DEF Restart, PlanTyped
  <2> QED BY <1>t, <1>6, <2>1, <2>2, <2>3, <2>4 DEF Restart, TypeOK
<1>7. CASE UNCHANGED vars
  BY <1>t, <1>7
     DEF vars, TypeOK, SourceTyped, TargetTyped, SpaceTyped, WorkerTyped, PlanTyped
<1> QED
  BY <1>1, <1>2, <1>3, <1>4, <1>5, <1>6, <1>7 DEF Informers

\* A step of the workers is one of one worker.
LEMMA OneWorks ==
  ASSUME world \in Worlds, Workers \/ \E k \in world.brokered : CallFails(k)
  PROVE  \E k \in Kinds :
           \/ Begin(k) /\ k \in world.brokered
           \/ CheckLive(k) \/ Resolve(k) \/ EnsureFinalizer(k) \/ CreateTarget(k)
           \/ PatchTarget(k) \/ DeleteTarget(k) \/ RemoveFinalizer(k)
           \/ k = "machine" /\ PatchStatus
           \/ k = "alias" /\ ApplyRouting
           \/ CallFails(k)
<1>1. world.brokered \subseteq Kinds
  BY WorldKinds
<1>2. {"machine", "volume", "network", "nic", "vip", "alias"} \subseteq Kinds
  BY DEF Kinds
<1> QED
  BY <1>1, <1>2
     DEF Workers, MachineDelete, MachineReconcile, VolumeDelete, VolumeReconcile,
         NetworkDelete, NetworkReconcile, NetworkInterfaceDelete, NetworkInterfaceReconcile,
         VirtualIPDelete, VirtualIPReconcile, AliasPrefixDelete, AliasPrefixReconcile,
         Deletes, Applies

LEMMA TypeStep == TypeOK /\ [Next]_vars => TypeOK'
<1> SUFFICES ASSUME TypeOK, [Next]_vars PROVE TypeOK'
  OBVIOUS
<1>1. CASE Workers \/ \E k \in world.brokered : CallFails(k)
  BY <1>1, OneWorks, TypeWork DEF TypeOK
<1> QED
  BY <1>1, TypeInformers, TypeSource, TypeTarget DEF Next

\* TypeOK: in any world a worker only ever works on a brokered kind, has the object
\* its next call needs, and creates a target that refers to what it was resolved to.
THEOREM TypeCorrect == Spec => []TypeOK
BY TypeInit, TypeStep, PTL DEF Spec

(***************************************************************************)
(* NeverInPart.                                                            *)
(*                                                                         *)
(* What a target has to hold only ever becomes less: a Machine is taken    *)
(* entries off its lists, and none comes on.  So what a worker read, what  *)
(* it plans and what is in a cache all have enough, however old they are.  *)
(***************************************************************************)
Needs(k) ==
  CASE k = "machine" -> src["machine"].lists \cup ({"secret"} \cap All)
    [] k = "nic"     -> {"network", "vip"} \cap All
    [] k = "alias"   -> {"network"} \cap All
    [] OTHER         -> {}

\* The target, the one to be created and the one to be patched hold what they need.
Whole(k) ==
  /\ pc[k] = "create" => Needs(k) \subseteq plan[k].add
  /\ pc[k] = "patch" => plan[k].drop \cap Needs(k) = {}
  /\ target[k] # NoTarget /\ k \in world.brokered => Needs(k) \subseteq target[k].holds

\* No version of the Machine that may still be used lists less than the last one.
Versions ==
  /\ seen["machine"].phase # "absent" => src["machine"].lists \subseteq seen["machine"].lists
  /\ pc["machine"] # "idle" => src["machine"].lists \subseteq copy["machine"].lists

WholeInv == Versions /\ \A k \in Kinds : Whole(k)

Shrinks == world' = world /\ src'["machine"].lists \subseteq src["machine"].lists

LEMMA WriteShrinks ==
  ASSUME SourceTyped, NEW k \in Kinds, NEW object, Write(k, object),
         object.lists \subseteq src[k].lists
  PROVE  src'["machine"].lists \subseteq src["machine"].lists
<1>1. "machine" \in Kinds /\ NoObject.lists = {}
  BY DEF Kinds, NoObject
<1> QED
  BY <1>1 DEF SourceTyped, Write

LEMMA ObjectLists ==
  ASSUME NEW o \in Object
  PROVE  /\ \A b \in BOOLEAN : /\ [o EXCEPT !.fin = b].lists = o.lists
                               /\ [o EXCEPT !.link = b].lists = o.lists
                               /\ [o EXCEPT !.up = b].lists = o.lists
         /\ [o EXCEPT !.phase = "terminating"].lists = o.lists
         /\ \A x : [o EXCEPT !.bound = x].lists = o.lists
         /\ \A x, y : [o EXCEPT !.lists = x, !.bound = y].lists = x
BY DEF Object

LEMMA NeedsShrink ==
  ASSUME Shrinks, NEW k \in Kinds
  PROVE  Needs(k)' \subseteq Needs(k)
BY DEF Shrinks, Needs, All

\* A step that makes no plan and no target for k, and none worse.
LEMMA WholeStays ==
  ASSUME Shrinks, NEW k \in Kinds, Whole(k),
         \/ pc'[k] \notin {"create", "patch"}
         \/ pc'[k] = pc[k] /\ plan'[k] = plan[k],
         \/ target'[k] = NoTarget
         \/ k \notin world.brokered
         \/ target[k] # NoTarget /\ target'[k].holds = target[k].holds
  PROVE  Whole(k)'
<1>1. Needs(k)' \subseteq Needs(k) /\ world' = world
  BY NeedsShrink DEF Shrinks
<1> QED
  BY <1>1 DEF Whole

LEMMA VersionsStay ==
  ASSUME Shrinks, Versions,
         \/ seen'["machine"] \in {seen["machine"], src'["machine"]},
         \/ pc'["machine"] = "idle"
         \/ pc["machine"] # "idle" /\ copy'["machine"] = copy["machine"]
         \/ seen["machine"].phase # "absent" /\ copy'["machine"] = seen["machine"]
  PROVE  Versions'
BY DEF Shrinks, Versions

\* What a call of the worker of k leaves alone.
LEMMA WorkApart ==
  ASSUME TypeOK, NEW k \in Kinds,
         \/ Begin(k) \/ CheckLive(k) \/ Resolve(k) \/ EnsureFinalizer(k) \/ CreateTarget(k)
         \/ PatchTarget(k) \/ DeleteTarget(k) \/ RemoveFinalizer(k)
         \/ k = "machine" /\ PatchStatus
         \/ k = "alias" /\ ApplyRouting
         \/ CallFails(k)
  PROVE  /\ world' = world /\ seen' = seen
         /\ \A j \in Kinds \ {k} : /\ pc'[j] = pc[j] /\ plan'[j] = plan[j] /\ copy'[j] = copy[j]
                                   /\ target'[j] = target[j]
<1> DEFINE Apart == /\ world' = world /\ seen' = seen
                    /\ \A j \in Kinds \ {k} : /\ pc'[j] = pc[j] /\ plan'[j] = plan[j]
                                              /\ copy'[j] = copy[j] /\ target'[j] = target[j]
<1>t. target \in [Kinds -> Target \cup {NoTarget}] /\ pc \in [Kinds -> Steps]
      /\ copy \in [Kinds -> Object] /\ plan \in [Kinds -> Plan]
  BY DEF TypeOK, TargetTyped, WorkerTyped, PlanTyped
<1> USE DEF sources, targets, Goto, Done, Retry, Finish
<1>1. CASE Begin(k)
  BY <1>t, <1>1 DEF Begin
<1>2. CASE CheckLive(k)
  BY <1>t, <1>2 DEF CheckLive
<1>3. ASSUME NEW partial, NEW up, Applied(k, partial, up)
      PROVE  \A j \in Kinds \ {k} : pc'[j] = pc[j] /\ plan'[j] = plan[j] /\ copy'[j] = copy[j]
  BY <1>t, <1>3 DEF Applied
<1>4. CASE Resolve(k)
  <2> DEFINE new == Mutation(k, tseen[k])
  <2>1. world' = world /\ seen' = seen /\ target' = target
    BY <1>4 DEF Resolve
  <2>2. ASSUME Applied(k, new.partial, tseen[k].up)
        PROVE  Apart
    BY <1>3, <2>1, <2>2
  <2>3. \/ Applied(k, new.partial, tseen[k].up) \/ Done(k) \/ Retry(k)
        \/ pc' = [pc EXCEPT ![k] = "finalize"] /\ copy' = copy /\ plan' = plan
        \/ \E step, p : pc' = [pc EXCEPT ![k] = step] /\ copy' = copy /\ plan' = [plan EXCEPT ![k] = p]
    BY <1>4 DEF Resolve
  <2>4. ASSUME NEW step, NEW p,
               pc' = [pc EXCEPT ![k] = step] /\ copy' = copy /\ plan' = [plan EXCEPT ![k] = p]
        PROVE  Apart
    BY <1>t, <2>1, <2>4
  <2>5. CASE pc' = [pc EXCEPT ![k] = "finalize"] /\ copy' = copy /\ plan' = plan
    BY <1>t, <2>1, <2>5
  <2>6. CASE Done(k) \/ Retry(k)
    BY <1>t, <2>1, <2>6
  <2> QED BY <2>2, <2>3, <2>4, <2>5, <2>6
<1>5. CASE EnsureFinalizer(k)
  BY <1>t, <1>5 DEF EnsureFinalizer
<1>6. CASE CreateTarget(k)
  <2>1. world' = world /\ seen' = seen /\ \A j \in Kinds \ {k} : target'[j] = target[j]
    BY <1>t, <1>6 DEF CreateTarget
  <2>2. CASE Applied(k, FALSE, FALSE)
    BY <1>3, <2>1, <2>2
  <2>3. CASE Retry(k)
    BY <1>t, <2>1, <2>3
  <2> QED BY <1>6, <2>2, <2>3 DEF CreateTarget
<1>7. CASE PatchTarget(k)
  <2>1. world' = world /\ seen' = seen /\ \A j \in Kinds \ {k} : target'[j] = target[j]
    BY <1>t, <1>7 DEF PatchTarget
  <2>2. CASE Applied(k, plan[k].partial, target[k].up)
    BY <1>3, <2>1, <2>2
  <2>3. CASE Retry(k)
    BY <1>t, <2>1, <2>3
  <2> QED BY <1>7, <2>2, <2>3 DEF PatchTarget
<1>8. CASE DeleteTarget(k)
  BY <1>t, <1>8 DEF DeleteTarget
<1>9. CASE RemoveFinalizer(k)
  BY <1>t, <1>9 DEF RemoveFinalizer
<1>10. CASE k = "machine" /\ PatchStatus
  BY <1>t, <1>10 DEF PatchStatus
<1>11. CASE k = "alias" /\ ApplyRouting
  BY <1>t, <1>11 DEF ApplyRouting
<1>12. CASE CallFails(k)
  BY <1>t, <1>12 DEF CallFails
<1> QED
  BY <1>1, <1>2, <1>4, <1>5, <1>6, <1>7, <1>8, <1>9, <1>10, <1>11, <1>12

\* No worker lists anything.
LEMMA WorkShrinks ==
  ASSUME TypeOK, NEW k \in Kinds,
         \/ Begin(k) \/ CheckLive(k) \/ Resolve(k) \/ EnsureFinalizer(k) \/ CreateTarget(k)
         \/ PatchTarget(k) \/ DeleteTarget(k) \/ RemoveFinalizer(k)
         \/ k = "machine" /\ PatchStatus
         \/ k = "alias" /\ ApplyRouting
         \/ CallFails(k)
  PROVE  Shrinks
<1>1. SourceTyped /\ src[k] \in Object /\ plan[k] \in Plan
  BY DEF TypeOK, SourceTyped, PlanTyped
<1>2. src'["machine"].lists \subseteq src["machine"].lists
  <2>1. CASE EnsureFinalizer(k)
    <3>1. [src[k] EXCEPT !.fin = TRUE].lists = src[k].lists
      BY <1>1, ObjectLists
    <3> QED BY <1>1, <2>1, <3>1, WriteShrinks DEF EnsureFinalizer
  <2>2. CASE RemoveFinalizer(k)
    <3>1. [src[k] EXCEPT !.fin = FALSE].lists = src[k].lists
      BY <1>1, ObjectLists
    <3> QED BY <1>1, <2>2, <3>1, WriteShrinks DEF RemoveFinalizer
  <2>3. CASE k = "machine" /\ PatchStatus
    <3> DEFINE b == IF copy[k].up = plan[k].up THEN src[k].up ELSE plan[k].up
    <3>1. b \in BOOLEAN
      BY <1>1, ObjectSet DEF Plan
    <3>2. src' = src \/ Write(k, [src[k] EXCEPT !.up = b])
      BY <2>3 DEF PatchStatus
    <3> HIDE DEF b
    <3>3. [src[k] EXCEPT !.up = b].lists = src[k].lists
      BY <1>1, <3>1, ObjectLists
    <3> QED BY <1>1, <3>2, <3>3, WriteShrinks
  <2>4. CASE \/ Begin(k) \/ CheckLive(k) \/ Resolve(k) \/ CreateTarget(k) \/ PatchTarget(k)
             \/ DeleteTarget(k) \/ CallFails(k)
             \/ k = "alias" /\ ApplyRouting
    <3>1. src' = src
      BY <2>4 DEF Begin, CheckLive, Resolve, CreateTarget, PatchTarget, DeleteTarget, CallFails,
                  ApplyRouting, sources
    <3>2. src'["machine"] = src["machine"]
      BY <3>1
    <3> QED BY <3>2
  <2> QED BY <2>1, <2>2, <2>3, <2>4
<1> QED
  BY <1>2, WorkApart DEF Shrinks

\* A plan of Resolve: complete if it is to create, and without loss if it is to patch.
LEMMA Resolves ==
  ASSUME TypeOK, Versions, NEW k \in Kinds, Resolve(k)
  PROVE  /\ pc'[k] = "create" => Needs(k) \subseteq plan'[k].add
         /\ pc'[k] = "patch" => plan'[k].drop \cap Needs(k) = {}
<1> DEFINE base == tseen[k]
           new  == Mutation(k, base)
           diff == [add |-> new.holds \ base.holds, drop |-> base.holds \ new.holds,
                    link |-> IF new.link = base.link THEN Keep ELSE new.link,
                    partial |-> new.partial, up |-> FALSE]
           made == [diff EXCEPT !.link = new.link]
<1>t. pc \in [Kinds -> Steps] /\ plan \in [Kinds -> Plan] /\ pc[k] = "resolve"
  BY DEF TypeOK, WorkerTyped, PlanTyped, Resolve
<1>1. ~new.partial => Needs(k) \subseteq new.holds
  <2>1. CASE k = "machine"
    <3>1. Needs(k) \subseteq Listed
      BY <1>t, <2>1 DEF Needs, Listed, Versions
    <3>2. new = MachineMutation(base)
      BY <2>1 DEF Mutation
    <3>3. new.holds = Ready \cup (base.holds \cap Listed) /\ new.partial = (Ready # Listed)
      BY <3>2 DEF MachineMutation
    <3> HIDE DEF new
    <3> QED BY <3>1, <3>3
  <2>2. CASE k = "nic"
    BY <2>2 DEF Needs, Mutation, NicMutation
  <2>3. CASE k = "alias"
    BY <2>3 DEF Needs, Mutation, AliasMutation
  <2>4. CASE k \notin {"machine", "nic", "alias"}
    BY <2>4 DEF Needs
  <2> QED BY <2>1, <2>2, <2>3, <2>4
<1>2. (base.holds \ new.holds) \cap Needs(k) = {}
  <2>1. CASE k = "machine"
    <3>1. Needs(k) \subseteq Listed
      BY <1>t, <2>1 DEF Needs, Listed, Versions
    <3>2. new = MachineMutation(base)
      BY <2>1 DEF Mutation
    <3> QED BY <3>1, <3>2 DEF MachineMutation
  <2>2. CASE k = "nic"
    BY <2>2 DEF Needs, Mutation, NicMutation
  <2>3. CASE k = "alias"
    BY <2>3 DEF Needs, Mutation, AliasMutation
  <2>4. CASE k \notin {"machine", "nic", "alias"}
    BY <2>4 DEF Needs
  <2> QED BY <2>1, <2>2, <2>3, <2>4
<1>3. ASSUME pc'[k] = "create"
      PROVE  Needs(k) \subseteq plan'[k].add
  <2>1. base = NoTarget /\ ~new.partial /\ plan' = [plan EXCEPT ![k] = made]
    <3>1. ~Done(k) /\ ~Retry(k) /\ ~Goto(k, "finalize") /\ ~Goto(k, "patch")
      BY <1>t, <1>3 DEF Goto, Done, Retry, Finish
    <3>2. ~Applied(k, new.partial, base.up)
      BY <1>t, <1>3, <3>1 DEF Applied, Goto
    <3>3. \/ Done(k) \/ Retry(k) \/ Goto(k, "finalize") \/ Goto(k, "patch")
          \/ Applied(k, new.partial, base.up)
          \/ base = NoTarget /\ ~new.partial /\ plan' = [plan EXCEPT ![k] = made]
      BY DEF Resolve
    <3> HIDE DEF new, base, made
    <3> QED BY <3>1, <3>2, <3>3
  <2>2. plan'[k] = made
    <3> HIDE DEF new, base, made
    <3> QED BY <1>t, <2>1
  <2>4. base.holds = {}
    <3>1. NoTarget.holds = {}
      BY DEF NoTarget
    <3> QED BY <2>1, <3>1
  <2>3. made.add = new.holds \ base.holds
    OBVIOUS
  <2> HIDE DEF made, new, base
  <2> QED BY <1>1, <2>1, <2>2, <2>3, <2>4
<1>4. ASSUME pc'[k] = "patch"
      PROVE  plan'[k].drop \cap Needs(k) = {}
  <2>1. plan' = [plan EXCEPT ![k] = diff]
    BY <1>t, <1>4 DEF Resolve, Goto, Done, Retry, Finish, Applied
  <2>2. plan'[k] = diff /\ diff.drop = base.holds \ new.holds
    BY <1>t, <2>1
  <2> HIDE DEF diff, new, base
  <2> QED BY <1>2, <2>2
<1> QED
  BY <1>3, <1>4

\* Which version of its object a worker works on.
LEMMA WorkCopy ==
  ASSUME TypeOK, NEW k \in Kinds,
         \/ Begin(k) \/ CheckLive(k) \/ Resolve(k) \/ EnsureFinalizer(k) \/ CreateTarget(k)
         \/ PatchTarget(k) \/ DeleteTarget(k) \/ RemoveFinalizer(k)
         \/ k = "machine" /\ PatchStatus
         \/ k = "alias" /\ ApplyRouting
         \/ CallFails(k)
  PROVE  \/ pc'[k] = "idle"
         \/ pc[k] # "idle" /\ copy'[k] = copy[k]
         \/ seen[k].phase # "absent" /\ copy'[k] = seen[k]
<1>t. pc \in [Kinds -> Steps] /\ copy \in [Kinds -> Object]
  BY DEF TypeOK, WorkerTyped
<1>1. CASE Begin(k)
  BY <1>t, <1>1 DEF Begin
<1>2. ASSUME pc[k] # "idle", Finish(k) \/ copy' = copy
      PROVE  pc'[k] = "idle" \/ (pc[k] # "idle" /\ copy'[k] = copy[k])
  BY <1>t, <1>2 DEF Finish
<1>3. CASE CheckLive(k)
  BY <1>2, <1>3 DEF CheckLive, Goto, Done
<1>4. ASSUME NEW partial, NEW up, Applied(k, partial, up)
      PROVE  Finish(k) \/ copy' = copy
  BY <1>4 DEF Applied, Goto, Done, Retry
<1>5. CASE Resolve(k)
  <2>1. Finish(k) \/ copy' = copy
    <3> DEFINE new == Mutation(k, tseen[k])
    <3>1. Applied(k, new.partial, tseen[k].up) => Finish(k) \/ copy' = copy
      BY <1>4
    <3> QED BY <1>5, <3>1 DEF Resolve, Goto, Done, Retry
  <2> QED BY <1>2, <1>5, <2>1 DEF Resolve
<1>6. CASE CreateTarget(k)
  BY <1>2, <1>4, <1>6 DEF CreateTarget, Retry
<1>7. CASE PatchTarget(k)
  BY <1>2, <1>4, <1>7 DEF PatchTarget, Retry
<1>8. CASE \/ EnsureFinalizer(k) \/ DeleteTarget(k) \/ RemoveFinalizer(k) \/ CallFails(k)
           \/ k = "machine" /\ PatchStatus
           \/ k = "alias" /\ ApplyRouting
  BY <1>2, <1>8 DEF EnsureFinalizer, DeleteTarget, RemoveFinalizer, CallFails, PatchStatus,
                    ApplyRouting, Goto, Done, Retry
<1> QED
  BY <1>1, <1>3, <1>5, <1>6, <1>7, <1>8

LEMMA WholeWork ==
  ASSUME TypeOK, WholeInv, NEW k \in Kinds,
         \/ Begin(k) \/ CheckLive(k) \/ Resolve(k) \/ EnsureFinalizer(k) \/ CreateTarget(k)
         \/ PatchTarget(k) \/ DeleteTarget(k) \/ RemoveFinalizer(k)
         \/ k = "machine" /\ PatchStatus
         \/ k = "alias" /\ ApplyRouting
         \/ CallFails(k)
  PROVE  WholeInv'
<1>t. /\ target \in [Kinds -> Target \cup {NoTarget}] /\ pc \in [Kinds -> Steps]
      /\ plan \in [Kinds -> Plan] /\ "machine" \in Kinds
  BY DEF TypeOK, TargetTyped, WorkerTyped, PlanTyped, Kinds
<1>i. Versions /\ \A j \in Kinds : Whole(j)
  BY DEF WholeInv
<1>1. Shrinks
  BY WorkShrinks
<1>2. /\ seen' = seen
      /\ \A j \in Kinds \ {k} : /\ pc'[j] = pc[j] /\ plan'[j] = plan[j] /\ copy'[j] = copy[j]
                                /\ target'[j] = target[j]
  BY WorkApart
<1>3. \A j \in Kinds \ {k} : Whole(j)'
  BY <1>i, <1>1, <1>2, WholeStays
<1>4. Versions'
  <2>1. CASE k = "machine"
    BY <1>i, <1>1, <1>2, <2>1, WorkCopy, VersionsStay
  <2>2. CASE k # "machine"
    BY <1>t, <1>i, <1>1, <1>2, <2>2, VersionsStay
  <2> QED BY <2>1, <2>2
<1>a. ASSUME NEW partial, NEW up, Applied(k, partial, up)
      PROVE  pc'[k] \notin {"create", "patch"}
  BY <1>t, <1>a DEF Applied, Goto, Done, Retry, Finish
<1>5. Whole(k)'
  <2> USE DEF targets, Goto, Done, Retry, Finish
  <2>1. CASE Resolve(k)
    <3>1. target' = target
      BY <2>1 DEF Resolve
    <3>2. Needs(k)' \subseteq Needs(k) /\ world' = world
      BY <1>1, NeedsShrink DEF Shrinks
    <3>3. Whole(k)
      BY <1>i
    <3>4. /\ pc'[k] = "create" => Needs(k) \subseteq plan'[k].add
          /\ pc'[k] = "patch" => plan'[k].drop \cap Needs(k) = {}
      BY <1>i, <2>1, Resolves
    <3> QED BY <3>1, <3>2, <3>3, <3>4 DEF Whole
  <2>2. CASE CreateTarget(k)
    <3>1. pc[k] = "create" /\ pc'[k] \notin {"create", "patch"}
      <4>1. CASE Applied(k, FALSE, FALSE)
        BY <1>a, <2>2, <4>1 DEF CreateTarget
      <4>2. CASE Retry(k)
        BY <1>t, <2>2, <4>2 DEF CreateTarget
      <4> QED BY <2>2, <4>1, <4>2 DEF CreateTarget
    <3>2. target' = target \/ target'[k].holds = plan[k].add
      BY <1>t, <2>2 DEF CreateTarget, NoTarget
    <3>3. Needs(k)' \subseteq Needs(k) /\ world' = world
      BY <1>1, NeedsShrink DEF Shrinks
    <3>4. Whole(k)
      BY <1>i
    <3> QED BY <3>1, <3>2, <3>3, <3>4 DEF Whole
  <2>3. CASE PatchTarget(k)
    <3>1. pc[k] = "patch" /\ pc'[k] \notin {"create", "patch"}
      <4>1. CASE Applied(k, plan[k].partial, target[k].up)
        BY <1>a, <2>3, <4>1 DEF PatchTarget
      <4>2. CASE Retry(k)
        BY <1>t, <2>3, <4>2 DEF PatchTarget
      <4> QED BY <2>3, <4>1, <4>2 DEF PatchTarget
    <3>2. \/ target' = target
          \/ /\ target[k] # NoTarget
             /\ target'[k].holds = (target[k].holds \ plan[k].drop) \cup plan[k].add
      <4> DEFINE h == (target[k].holds \ plan[k].drop) \cup plan[k].add
                 l == IF plan[k].link = Keep THEN target[k].link ELSE plan[k].link
      <4>1. CASE target[k] # NoTarget /\ target' # target
        <5>1. target' = [target EXCEPT ![k] = [target[k] EXCEPT !.holds = h, !.link = l]]
          BY <2>3, <4>1 DEF PatchTarget
        <5> HIDE DEF h, l
        <5>2. [target[k] EXCEPT !.holds = h, !.link = l].holds = h
          BY <1>t, <4>1 DEF Target
        <5>3. target'[k].holds = h
          BY <1>t, <5>1, <5>2
        <5> QED BY <4>1, <5>3 DEF h
      <4>2. CASE target' = target
        BY <4>2
      <4> QED BY <2>3, <4>1, <4>2 DEF PatchTarget
    <3>3. Needs(k)' \subseteq Needs(k) /\ world' = world
      BY <1>1, NeedsShrink DEF Shrinks
    <3>4. Whole(k)
      BY <1>i
    <3> QED BY <3>1, <3>2, <3>3, <3>4 DEF Whole
  <2>4. CASE DeleteTarget(k)
    <3>1. pc'[k] \notin {"create", "patch"}
      BY <1>t, <2>4 DEF DeleteTarget
    <3>2. \/ target' = target
          \/ /\ target[k] # NoTarget
             /\ target'[k] \in {NoTarget, [target[k] EXCEPT !.deleted = TRUE]}
      BY <1>t, <2>4 DEF DeleteTarget
    <3>3. target[k] # NoTarget => [target[k] EXCEPT !.deleted = TRUE].holds = target[k].holds
      BY <1>t DEF Target
    <3> QED BY <1>i, <1>1, <3>1, <3>2, <3>3, WholeStays
  <2>5. CASE \/ Begin(k) \/ CheckLive(k) \/ EnsureFinalizer(k) \/ RemoveFinalizer(k) \/ CallFails(k)
             \/ k = "machine" /\ PatchStatus
             \/ k = "alias" /\ ApplyRouting
    <3>1. target' = target
      BY <2>5 DEF Begin, CheckLive, EnsureFinalizer, RemoveFinalizer, CallFails, PatchStatus,
                  ApplyRouting
    <3>2. pc'[k] \notin {"create", "patch"}
      BY <1>t, <2>5 DEF Begin, CheckLive, EnsureFinalizer, RemoveFinalizer, CallFails,
                        PatchStatus, ApplyRouting
    <3> QED BY <1>i, <1>1, <3>1, <3>2, WholeStays
  <2> QED BY <2>1, <2>2, <2>3, <2>4, <2>5
<1> QED
  BY <1>3, <1>4, <1>5 DEF WholeInv

\* The source cluster takes entries off the lists, or removes the Machine.
LEMMA WholeSource ==
  ASSUME TypeOK, WholeInv, SourceCluster
  PROVE  WholeInv'
<1>t. SourceTyped /\ All \subseteq Kinds /\ "machine" \in Kinds
  BY BrokerletAssumption DEF TypeOK, All, Kinds
<1>u. world' = world /\ UNCHANGED <<seen, targets, worker>>
  BY DEF SourceCluster, Link, Unlink, ReportBound, Prepare, Unlist, DeleteSource, Route,
         Change, targets, spaces, worker
<1>1. \A k \in Kinds : src[k] \in Object
  BY <1>t DEF SourceTyped
<1>2. src'["machine"].lists \subseteq src["machine"].lists
  <2>1. ASSUME NEW k \in All, Link(k) \/ Unlink(k) \/ Prepare(k)
        PROVE  src'["machine"].lists \subseteq src["machine"].lists
    <3>1. /\ [src[k] EXCEPT !.link = TRUE].lists = src[k].lists
          /\ [src[k] EXCEPT !.link = FALSE].lists = src[k].lists
          /\ [src[k] EXCEPT !.up = TRUE].lists = src[k].lists
      BY <1>t, <1>1, ObjectLists
    <3> QED BY <1>t, <2>1, <3>1, WriteShrinks DEF Link, Unlink, Prepare, Change
  <2>2. ASSUME NEW d \in All, ReportBound(d)
        PROVE  src'["machine"].lists \subseteq src["machine"].lists
    <3> DEFINE o == [src["machine"] EXCEPT !.bound = src["machine"].bound \cup {d}]
    <3>1. o.lists = src["machine"].lists
      BY <1>t, <1>1, ObjectLists
    <3>2. Write("machine", o)
      BY <2>2 DEF ReportBound, Change
    <3> HIDE DEF o
    <3> QED BY <1>t, <3>1, <3>2, WriteShrinks
  <2>3. ASSUME NEW d \in All, Unlist(d)
        PROVE  src'["machine"].lists \subseteq src["machine"].lists
    <3> DEFINE l == src["machine"].lists \ {d}
               b == src["machine"].bound \ {d}
               o == [src["machine"] EXCEPT !.lists = l, !.bound = b]
    <3>1. Write("machine", o)
      BY <2>3 DEF Unlist, Change
    <3>2. l \subseteq src["machine"].lists
      OBVIOUS
    <3> HIDE DEF l, b
    <3>3. o.lists = l
      BY <1>t, <1>1, ObjectLists
    <3> HIDE DEF o
    <3> QED BY <1>t, <3>1, <3>2, <3>3, WriteShrinks
  <2>4. ASSUME NEW k \in All, DeleteSource(k)
        PROVE  src'["machine"].lists \subseteq src["machine"].lists
    <3>1. /\ [src[k] EXCEPT !.phase = "terminating"].lists = src[k].lists
          /\ NoObject.lists \subseteq src[k].lists
      BY <1>t, <1>1, ObjectLists DEF NoObject
    <3> QED BY <1>t, <2>4, <3>1, WriteShrinks DEF DeleteSource, Change
  <2>5. CASE Route
    BY <2>5 DEF Route
  <2> QED BY <2>1, <2>2, <2>3, <2>4, <2>5 DEF SourceCluster
<1>3. Shrinks
  BY <1>u, <1>2 DEF Shrinks
<1>4. Versions'
  BY <1>u, <1>3, VersionsStay DEF WholeInv, worker
<1>5. \A k \in Kinds : Whole(k)'
  BY <1>u, <1>3, WholeStays DEF WholeInv, worker, targets
<1> QED
  BY <1>4, <1>5 DEF WholeInv

\* Nobody else makes a target of a brokered kind, or takes what it holds.
LEMMA WholeTarget ==
  ASSUME TypeOK, WholeInv, TargetCluster
  PROVE  WholeInv'
<1>t. /\ target \in [Kinds -> Target \cup {NoTarget}] /\ All \subseteq Kinds /\ "machine" \in Kinds
      /\ world \in Worlds
  BY BrokerletAssumption DEF TypeOK, TargetTyped, All, Kinds
<1>u. world' = world /\ UNCHANGED <<sources, worker>>
  BY DEF TargetCluster, Provide, TargetVanishes, TargetRuns, EvictTarget, SpaceIsProvided,
         SpaceIsLost, Replace, sources, targets, spaces, worker
<1>1. Shrinks
  BY <1>u DEF Shrinks, sources
<1>2. ASSUME NEW j \in Kinds
      PROVE  \/ target'[j] = NoTarget
             \/ j \notin world.brokered
             \/ target[j] # NoTarget /\ target'[j].holds = target[j].holds
  <2>1. ASSUME NEW k \in All, Provide(k)
        PROVE  target'[j] = target[j] \/ j \notin world.brokered
    BY <1>t, <2>1, WorldKinds DEF Provide, Replace
  <2>2. ASSUME NEW k \in All, TargetVanishes(k) \/ EvictTarget(k)
        PROVE  target'[j] = target[j] \/ target'[j] = NoTarget
    BY <1>t, <2>2 DEF TargetVanishes, EvictTarget, Replace
  <2>3. CASE TargetRuns
    <3>1. target["machine"] # NoTarget /\ target["machine"] \in Target
      BY <1>t, <2>3 DEF TargetRuns
    <3>2. [target["machine"] EXCEPT !.up = TRUE].holds = target["machine"].holds
      BY <3>1 DEF Target
    <3>3. target' = [target EXCEPT !["machine"] = [target["machine"] EXCEPT !.up = TRUE]]
      BY <2>3 DEF TargetRuns, Replace
    <3> QED BY <1>t, <3>1, <3>2, <3>3
  <2>4. CASE SpaceIsProvided \/ SpaceIsLost
    BY <2>4 DEF SpaceIsProvided, SpaceIsLost, targets
  <2> QED BY <2>1, <2>2, <2>3, <2>4 DEF TargetCluster
<1>3. Versions'
  BY <1>u, <1>1, VersionsStay DEF WholeInv, worker, sources
<1>4. \A k \in Kinds : Whole(k)'
  BY <1>u, <1>1, <1>2, WholeStays DEF WholeInv, worker
<1> QED
  BY <1>3, <1>4 DEF WholeInv

\* A cache that catches up shows the last version; a restart forgets the plans.
LEMMA WholeInformers ==
  ASSUME TypeOK, WholeInv, Informers \/ Restart \/ UNCHANGED vars
  PROVE  WholeInv'
<1>1. world' = world /\ src' = src /\ target' = target
  BY DEF Informers, ObserveSource, ObserveTarget, ObserveRouting, ObserveHome, ObserveSpaceCreated,
         Restart, vars, sources, targets
<1>2. Shrinks
  BY <1>1 DEF Shrinks
<1>3. \/ UNCHANGED worker
      \/ \A k \in Kinds : pc'[k] = "idle"
  BY DEF Informers, ObserveSource, ObserveTarget, ObserveRouting, ObserveHome, ObserveSpaceCreated,
         Restart, vars, worker
<1>4. seen'["machine"] \in {seen["machine"], src'["machine"]}
  <2>1. ASSUME NEW k \in Kinds, ObserveSource(k)
        PROVE  seen'["machine"] \in {seen["machine"], src'["machine"]}
    BY <2>1 DEF ObserveSource, TypeOK, SourceTyped, Kinds
  <2>2. ASSUME ~ \E k \in Kinds : ObserveSource(k)
        PROVE  seen' = seen \/ seen' = src'
    BY <2>2 DEF Informers, ObserveTarget, ObserveRouting, ObserveHome, ObserveSpaceCreated,
                Restart, vars, sources
  <2> QED BY <2>1, <2>2
<1>5. "machine" \in Kinds
  BY DEF Kinds
<1>6. Versions'
  BY <1>2, <1>3, <1>4, <1>5, VersionsStay DEF WholeInv, worker
<1>7. \A k \in Kinds : Whole(k)'
  BY <1>1, <1>2, <1>3, WholeStays DEF WholeInv, worker
<1> QED
  BY <1>6, <1>7 DEF WholeInv

LEMMA WholeStep == TypeOK /\ WholeInv /\ [Next]_vars => WholeInv'
<1> SUFFICES ASSUME TypeOK, WholeInv, [Next]_vars PROVE WholeInv'
  OBVIOUS
<1>1. CASE Workers \/ \E k \in world.brokered : CallFails(k)
  BY <1>1, OneWorks, WholeWork DEF TypeOK
<1> QED
  BY <1>1, WholeInformers, WholeSource, WholeTarget DEF Next

LEMMA WholeFirst == Init => WholeInv
<1> SUFFICES ASSUME Init PROVE WholeInv
  OBVIOUS
<1>1. /\ pc = [k \in Kinds |-> "idle"] /\ "machine" \in Kinds /\ world \in Worlds
      /\ seen = [k \in Kinds |-> IF k \in world.early THEN src[k] ELSE NoObject]
  BY DEF Init, Kinds
<1>2. \A k \in Kinds : k \in world.brokered => target[k] = NoTarget
  <2>1. target = [k \in Kinds |-> IF k \in world.early \cap world.given
                                  THEN [NoTarget EXCEPT !.uid = 1] ELSE NoTarget]
    BY DEF Init
  <2> QED BY <1>1, <2>1, WorldKinds
<1>3. Versions
  BY <1>1 DEF Versions, NoObject
<1>4. \A k \in Kinds : Whole(k)
  BY <1>1, <1>2 DEF Whole
<1> QED
  BY <1>3, <1>4 DEF WholeInv

LEMMA WholeIsNeverInPart == TypeOK /\ WholeInv => NeverInPart
<1>1. {"machine", "nic", "alias"} \subseteq Kinds
  BY DEF Kinds
<1> QED
  BY <1>1 DEF WholeInv, Whole, Needs, NeverInPart

\* NeverInPart: whatever is stale, fails or restarts, the target of a Machine,
\* NetworkInterface or AliasPrefix has all it is to refer to while it is there.
THEOREM NeverInPartHolds == Spec => []NeverInPart
<1> QED
  BY WholeStep, TypeCorrect, WholeFirst, WholeIsNeverInPart, PTL DEF Spec
===============================================================================
