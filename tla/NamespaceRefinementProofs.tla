---------------------- MODULE NamespaceRefinementProofs ----------------------
(***************************************************************************)
(* The Namespace reconciler implements NamespaceMapping, for any           *)
(* constants, when Mishaps is empty.                                       *)
(*                                                                         *)
(* Most steps change neither the phase of a source Namespace nor a target  *)
(* Namespace and map to a stutter.  The others change one of the two, of   *)
(* one incarnation; IInv, before and after the step, says which step of    *)
(* the mapping that may be.                                                *)
(***************************************************************************)
EXTENDS NamespaceRefinement, NamespaceBrokerProofs

\* The state of a target Namespace in the mapping; NoTarget's is "absent".
Stage(life) == IF life = "deleted" THEN "retired" ELSE life

\* Phase and incarnation of every source Namespace stay as they are.
SameSources == \A n \in Names : src'[n].uid = src[n].uid /\ src'[n].phase = src[n].phase

LEMMA SourcesMapped ==
  ASSUME SameSources
  PROVE  sourceBar' = sourceBar
BY DEF SameSources, sourceBar, SourceOf, Incarnations

LEMMA TargetsMapped ==
  ASSUME target' = target
  PROVE  mappedBar' = mappedBar
BY DEF mappedBar, MappedOf, Matching

(***************************************************************************)
(* A step that changes one target Namespace.                               *)
(***************************************************************************)
\* The target Namespace with the label stands for its incarnation.
LEMMA MatchedBefore ==
  ASSUME TypeOK, AtMostOneTarget, NEW s \in Incarnations
  PROVE  /\ Matching(s[1], s[2]) = {} => mappedBar[s] = "absent"
         /\ \A t \in TargetNames : t \in Matching(s[1], s[2]) =>
              Matching(s[1], s[2]) = {t} /\ mappedBar[s] = Stage(target[t].life)
<1>1. s[1] \in Names /\ s[2] \in 1..MaxUid
  BY DEF Incarnations
<1>2. mappedBar[s] = MappedOf(s[1], s[2])
  BY DEF mappedBar
<1>3. ASSUME NEW t \in TargetNames, t \in Matching(s[1], s[2])
      PROVE  Matching(s[1], s[2]) = {t}
  BY <1>1, <1>3, ConstantsAssumption DEF Matching, AtMostOneTarget, NoTarget
<1>4. ASSUME NEW t \in TargetNames, t \in Matching(s[1], s[2])
      PROVE  mappedBar[s] = Stage(target[t].life)
  <2>1. Matching(s[1], s[2]) = {t}
    BY <1>3, <1>4
  <2>2. (CHOOSE x \in Matching(s[1], s[2]) : TRUE) = t
    BY <2>1
  <2> QED BY <1>2, <2>1, <2>2 DEF MappedOf, Stage
<1> QED BY <1>2, <1>3, <1>4 DEF MappedOf

LEMMA MatchedAfter ==
  ASSUME TypeOK', AtMostOneTarget', NEW s \in Incarnations
  PROVE  /\ Matching(s[1], s[2])' = {} => mappedBar'[s] = "absent"
         /\ \A t \in TargetNames : t \in Matching(s[1], s[2])' =>
              Matching(s[1], s[2])' = {t} /\ mappedBar'[s] = Stage(target'[t].life)
<1>1. s[1] \in Names /\ s[2] \in 1..MaxUid
  BY DEF Incarnations
<1>2. mappedBar'[s] = MappedOf(s[1], s[2])'
  BY DEF mappedBar
<1>3. ASSUME NEW t \in TargetNames, t \in Matching(s[1], s[2])'
      PROVE  Matching(s[1], s[2])' = {t}
  BY <1>1, <1>3, ConstantsAssumption DEF Matching, AtMostOneTarget, NoTarget
<1>4. ASSUME NEW t \in TargetNames, t \in Matching(s[1], s[2])'
      PROVE  mappedBar'[s] = Stage(target'[t].life)
  <2>1. Matching(s[1], s[2])' = {t}
    BY <1>3, <1>4
  <2>2. (CHOOSE x \in Matching(s[1], s[2])' : TRUE) = t
    BY <2>1
  <2> QED BY <1>2, <2>1, <2>2 DEF MappedOf, Stage
<1> QED BY <1>2, <1>3, <1>4 DEF MappedOf

\* A target Namespace of incarnation u of n is made, altered or vanishes, and
\* nothing else: so does the mapping of that incarnation.
LEMMA TargetMoves ==
  ASSUME TypeOK, TypeOK', AtMostOneTarget, AtMostOneTarget',
         NEW t \in TargetNames, NEW n \in Names, NEW u \in 1..MaxUid,
         \A x \in TargetNames : x # t => target'[x] = target[x],
         target[t] = NoTarget \/ (target[t].name = n /\ target[t].uid = u),
         target'[t] = NoTarget \/ (target'[t].name = n /\ target'[t].uid = u),
         target[t] # NoTarget \/ target'[t] # NoTarget
  PROVE  /\ <<n, u>> \in Incarnations
         /\ mappedBar[<<n, u>>] = Stage(target[t].life)
         /\ mappedBar' = [mappedBar EXCEPT ![<<n, u>>] = Stage(target'[t].life)]
<1> DEFINE s == <<n, u>>
<1>1. s \in Incarnations /\ s[1] = n /\ s[2] = u /\ n # None
  BY ConstantsAssumption DEF Incarnations
<1>2. /\ target[t] # NoTarget <=> t \in Matching(n, u)
      /\ target'[t] # NoTarget <=> t \in Matching(n, u)'
  BY <1>1 DEF Matching, NoTarget
<1>3. \A x \in TargetNames : x # t => (x \in Matching(n, u) <=> x \in Matching(n, u)')
  BY DEF Matching
<1>4. mappedBar[s] = Stage(target[t].life)
  <2>1. CASE target[t] # NoTarget
    BY <1>1, <1>2, <2>1, MatchedBefore
  <2>2. CASE target[t] = NoTarget
    <3>1. Matching(n, u)' = {t}
      BY <1>1, <1>2, <2>2, MatchedAfter
    <3>2. Matching(n, u) = {}
      BY <1>2, <1>3, <2>2, <3>1 DEF Matching
    <3>3. Stage(target[t].life) = "absent"
      BY <2>2 DEF Stage, NoTarget
    <3> QED BY <1>1, <3>2, <3>3, MatchedBefore
  <2> QED BY <2>1, <2>2
<1>5. mappedBar'[s] = Stage(target'[t].life)
  <2>1. CASE target'[t] # NoTarget
    BY <1>1, <1>2, <2>1, MatchedAfter
  <2>2. CASE target'[t] = NoTarget
    <3>1. Matching(n, u) = {t}
      BY <1>1, <1>2, <2>2, MatchedBefore
    <3>2. Matching(n, u)' = {}
      BY <1>2, <1>3, <2>2, <3>1 DEF Matching
    <3>3. Stage(target'[t].life) = "absent"
      BY <2>2 DEF Stage, NoTarget
    <3> QED BY <1>1, <3>2, <3>3, MatchedAfter
  <2> QED BY <2>1, <2>2
<1>6. ASSUME NEW r \in Incarnations, r # s PROVE mappedBar'[r] = mappedBar[r]
  <2>1. r[1] \in Names /\ r[1] # None /\ (r[1] # n \/ r[2] # u)
    BY <1>6, ConstantsAssumption DEF Incarnations
  <2>2. t \notin Matching(r[1], r[2]) /\ t \notin Matching(r[1], r[2])'
    BY <2>1 DEF Matching, NoTarget
  <2>3. Matching(r[1], r[2])' = Matching(r[1], r[2])
    BY <2>2 DEF Matching
  <2>4. CASE Matching(r[1], r[2]) = {}
    BY <2>3, <2>4, MatchedBefore, MatchedAfter
  <2>5. CASE Matching(r[1], r[2]) # {}
    <3>1. PICK x \in TargetNames : x \in Matching(r[1], r[2])
      BY <2>5 DEF Matching
    <3>2. target'[x] = target[x]
      BY <2>2, <3>1
    <3> QED BY <2>3, <3>1, <3>2, MatchedBefore, MatchedAfter
  <2> QED BY <2>4, <2>5
<1>7. /\ mappedBar = [r \in Incarnations |-> mappedBar[r]]
      /\ mappedBar' = [r \in Incarnations |-> mappedBar'[r]]
  BY DEF mappedBar
<1> QED BY <1>1, <1>4, <1>5, <1>6, <1>7

(***************************************************************************)
(* A step that changes one source Namespace.                               *)
(***************************************************************************)
\* Incarnation u of n enters another stage of its life; all others stay.
LEMMA SourceMoves ==
  ASSUME TypeOK, TypeOK', NEW n \in Names, NEW u \in 1..MaxUid,
         \A m \in Names : m # n => src'[m] = src[m],
         src'[n].uid = u,
         src[n].uid = u \/ (src[n].uid + 1 = u /\ src[n].phase = "absent")
  PROVE  /\ <<n, u>> \in Incarnations
         /\ sourceBar[<<n, u>>] = SourceOf(n, u)
         /\ sourceBar' = [sourceBar EXCEPT ![<<n, u>>] = SourceOf(n, u)']
<1>1. <<n, u>> \in Incarnations
  BY DEF Incarnations
<1>2. ASSUME NEW r \in Incarnations, r # <<n, u>> PROVE sourceBar'[r] = sourceBar[r]
  <2>1. r[1] \in Names /\ r[2] \in 1..MaxUid /\ r = <<r[1], r[2]>>
    BY DEF Incarnations
  <2>2. sourceBar'[r] = SourceOf(r[1], r[2])' /\ sourceBar[r] = SourceOf(r[1], r[2])
    BY DEF sourceBar
  <2>3. CASE r[1] # n
    BY <2>1, <2>2, <2>3 DEF SourceOf
  <2>4. CASE r[1] = n
    <3>1. r[2] # u /\ src[n].uid \in Nat /\ u \in Nat /\ r[2] \in Nat
      BY <1>2, <2>1, <2>4 DEF TypeOK, Version
    <3> QED BY <2>2, <2>4, <3>1 DEF SourceOf
  <2> QED BY <2>3, <2>4
<1>3. /\ sourceBar = [r \in Incarnations |-> sourceBar[r]]
      /\ sourceBar' = [r \in Incarnations |-> sourceBar'[r]]
  BY DEF sourceBar
<1>4. sourceBar[<<n, u>>] = SourceOf(n, u) /\ sourceBar'[<<n, u>>] = SourceOf(n, u)'
  BY <1>1 DEF sourceBar
<1> QED BY <1>1, <1>2, <1>3, <1>4

\* What the API server writes.
LEMMA Written ==
  ASSUME TypeOK, NEW n \in Names, NEW u, NEW p, NEW f, WriteSource(n, u, p, f)
  PROVE  /\ src'[n].uid = u /\ src'[n].phase = p
         /\ \A m \in Names : m # n => src'[m] = src[m]
<1>1. PICK v : v.uid = u /\ v.phase = p /\ src' = [src EXCEPT ![n] = v]
  BY DEF WriteSource
<1> QED BY <1>1 DEF TypeOK

LEMMA SourceSteps ==
  ASSUME IInv, IInv', NEW n \in Names,
         CreateSource(n) \/ DeleteSource(n) \/ SourceVanishes(n)
  PROVE  Mapping!MappingNext
<1>1. TypeOK /\ TypeOK' /\ AtMostOneTarget /\ NoOrphan
  BY DEF IInv
<1>2. mappedBar' = mappedBar
  BY TargetsMapped DEF CreateSource, DeleteSource, SourceVanishes, targets
<1>3. src[n].uid \in Nat /\ src[n].uid <= MaxUid /\ (src[n].phase # "absent" => src[n].uid # 0)
  BY <1>1, ConstantsAssumption DEF TypeOK, Version
<1>4. \A m \in Names : m # n => src'[m] = src[m]
  BY <1>1, Written DEF CreateSource, DeleteSource, SourceVanishes
<1>5. CASE CreateSource(n)
  <2>1. PICK u \in 1..MaxUid : u = src[n].uid + 1 /\ src[n].phase = "absent"
    BY <1>3, <1>5, ConstantsAssumption DEF CreateSource
  <2>2. src'[n].uid = u /\ src'[n].phase = "live"
    BY <1>1, <1>5, <2>1, Written DEF CreateSource
  <2>3. SourceOf(n, u) = "unborn" /\ SourceOf(n, u)' = "live"
    BY <1>3, <2>1, <2>2 DEF SourceOf
  <2>4. /\ <<n, u>> \in Incarnations
        /\ sourceBar[<<n, u>>] = "unborn"
        /\ sourceBar' = [sourceBar EXCEPT ![<<n, u>>] = "live"]
    BY <1>1, <1>4, <2>1, <2>2, <2>3, SourceMoves
  <2> QED BY <1>2, <2>4 DEF Mapping!MappingNext, Mapping!Born, Mapping!Live
<1>6. CASE DeleteSource(n)
  <2>1. PICK u \in 1..MaxUid : u = src[n].uid /\ src[n].phase = "live"
    BY <1>3, <1>6 DEF DeleteSource
  <2>2. src'[n].uid = u /\ src'[n].phase = "terminating"
    BY <1>1, <1>6, <2>1, Written DEF DeleteSource
  <2>3. SourceOf(n, u) = "live" /\ SourceOf(n, u)' = "terminating"
    BY <1>3, <2>1, <2>2 DEF SourceOf
  <2>4. /\ <<n, u>> \in Incarnations
        /\ sourceBar[<<n, u>>] = "live"
        /\ sourceBar' = [sourceBar EXCEPT ![<<n, u>>] = "terminating"]
    BY <1>1, <1>4, <2>1, <2>2, <2>3, SourceMoves
  <2> QED BY <1>2, <2>4 DEF Mapping!MappingNext, Mapping!Terminate, Mapping!Live
<1>7. CASE SourceVanishes(n)
  <2>1. PICK u \in 1..MaxUid : u = src[n].uid /\ src[n].phase = "terminating" /\ ~src[n].fin
    BY <1>3, <1>7 DEF SourceVanishes
  <2>2. src'[n].uid = u /\ src'[n].phase = "absent"
    BY <1>1, <1>7, <2>1, Written DEF SourceVanishes
  <2>3. SourceOf(n, u) = "terminating" /\ SourceOf(n, u)' = "gone"
    BY <1>3, <2>1, <2>2 DEF SourceOf
  <2>4. /\ <<n, u>> \in Incarnations
        /\ sourceBar[<<n, u>>] = "terminating"
        /\ sourceBar' = [sourceBar EXCEPT ![<<n, u>>] = "gone"]
    BY <1>1, <1>4, <2>1, <2>2, <2>3, SourceMoves
  <2>5. Matching(n, u) = {}
    BY <1>1, <2>1, ConstantsAssumption DEF NoOrphan, Matching, NoTarget
  <2>6. mappedBar[<<n, u>>] = "absent"
    BY <1>1, <2>4, <2>5, MatchedBefore
  <2> QED BY <1>2, <2>4, <2>6 DEF Mapping!MappingNext, Mapping!Go, Mapping!Live
<1> QED BY <1>5, <1>6, <1>7

(***************************************************************************)
(* The steps that change a target Namespace.                               *)
(***************************************************************************)
LEMMA CreateMaps ==
  ASSUME IInv, IInv', CreateTarget
  PROVE  Mapping!MappingNext
<1>1. TypeOK /\ TypeOK' /\ AtMostOneTarget /\ AtMostOneTarget' /\ NoOrphan'
  BY DEF IInv
<1>2. src' = src
  BY DEF CreateTarget, source
<1>3. PICK n \in Names, u \in 1..MaxUid : Generate(n, u)
  <2>1. cur \in Names /\ copy.uid \in 1..MaxUid
    BY <1>1 DEF CreateTarget, TypeOK, Version
  <2> QED BY <2>1 DEF CreateTarget
<1>4. PICK t \in TargetNames :
        /\ target[t] = NoTarget
        /\ target' = [target EXCEPT ![t] = [name |-> n, uid |-> u, life |-> "present"]]
  BY <1>3 DEF Generate
<1>5. /\ target'[t] = [name |-> n, uid |-> u, life |-> "present"]
      /\ target'[t] # NoTarget
      /\ \A x \in TargetNames : x # t => target'[x] = target[x]
  BY <1>1, <1>4 DEF TypeOK, NoTarget
<1>6. Stage(target[t].life) = "absent" /\ Stage(target'[t].life) = "present"
  BY <1>4, <1>5 DEF Stage, NoTarget
<1>7. /\ <<n, u>> \in Incarnations
      /\ mappedBar[<<n, u>>] = "absent"
      /\ mappedBar' = [mappedBar EXCEPT ![<<n, u>>] = "present"]
  BY <1>1, <1>4, <1>5, <1>6, TargetMoves
<1>8. src[n].uid = u /\ src[n].phase \in {"live", "terminating"}
  <2>1. src'[n].phase # "absent" /\ src'[n].uid = u
    BY <1>1, <1>5 DEF NoOrphan
  <2> QED BY <1>1, <1>2, <2>1 DEF TypeOK, Version
<1>9. sourceBar[<<n, u>>] \in {"live", "terminating"}
  <2>1. sourceBar[<<n, u>>] = SourceOf(n, u)
    BY <1>7 DEF sourceBar
  <2> QED BY <1>8, <2>1 DEF SourceOf
<1>10. sourceBar' = sourceBar
  BY <1>2, SourcesMapped DEF SameSources
<1> QED BY <1>7, <1>9, <1>10 DEF Mapping!MappingNext, Mapping!Provide, Mapping!Turn

\* A target Namespace is deleted, by the brokerlet or others, or vanishes.
LEMMA TargetMaps ==
  ASSUME IInv, IInv', [Next]_vars, NEW t \in TargetNames,
         \/ DeleteTarget /\ t = found /\ target[t] # NoTarget
         \/ EvictTarget(t) \/ TargetVanishes(t)
  PROVE  Mapping!MappingNext \/ target' = target
<1>1. TypeOK /\ TypeOK' /\ AtMostOneTarget /\ AtMostOneTarget'
  BY DEF IInv
<1>2. src' = src
  BY DEF DeleteTarget, EvictTarget, TargetVanishes, source
<1>3. sourceBar' = sourceBar
  BY <1>2, SourcesMapped DEF SameSources
<1>4. target[t] \in Target
  BY <1>1 DEF TypeOK, EvictTarget, TargetVanishes, NoTarget
<1>5. PICK n \in Names, u \in 1..MaxUid : target[t].name = n /\ target[t].uid = u
  BY <1>4 DEF Target
<1>6. target[t] # NoTarget
  BY <1>5, ConstantsAssumption DEF NoTarget
<1>7. ASSUME NEW l \in {"deleted", "evicted"}, target' = [target EXCEPT ![t].life = l]
      PROVE  /\ target'[t].life = l
             /\ <<n, u>> \in Incarnations
             /\ mappedBar[<<n, u>>] = Stage(target[t].life)
             /\ mappedBar' = [mappedBar EXCEPT ![<<n, u>>] = Stage(l)]
  <2>1. target'[t] = [target[t] EXCEPT !.life = l]
    BY <1>1, <1>7 DEF TypeOK
  <2>2. /\ \A x \in TargetNames : x # t => target'[x] = target[x]
        /\ target'[t].name = n /\ target'[t].uid = u /\ target'[t].life = l
    BY <1>1, <1>4, <1>5, <1>7, <2>1 DEF TypeOK, Target
  <2> QED BY <1>1, <1>5, <1>6, <2>2, TargetMoves
<1>8. CASE DeleteTarget /\ t = found
  <2>1. CASE target[t].life = "present" /\ target' = [target EXCEPT ![t].life = "deleted"]
    <3>1. /\ target'[t].life = "deleted"
          /\ <<n, u>> \in Incarnations
          /\ mappedBar[<<n, u>>] = "present"
          /\ mappedBar' = [mappedBar EXCEPT ![<<n, u>>] = "retired"]
      BY <1>7, <2>1 DEF Stage
    <3>2. src[n].phase = "terminating" /\ src[n].uid = u
      BY <1>5, <2>1, <3>1, DeletedWithSource
    <3>3. sourceBar[<<n, u>>] = "terminating"
      <4>1. sourceBar[<<n, u>>] = SourceOf(n, u)
        BY <3>1 DEF sourceBar
      <4> QED BY <3>2, <4>1 DEF SourceOf
    <3> QED BY <1>3, <3>1, <3>3 DEF Mapping!MappingNext, Mapping!Retire, Mapping!Turn
  <2> QED BY <1>6, <1>8, <2>1 DEF DeleteTarget
<1>9. CASE EvictTarget(t)
  <2>1. target[t].life = "present" /\ target' = [target EXCEPT ![t].life = "evicted"]
    BY <1>9 DEF EvictTarget
  <2>2. /\ <<n, u>> \in Incarnations
        /\ mappedBar[<<n, u>>] = "present"
        /\ mappedBar' = [mappedBar EXCEPT ![<<n, u>>] = "evicted"]
    BY <1>7, <2>1 DEF Stage
  <2> QED BY <1>3, <2>2 DEF Mapping!MappingNext, Mapping!Evict, Mapping!Turn
<1>10. CASE TargetVanishes(t)
  <2>1. target[t].life \in {"deleted", "evicted"} /\ target' = [target EXCEPT ![t] = NoTarget]
    BY <1>10 DEF TargetVanishes
  <2>2. /\ target'[t] = NoTarget
        /\ \A x \in TargetNames : x # t => target'[x] = target[x]
    BY <1>1, <2>1 DEF TypeOK
  <2>3. Stage(target[t].life) \in {"retired", "evicted"} /\ Stage(target'[t].life) = "absent"
    BY <2>1, <2>2 DEF Stage, NoTarget
  <2>4. /\ <<n, u>> \in Incarnations
        /\ mappedBar[<<n, u>>] \in {"retired", "evicted"}
        /\ mappedBar' = [mappedBar EXCEPT ![<<n, u>>] = "absent"]
    BY <1>1, <1>5, <1>6, <2>2, <2>3, TargetMoves
  <2> QED BY <1>3, <2>4 DEF Mapping!MappingNext, Mapping!Vanish, Mapping!Turn
<1> QED BY <1>8, <1>9, <1>10

(***************************************************************************)
(* The steps that change neither.                                          *)
(***************************************************************************)
LEMMA Stutters ==
  ASSUME TypeOK, SameSources, target' = target
  PROVE  UNCHANGED Mapping!mapping
BY SourcesMapped, TargetsMapped DEF Mapping!mapping

\* The patch of a finalizer keeps the phase.
LEMMA PatchesKeepPhase ==
  ASSUME TypeOK, NEW n \in Names, NEW f \in BOOLEAN, PatchFinalizer(n, f)
  PROVE  SameSources
<1>1. CASE src[n].fin = f
  BY <1>1 DEF PatchFinalizer, source, SameSources
<1>2. CASE src[n].fin # f
  BY <1>2, Written DEF PatchFinalizer, SameSources
<1> QED BY <1>1, <1>2

LEMMA QuietMaps ==
  ASSUME TypeOK,
         \/ \E n \in Names : Begin(n) \/ ObserveSource(n) \/ ObserveTarget(n)
         \/ List \/ CheckReferenced \/ EnsureNoFinalizer \/ EnsureFinalizer \/ KeepFinalizer
         \/ NameTaken \/ ListForDelete \/ RemoveFinalizer \/ CreateTimesOut \/ CallFails
         \/ Restart
         \/ DeleteTarget /\ target[found] = NoTarget
         \/ \E n \in Names, r \in Referents :
              \/ ObserveReferent(n, r)
              \/ CreateReferent(n, r) \/ ScheduleReferent(n, r) \/ DeleteReferent(n, r)
         \/ UNCHANGED vars
  PROVE  UNCHANGED Mapping!mapping
<1>1. CASE EnsureFinalizer \/ KeepFinalizer \/ RemoveFinalizer
  <2>1. target' = target
    BY <1>1 DEF EnsureFinalizer, KeepFinalizer, RemoveFinalizer, targets
  <2>2. cur \in Names
    BY <1>1 DEF EnsureFinalizer, KeepFinalizer, RemoveFinalizer, TypeOK
  <2>3. UNCHANGED source \/ \E f \in BOOLEAN : PatchFinalizer(cur, f)
    BY <1>1 DEF EnsureFinalizer, KeepFinalizer, RemoveFinalizer
  <2>4. SameSources
    BY <2>2, <2>3, PatchesKeepPhase DEF source, SameSources
  <2> QED BY <2>1, <2>4, Stutters
<1>2. CASE src' = src /\ target' = target
  BY <1>2, Stutters DEF SameSources
<1>3. ASSUME \E n \in Names : Begin(n) \/ ObserveSource(n) \/ ObserveTarget(n)
      PROVE  src' = src /\ target' = target
  BY <1>3 DEF Begin, ObserveSource, ObserveTarget, source, targets
<1>4. ASSUME \/ List \/ CheckReferenced \/ EnsureNoFinalizer \/ NameTaken \/ ListForDelete
             \/ CreateTimesOut \/ CallFails \/ Restart \/ UNCHANGED vars
      PROVE  src' = src /\ target' = target
  BY <1>4 DEF List, CheckReferenced, EnsureNoFinalizer, NameTaken, ListForDelete, CreateTimesOut,
              CallFails, Restart, vars, source, targets
<1>5. ASSUME DeleteTarget, target[found] = NoTarget
      PROVE  src' = src /\ target' = target
  BY <1>5 DEF DeleteTarget, source, NoTarget
<1>6. ASSUME \E n \in Names, r \in Referents :
               \/ ObserveReferent(n, r)
               \/ CreateReferent(n, r) \/ ScheduleReferent(n, r) \/ DeleteReferent(n, r)
      PROVE  src' = src /\ target' = target
  BY <1>6 DEF ObserveReferent, CreateReferent, ScheduleReferent, DeleteReferent, Assign,
              source, targets
<1> QED BY <1>1, <1>2, <1>3, <1>4, <1>5, <1>6

(***************************************************************************)
(* The refinement.                                                         *)
(***************************************************************************)
LEMMA InitMaps ==
  ASSUME Init, TypeOK
  PROVE  Mapping!MappingInit
<1>1. ASSUME NEW s \in Incarnations PROVE sourceBar[s] = "unborn" /\ mappedBar[s] = "absent"
  <2>1. s[1] \in Names /\ s[2] \in 1..MaxUid /\ s[1] # None
    BY ConstantsAssumption DEF Incarnations
  <2>2. SourceOf(s[1], s[2]) = "unborn"
    BY <2>1 DEF Init, SourceOf, NoVersion
  <2>3. MappedOf(s[1], s[2]) = "absent"
    BY <2>1 DEF Init, MappedOf, Matching, NoTarget
  <2> QED BY <2>2, <2>3 DEF sourceBar, mappedBar
<1> QED BY <1>1 DEF Mapping!MappingInit, sourceBar, mappedBar

LEMMA StepMaps ==
  ASSUME Mishaps = {}, IInv, IInv', [Next]_vars
  PROVE  [Mapping!MappingNext]_(Mapping!mapping)
<1>1. TypeOK /\ late = {}
  BY DEF IInv
<1>2. CASE \E n \in Names : CreateSource(n) \/ DeleteSource(n) \/ SourceVanishes(n)
  BY <1>2, SourceSteps
<1>3. CASE CreateTarget
  BY <1>3, CreateMaps
<1>4. CASE \E t \in TargetNames :
             \/ DeleteTarget /\ t = found /\ target[t] # NoTarget
             \/ EvictTarget(t) \/ TargetVanishes(t)
  <2>1. SameSources
    BY <1>4 DEF DeleteTarget, EvictTarget, TargetVanishes, source, SameSources
  <2> QED BY <1>1, <1>4, <2>1, TargetMaps, Stutters
<1>5. CASE DeleteTarget
  <2>1. found \in TargetNames
    BY <1>1, <1>5 DEF DeleteTarget, TypeOK
  <2> QED BY <1>1, <1>4, <1>5, <2>1, QuietMaps
<1>6. CASE (\E l \in late : LateCreate(l)) \/ (\E n \in Names : StripFinalizer(n))
  BY <1>1, <1>6 DEF StripFinalizer
<1>7. CASE UNCHANGED vars
  BY <1>1, <1>7, QuietMaps
<1> QED BY <1>1, <1>2, <1>3, <1>4, <1>5, <1>6, <1>7, QuietMaps DEF Next, Work

\* Whatever the reconciler, the informers and the two clusters do, the target
\* Namespaces come and go as the mapping of source to target Namespaces allows.
THEOREM Refines ==
  ASSUME Mishaps = {}
  PROVE  Spec => ImplementsMapping
<1>1. Init /\ TypeOK => Mapping!MappingInit
  BY InitMaps
<1>2. IInv /\ IInv' /\ [Next]_vars => [Mapping!MappingNext]_(Mapping!mapping)
  BY StepMaps
<1> QED BY <1>1, <1>2, TypeCorrect, InvariantHolds, PTL
      DEF Spec, ImplementsMapping, Mapping!MappingSpec
==============================================================================
