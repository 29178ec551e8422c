----------------------- MODULE NamespaceBrokerProofs -----------------------
(***************************************************************************)
(* Theorems about the Namespace reconciler, for every set of names,        *)
(* referents and target names, every number of incarnations and of faults: *)
(* the types hold; and, when Mishaps is empty, IInv is inductive, and with *)
(* it AtMostOneTarget, NoOrphan and DeletesOnlyWithSource hold.            *)
(***************************************************************************)
EXTENDS NamespaceInvariant, TLAPS

(***************************************************************************)
(* Type correctness.                                                       *)
(***************************************************************************)
\* A version written by the API server is a version.
SourceOK ==
  /\ src \in [Names -> Version]
  /\ feed \in [Names -> SUBSET Version]
  /\ seen \in [Names -> Version]

LEMMA WriteSourceType ==
  ASSUME TypeOK, NEW n \in Names, NEW u \in 0..MaxUid,
         NEW p \in {"absent", "live", "terminating"}, NEW f \in BOOLEAN,
         p # "absent" => u # 0,
         WriteSource(n, u, p, f)
  PROVE  SourceOK'
<1> DEFINE v == [uid |-> u, phase |-> p, fin |-> f, rv |-> src[n].rv + 1]
<1>1. v \in Version
  BY DEF TypeOK, Version
<1>2. /\ src' = [src EXCEPT ![n] = v]
      /\ feed' = [feed EXCEPT ![n] = feed[n] \cup {v}]
      /\ seen' = seen
  BY DEF WriteSource
<1> HIDE DEF v
<1>3. src' \in [Names -> Version] /\ seen' \in [Names -> Version]
  BY <1>1, <1>2 DEF TypeOK
<1>4. feed' \in [Names -> SUBSET Version]
  BY <1>1, <1>2 DEF TypeOK
<1> QED BY <1>3, <1>4 DEF SourceOK

\* A merge patch of the finalizers leaves a version.
LEMMA PatchFinalizerType ==
  ASSUME TypeOK, NEW n \in Names, NEW f \in BOOLEAN, PatchFinalizer(n, f)
  PROVE  SourceOK'
<1>1. /\ src[n].uid \in 0..MaxUid
      /\ src[n].phase \in {"absent", "live", "terminating"}
      /\ src[n].phase # "absent" => src[n].uid # 0
  BY DEF TypeOK, Version
<1>2. CASE src[n].fin = f
  BY <1>2 DEF PatchFinalizer, source, TypeOK, SourceOK
<1>3. CASE src[n].fin # f
  BY <1>1, <1>3, WriteSourceType DEF PatchFinalizer
<1> QED BY <1>2, <1>3

\* Ending a pass, or going on to the next call, keeps the worker well typed.
WorkerOK ==
  /\ queue \subseteq Names
  /\ pc \in {"idle"} \cup ReconcileSteps \cup DeleteSteps
  /\ cur \in Names \cup {None}
  /\ copy \in Version
  /\ found \in TargetNames \cup {None}
  /\ pc # "idle" => cur # None /\ copy.phase # "absent"
  /\ pc = "ddelete" => found # None

LEMMA WorkerType ==
  ASSUME TypeOK, pc # "idle",
         \/ Done \/ Retry
         \/ \E s \in (ReconcileSteps \cup DeleteSteps) \ {"ddelete"} :
              Goto(s) /\ found' = None
         \/ Goto("ddelete") /\ found' \in TargetNames
  PROVE  WorkerOK'
<1>1. NoVersion \in Version
  BY ConstantsAssumption DEF NoVersion, Version
<1>2. cur \in Names /\ copy.phase # "absent"
  BY DEF TypeOK
<1>3. CASE Done \/ Retry
  BY <1>1, <1>2, <1>3 DEF Done, Retry, Finish, TypeOK, WorkerOK
<1>4. CASE \E s \in (ReconcileSteps \cup DeleteSteps) \ {"ddelete"} :
             Goto(s) /\ found' = None
  BY <1>2, <1>4 DEF Goto, TypeOK, WorkerOK
<1>5. CASE Goto("ddelete") /\ found' \in TargetNames
  BY <1>2, <1>5, ConstantsAssumption DEF Goto, TypeOK, WorkerOK, DeleteSteps
<1> QED BY <1>3, <1>4, <1>5

\* A fault is counted within its bound.
LEMMA FaultType ==
  ASSUME TypeOK, Fault \/ UNCHANGED faults
  PROVE  faults' \in 0..MaxFaults
BY ConstantsAssumption DEF TypeOK, Fault

\* A generated target Namespace is a target Namespace.
LEMMA GenerateType ==
  ASSUME TypeOK, NEW n \in Names, NEW u \in 1..MaxUid, Generate(n, u)
  PROVE  /\ target' \in [TargetNames -> Target \cup {NoTarget}]
         /\ tEvents' \subseteq Names
<1>1. PICK t \in TargetNames :
        target' = [target EXCEPT ![t] = [name |-> n, uid |-> u, life |-> "present"]]
  BY DEF Generate
<1>2. [name |-> n, uid |-> u, life |-> "present"] \in Target
  BY DEF Target
<1>3. target' \in [TargetNames -> Target \cup {NoTarget}]
  BY <1>1, <1>2 DEF TypeOK
<1>4. tEvents' \subseteq Names
  BY DEF Generate, TypeOK
<1> QED BY <1>3, <1>4

\* TypeOK, part by part; an action leaves most parts alone.
ReferentsOK ==
  /\ refs \in [Names -> [Referents -> Assignment]]
  /\ seenRefs \in [Names -> [Referents -> Assignment]]

TargetsOK ==
  /\ target \in [TargetNames -> Target \cup {NoTarget}]
  /\ tEvents \subseteq Names
  /\ late \subseteq Names \X (1..MaxUid)

TypeParts ==
  SourceOK /\ ReferentsOK /\ TargetsOK /\ WorkerOK /\ faults \in 0..MaxFaults

LEMMA TypeOKParts == TypeOK <=> TypeParts
BY DEF TypeParts, TypeOK, SourceOK, ReferentsOK, TargetsOK, WorkerOK

LEMMA UnchangedType ==
  /\ SourceOK /\ UNCHANGED source => SourceOK'
  /\ ReferentsOK /\ UNCHANGED referents => ReferentsOK'
  /\ TargetsOK /\ UNCHANGED targets => TargetsOK'
  /\ WorkerOK /\ UNCHANGED worker /\ queue' \subseteq Names => WorkerOK'
BY DEF SourceOK, ReferentsOK, TargetsOK, WorkerOK, source, referents, targets, worker

THEOREM TypeCorrect == Spec => []TypeOK
<1>1. Init => TypeOK
  <2> SUFFICES ASSUME Init PROVE TypeOK
    OBVIOUS
  <2>1. NoVersion \in Version
    BY ConstantsAssumption DEF NoVersion, Version
  <2>2. faults \in 0..MaxFaults
    BY ConstantsAssumption DEF Init
  <2> QED BY <2>1, <2>2 DEF Init, TypeOK, Assignment
<1>2. TypeParts /\ [Next]_vars => TypeParts'
  <2> SUFFICES ASSUME TypeParts, [Next]_vars PROVE TypeParts'
    OBVIOUS
  <2> USE DEF TypeParts
  <2>0. TypeOK /\ SourceOK /\ ReferentsOK /\ TargetsOK /\ WorkerOK
    BY TypeOKParts
  <2>1. ASSUME NEW n \in Names, Begin(n) PROVE TypeParts'
    <3>1. SourceOK' /\ ReferentsOK' /\ TargetsOK' /\ faults' \in 0..MaxFaults
      BY <2>0, <2>1, UnchangedType DEF Begin
    <3>2. queue' \subseteq Names
      BY <2>0, <2>1 DEF Begin, WorkerOK
    <3>3. CASE UNCHANGED worker
      BY <2>0, <3>1, <3>2, <3>3, UnchangedType
    <3>4. CASE /\ pc' \in {"list", "dlist"} /\ seen[n].phase # "absent"
               /\ cur' = n /\ copy' = seen[n] /\ found' = None
      <4>1. WorkerOK'
        BY <2>0, <3>2, <3>4, ConstantsAssumption
           DEF WorkerOK, SourceOK, ReconcileSteps, DeleteSteps
      <4> QED BY <3>1, <4>1
    <3> QED BY <2>1, <3>3, <3>4 DEF Begin
  <2>2. CASE List
    <3>1. WorkerOK'
      BY <2>0, <2>2, WorkerType DEF List, ReconcileSteps, DeleteSteps
    <3> QED BY <2>0, <2>2, <3>1, UnchangedType DEF List
  <2>3. CASE CheckReferenced
    <3>1. WorkerOK'
      BY <2>0, <2>3, WorkerType DEF CheckReferenced, ReconcileSteps, DeleteSteps
    <3> QED BY <2>0, <2>3, <3>1, UnchangedType DEF CheckReferenced
  <2>4. CASE EnsureNoFinalizer
    <3>1. WorkerOK'
      BY <2>0, <2>4, WorkerType DEF EnsureNoFinalizer
    <3> QED BY <2>0, <2>4, <3>1, UnchangedType DEF EnsureNoFinalizer
  <2>5. CASE EnsureFinalizer
    <3>1. WorkerOK'
      BY <2>0, <2>5, WorkerType DEF EnsureFinalizer, ReconcileSteps, DeleteSteps
    <3>2. SourceOK'
      BY <2>0, <2>5, PatchFinalizerType, UnchangedType DEF EnsureFinalizer, WorkerOK
    <3> QED BY <2>0, <2>5, <3>1, <3>2, UnchangedType DEF EnsureFinalizer
  <2>6. CASE CreateTarget
    <3>1. WorkerOK' /\ faults' \in 0..MaxFaults
      BY <2>0, <2>6, WorkerType, FaultType DEF CreateTarget, DoneOrReplyLost
    <3>2. cur \in Names /\ copy.uid \in 1..MaxUid
      BY <2>0, <2>6 DEF CreateTarget, WorkerOK, Version
    <3>3. TargetsOK'
      BY <2>0, <2>6, <3>2, GenerateType DEF CreateTarget, TargetsOK
    <3> QED BY <2>0, <2>6, <3>1, <3>3, UnchangedType DEF CreateTarget
  <2>7. CASE CreateTimesOut
    <3>1. WorkerOK' /\ faults' \in 0..MaxFaults
      BY <2>0, <2>7, WorkerType, FaultType DEF CreateTimesOut
    <3>2. cur \in Names /\ copy.uid \in 1..MaxUid
      BY <2>0, <2>7 DEF CreateTimesOut, WorkerOK, Version
    <3>3. TargetsOK'
      BY <2>0, <2>7, <3>2 DEF CreateTimesOut, TargetsOK
    <3> QED BY <2>0, <2>7, <3>1, <3>3, UnchangedType DEF CreateTimesOut
  <2>8. CASE KeepFinalizer
    <3>1. WorkerOK' /\ faults' \in 0..MaxFaults
      BY <2>0, <2>8, WorkerType, FaultType DEF KeepFinalizer, DoneOrReplyLost
    <3>2. SourceOK'
      BY <2>0, <2>8, PatchFinalizerType, UnchangedType DEF KeepFinalizer, WorkerOK
    <3> QED BY <2>0, <2>8, <3>1, <3>2, UnchangedType DEF KeepFinalizer
  <2>9. CASE ListForDelete
    <3>1. WorkerOK'
      BY <2>0, <2>9, WorkerType DEF ListForDelete, ReconcileSteps, DeleteSteps, Matching
    <3> QED BY <2>0, <2>9, <3>1, UnchangedType DEF ListForDelete
  <2>10. CASE DeleteTarget
    <3>1. WorkerOK'
      BY <2>0, <2>10, WorkerType DEF DeleteTarget, ReconcileSteps, DeleteSteps
    <3>2. found \in TargetNames
      BY <2>0, <2>10 DEF DeleteTarget, WorkerOK
    <3>3. CASE UNCHANGED <<target, tEvents>>
      BY <2>0, <2>10, <3>1, <3>3, UnchangedType DEF DeleteTarget, targets
    <3>4. CASE /\ target[found].life = "present"
               /\ target' = [target EXCEPT ![found].life = "deleted"]
               /\ tEvents' = tEvents \cup {target[found].name}
      <4>1. target[found] \in Target
        BY <2>0, <3>2, <3>4 DEF TargetsOK, NoTarget
      <4>2. TargetsOK'
        BY <2>0, <2>10, <3>2, <3>4, <4>1 DEF TargetsOK, Target, DeleteTarget
      <4> QED BY <2>0, <2>10, <3>1, <4>2, UnchangedType DEF DeleteTarget
    <3> QED BY <2>10, <3>3, <3>4 DEF DeleteTarget
  <2>11. CASE RemoveFinalizer
    <3>1. WorkerOK' /\ faults' \in 0..MaxFaults
      BY <2>0, <2>11, WorkerType, FaultType DEF RemoveFinalizer, DoneOrReplyLost
    <3>2. SourceOK'
      BY <2>0, <2>11, PatchFinalizerType, UnchangedType DEF RemoveFinalizer, WorkerOK
    <3> QED BY <2>0, <2>11, <3>1, <3>2, UnchangedType DEF RemoveFinalizer
  <2>12. CASE CallFails
    <3>1. WorkerOK' /\ faults' \in 0..MaxFaults
      BY <2>0, <2>12, WorkerType, FaultType DEF CallFails
    <3> QED BY <2>0, <2>12, <3>1, UnchangedType DEF CallFails
  <2>13. CASE Restart
    <3>1. faults' \in 0..MaxFaults
      BY <2>0, <2>13, FaultType DEF Restart
    <3>2. SourceOK' /\ ReferentsOK'
      BY <2>0, <2>13 DEF Restart, SourceOK, ReferentsOK
    <3>3. \A t \in TargetNames : target[t] # NoTarget => target[t].name \in Names
      BY <2>0 DEF TargetsOK, Target
    <3>4. queue' \subseteq Names
      BY <2>13, <3>3 DEF Restart
    <3>5. NoVersion \in Version
      BY ConstantsAssumption DEF NoVersion, Version
    <3>6. WorkerOK'
      BY <2>13, <3>4, <3>5 DEF Restart, Finish, WorkerOK
    <3>7. TargetsOK'
      BY <2>0, <2>13 DEF Restart, TargetsOK
    <3> QED BY <3>1, <3>2, <3>6, <3>7
  <2>14. ASSUME NEW n \in Names, ObserveSource(n) PROVE TypeParts'
    <3>1. SourceOK' /\ queue' \subseteq Names
      BY <2>0, <2>14 DEF ObserveSource, SourceOK, WorkerOK
    <3> QED BY <2>0, <2>14, <3>1, UnchangedType DEF ObserveSource
  <2>15. ASSUME NEW n \in Names, ObserveTarget(n) PROVE TypeParts'
    <3>1. TargetsOK' /\ queue' \subseteq Names
      BY <2>0, <2>15 DEF ObserveTarget, TargetsOK, WorkerOK
    <3> QED BY <2>0, <2>15, <3>1, UnchangedType DEF ObserveTarget
  <2>16. ASSUME NEW n \in Names, NEW r \in Referents, ObserveReferent(n, r) PROVE TypeParts'
    <3>1. ReferentsOK' /\ queue' \subseteq Names
      BY <2>0, <2>16 DEF ObserveReferent, ReferentsOK, WorkerOK
    <3> QED BY <2>0, <2>16, <3>1, UnchangedType DEF ObserveReferent
  <2>17. ASSUME NEW n \in Names, CreateSource(n) PROVE TypeParts'
    <3>1. src[n].uid + 1 \in 0..MaxUid /\ src[n].uid + 1 # 0
      BY <2>0, <2>17, ConstantsAssumption DEF CreateSource, SourceOK, Version
    <3>2. SourceOK'
      BY <2>0, <2>17, <3>1, WriteSourceType DEF CreateSource
    <3> QED BY <2>0, <2>17, <3>2, UnchangedType DEF CreateSource, WorkerOK
  <2>18. ASSUME NEW n \in Names, DeleteSource(n) \/ SourceVanishes(n) PROVE TypeParts'
    <3>1. /\ src[n].uid \in 0..MaxUid /\ src[n].fin \in BOOLEAN
          /\ src[n].phase # "absent" => src[n].uid # 0
      BY <2>0 DEF SourceOK, Version
    <3>2. CASE DeleteSource(n)
      <4>1. src[n].uid # 0 /\ WriteSource(n, src[n].uid, "terminating", src[n].fin)
        BY <3>1, <3>2 DEF DeleteSource
      <4>2. SourceOK'
        BY <2>0, <3>1, <4>1, WriteSourceType
      <4> QED BY <2>0, <3>2, <4>2, UnchangedType DEF DeleteSource, WorkerOK
    <3>3. CASE SourceVanishes(n)
      <4>1. WriteSource(n, src[n].uid, "absent", FALSE)
        BY <3>3 DEF SourceVanishes
      <4>2. SourceOK'
        BY <2>0, <3>1, <4>1, WriteSourceType
      <4> QED BY <2>0, <3>3, <4>2, UnchangedType DEF SourceVanishes, WorkerOK
    <3> QED BY <2>18, <3>2, <3>3
  <2>19. ASSUME NEW n \in Names, NEW r \in Referents,
                CreateReferent(n, r) \/ ScheduleReferent(n, r) \/ DeleteReferent(n, r)
         PROVE  TypeParts'
    <3>1. PICK a \in Assignment : Assign(n, r, a)
      BY <2>19 DEF CreateReferent, ScheduleReferent, DeleteReferent, Assignment
    <3>2. ReferentsOK'
      BY <2>0, <3>1 DEF Assign, ReferentsOK
    <3> QED BY <2>0, <3>1, <3>2, UnchangedType DEF Assign, WorkerOK
  <2>20. ASSUME NEW t \in TargetNames, EvictTarget(t) \/ TargetVanishes(t) PROVE TypeParts'
    <3>1. faults' \in 0..MaxFaults
      BY <2>0, <2>20, FaultType DEF EvictTarget, TargetVanishes
    <3>2. target[t] \in Target
      BY <2>0, <2>20 DEF EvictTarget, TargetVanishes, TargetsOK, NoTarget
    <3>3. target' \in [TargetNames -> Target \cup {NoTarget}]
      BY <2>0, <2>20, <3>2 DEF EvictTarget, TargetVanishes, TargetsOK, Target
    <3>4. TargetsOK'
      BY <2>0, <2>20, <3>2, <3>3 DEF EvictTarget, TargetVanishes, TargetsOK, Target
    <3> QED BY <2>0, <2>20, <3>1, <3>4, UnchangedType DEF EvictTarget, TargetVanishes, WorkerOK
  <2>21. ASSUME NEW l \in late, LateCreate(l) PROVE TypeParts'
    <3>1. l[1] \in Names /\ l[2] \in 1..MaxUid
      BY <2>0 DEF TargetsOK
    <3>2. TargetsOK'
      BY <2>0, <2>21, <3>1, GenerateType DEF LateCreate, TargetsOK
    <3> QED BY <2>0, <2>21, <3>2, UnchangedType DEF LateCreate, WorkerOK
  <2>22. ASSUME NEW n \in Names, StripFinalizer(n) PROVE TypeParts'
    <3>1. /\ src[n].uid \in 0..MaxUid
          /\ src[n].phase \in {"absent", "live", "terminating"}
          /\ src[n].phase # "absent" => src[n].uid # 0
      BY <2>0 DEF SourceOK, Version
    <3>2. SourceOK' /\ faults' \in 0..MaxFaults
      BY <2>0, <2>22, <3>1, WriteSourceType, FaultType DEF StripFinalizer
    <3> QED BY <2>0, <2>22, <3>2, UnchangedType DEF StripFinalizer, WorkerOK
  <2>23. CASE NameTaken
    <3>1. WorkerOK'
      BY <2>0, <2>23, WorkerType DEF NameTaken
    <3> QED BY <2>0, <2>23, <3>1, UnchangedType DEF NameTaken
  <2>24. CASE UNCHANGED vars
    BY <2>0, <2>24, UnchangedType
       DEF vars, source, referents, targets, worker, WorkerOK
  <2> QED
    BY <2>1, <2>2, <2>3, <2>4, <2>5, <2>6, <2>7, <2>8, <2>9, <2>10, <2>11, <2>12, <2>13,
       <2>14, <2>15, <2>16, <2>17, <2>18, <2>19, <2>20, <2>21, <2>22, <2>23, <2>24
       DEF Next, Work
<1> QED BY <1>1, <1>2, TypeOKParts, PTL DEF Spec

(***************************************************************************)
(* The versions of one source Namespace.                                   *)
(***************************************************************************)
\* The reconciler starts a pass, or ends one.
LEMMA CoherentRead ==
  ASSUME NEW s \in Version, NEW F \in SUBSET Version, NEW c \in Version, NEW h \in Version,
         Coherent(s, F, c, h)
  PROVE  Coherent(s, F, c, c) /\ h.uid <= c.uid
<1>1. Views(F, c, c) \subseteq Views(F, c, h) /\ c \in Views(F, c, h) /\ h \in Views(F, c, h)
  BY DEF Views
<1>2. h = c \/ Follows(c, h)
  BY <1>1 DEF Coherent, Ordered, Version
<1>3. \A u \in 0..MaxUid : Passed(h, u) => Passed(c, u)
  BY <1>2 DEF Follows, Passed, Version
<1>4. FinalizerKept(s, F, c, c)
  BY <1>1, <1>3 DEF Coherent, FinalizerKept, Views, Version
<1>5. Ordered(s, F, c, c)
  BY <1>1 DEF Coherent, Ordered, Version
<1>6. StaleRemovalHarmless(F, c, c)
  BY <1>1 DEF Coherent, StaleRemovalHarmless
<1>7. h.uid <= c.uid
  BY <1>2 DEF Follows, Version
<1> QED BY <1>4, <1>5, <1>6, <1>7 DEF Coherent

\* The cache moves on to a version the informer had not delivered.
LEMMA CoherentObserve ==
  ASSUME NEW s \in Version, NEW F \in SUBSET Version, NEW c \in Version, NEW h \in Version,
         Coherent(s, F, c, h), NEW v \in F
  PROVE  Coherent(s, {w \in F : w.rv > v.rv}, v, h)
<1> DEFINE G == {w \in F : w.rv > v.rv}
<1>1. Views(G, v, h) \subseteq Views(F, c, h)
  BY DEF Views
<1>2. s \in G \cup {v}
  <2>1. s \in F
    BY DEF Coherent, Ordered, Version
  <2>2. v.rv < s.rv \/ v.rv = s.rv
    BY DEF Coherent, Ordered, Version
  <2>3. v.rv = s.rv => v = s
    BY <2>1 DEF Coherent, Ordered, Views
  <2> QED BY <2>1, <2>2, <2>3 DEF Version
<1>3. h.rv <= v.rv
  BY DEF Coherent, Ordered, Version
<1>4. \A w \in G : v.rv < w.rv /\ w.rv <= s.rv
  BY DEF Coherent, Ordered, Version
<1>5. Ordered(s, G, v, h)
  BY <1>1, <1>2, <1>3, <1>4 DEF Coherent, Ordered
<1>6. FinalizerKept(s, G, v, h) /\ StaleRemovalHarmless(G, v, h)
  BY <1>1 DEF Coherent, FinalizerKept, StaleRemovalHarmless
<1> QED BY <1>5, <1>6 DEF Coherent

\* The API server makes a new version w of s.
LEMMA CoherentWrite ==
  ASSUME NEW s \in Version, NEW F \in SUBSET Version, NEW c \in Version, NEW h \in Version,
         Coherent(s, F, c, h),
         NEW w \in Version, w.rv = s.rv + 1, Follows(w, s), w.phase = "absent" => ~w.fin,
         (w.uid = s.uid /\ w.fin) \/ (\A v \in Views(F, c, h) : v.fin /\ s.fin /\ v.uid = s.uid =>
                                      Passed(h, v.uid)),
         w.fin => \A v \in Views(F, c, h) :
                    ~(v.phase = "terminating" /\ v.fin /\ v.uid < w.uid)
  PROVE  Coherent(w, F \cup {w}, c, h)
<1> DEFINE G == F \cup {w}
<1>1. Views(G, c, h) = Views(F, c, h) \cup {w} /\ s \in Views(F, c, h)
  BY DEF Views, Coherent, Ordered
<1>2. \A v \in Views(F, c, h) : v \in Version /\ v.rv <= s.rv
  BY DEF Views, Coherent, Ordered, Version
<1>3. \A v \in Views(F, c, h) : v.rv < w.rv /\ Follows(w, v)
  <2> SUFFICES ASSUME NEW v \in Views(F, c, h) PROVE v.rv < w.rv /\ Follows(w, v)
    OBVIOUS
  <2>1. v.rv < w.rv
    BY <1>2 DEF Version
  <2>2. v = s \/ Follows(s, v)
    BY <1>1, <1>2 DEF Coherent, Ordered, Version
  <2>3. Follows(w, v)
    BY <1>2, <2>2 DEF Follows, Version
  <2> QED BY <2>1, <2>3
<1>4. Ordered(w, G, c, h)
  <2>1. \A v \in G : c.rv < v.rv /\ v.rv <= w.rv
    BY <1>2, <1>3, s.rv \in Nat DEF Coherent, Ordered, Views, Version
  <2>2. \A v \in Views(G, c, h) : v.phase = "absent" => ~v.fin
    BY <1>1 DEF Coherent, Ordered
  <2>3. \A v, x \in Views(G, c, h) : v.rv = x.rv => v = x
    BY <1>1, <1>2, <1>3 DEF Coherent, Ordered, Version
  <2>4. \A v, x \in Views(G, c, h) : v.rv < x.rv => Follows(x, v)
    BY <1>1, <1>2, <1>3 DEF Coherent, Ordered, Version
  <2> QED BY <2>1, <2>2, <2>3, <2>4 DEF Coherent, Ordered
<1>5. FinalizerKept(w, G, c, h)
  BY <1>1 DEF Coherent, FinalizerKept
<1>6. StaleRemovalHarmless(G, c, h)
  <2> SUFFICES ASSUME NEW v \in Views(G, c, h), NEW x \in Views(G, c, h),
                      v.phase = "terminating", v.fin, x.uid > v.uid
               PROVE  ~x.fin
    BY DEF StaleRemovalHarmless
  <2>1. CASE v = w
    <3>1. CASE x = w
      BY <2>1, <3>1 DEF Version
    <3>2. CASE x # w
      <4>1. x \in Version /\ Follows(w, x)
        BY <1>1, <1>2, <1>3, <3>2
      <4> QED BY <2>1, <4>1 DEF Follows, Version
    <3> QED BY <3>1, <3>2
  <2>2. CASE v # w /\ x = w
    BY <1>1, <1>2, <2>2 DEF Version
  <2>3. CASE v # w /\ x # w
    BY <1>1, <2>3 DEF Coherent, StaleRemovalHarmless
  <2> QED BY <2>1, <2>2, <2>3
<1> QED BY <1>4, <1>5, <1>6 DEF Coherent

\* After a restart the reconciler knows the current version and no other.
LEMMA CoherentFresh ==
  ASSUME NEW s \in Version, s.phase = "absent" => ~s.fin
  PROVE  Coherent(s, {}, s, s)
BY DEF Coherent, Ordered, FinalizerKept, StaleRemovalHarmless, Views, Version

(***************************************************************************)
(* A patch of the finalizers made from a copy read before.                 *)
(***************************************************************************)
\* Adding the finalizer, from a copy of a live incarnation.
LEMMA CoherentEnsure ==
  ASSUME TypeOK, VersionInv, NEW n \in Names, held[n].phase = "live",
         Accepts(n, TRUE), PatchFinalizer(n, TRUE)
  PROVE  Coherent(src'[n], feed'[n], seen'[n], held[n])
<1> DEFINE s == src[n]  F == feed[n]  c == seen[n]  h == held[n]
<1>1. s \in Version /\ F \in SUBSET Version /\ c \in Version /\ h \in Version
  BY DEF TypeOK, held
<1>2. Coherent(s, F, c, h)
  BY DEF VersionInv
<1>3. CASE s.fin
  BY <1>2, <1>3 DEF PatchFinalizer, source
<1>4. CASE ~s.fin
  <2> DEFINE w == [uid |-> s.uid, phase |-> s.phase, fin |-> TRUE, rv |-> s.rv + 1]
  <2>1. src'[n] = w /\ feed'[n] = F \cup {w} /\ seen'[n] = c
    BY <1>1, <1>4 DEF PatchFinalizer, WriteSource, TypeOK
  <2>2. /\ w \in Version /\ w.rv = s.rv + 1 /\ Follows(w, s)
        /\ w.uid = s.uid /\ w.fin /\ w.phase = "live"
    BY <1>1, <1>4 DEF Version, Follows, Accepts
  <2>3. \A v \in Views(F, c, h) : ~(v.phase = "terminating" /\ v.fin /\ v.uid < s.uid)
    <3> SUFFICES ASSUME NEW v \in Views(F, c, h), v.phase = "terminating", v.fin, v.uid < s.uid
                 PROVE  FALSE
      OBVIOUS
    <3>1. v \in Version
      BY <1>1 DEF Views
    <3>2. Passed(h, v.uid)
      BY <1>1, <1>2, <3>1 DEF Coherent, FinalizerKept, Version
    <3>3. h.uid > v.uid
      BY <1>1, <3>1, <3>2 DEF Passed, Version
    <3>4. h.rv <= v.rv
      BY <1>1, <1>2, <3>1 DEF Coherent, Ordered, Views, Version
    <3> QED BY <1>1, <1>2, <3>1, <3>3, <3>4 DEF Coherent, Ordered, Views, Follows, Version
  <2> HIDE DEF w
  <2>4. Coherent(w, F \cup {w}, c, h)
    BY <1>1, <1>2, <2>2, <2>3, CoherentWrite
  <2> QED BY <2>1, <2>4
<1> QED BY <1>3, <1>4

\* Removing the finalizer, from a copy of a terminating incarnation that has it.
LEMMA CoherentRemove ==
  ASSUME TypeOK, VersionInv, NEW n \in Names,
         held[n].phase = "terminating", held[n].fin,
         Accepts(n, FALSE), PatchFinalizer(n, FALSE)
  PROVE  Coherent(src'[n], feed'[n], seen'[n], held[n])
<1> DEFINE s == src[n]  F == feed[n]  c == seen[n]  h == held[n]
<1>1. s \in Version /\ F \in SUBSET Version /\ c \in Version /\ h \in Version
  BY DEF TypeOK, held
<1>2. Coherent(s, F, c, h) /\ s \in Views(F, c, h) /\ h \in Views(F, c, h)
  BY DEF VersionInv, Coherent, Ordered, Views
<1>3. CASE ~s.fin
  BY <1>1, <1>2, <1>3 DEF PatchFinalizer, source, Version
<1>4. CASE s.fin
  <2> DEFINE w == [uid |-> s.uid, phase |-> s.phase, fin |-> FALSE, rv |-> s.rv + 1]
  <2>1. src'[n] = w /\ feed'[n] = F \cup {w} /\ seen'[n] = c
    BY <1>1, <1>4 DEF PatchFinalizer, WriteSource, TypeOK
  <2>2. w \in Version /\ w.rv = s.rv + 1 /\ Follows(w, s) /\ ~w.fin
    BY <1>1, <1>4 DEF Version, Follows
  <2>3. Passed(h, s.uid)
    <3>1. ~(s.uid > h.uid)
      BY <1>2, <1>4 DEF Coherent, StaleRemovalHarmless
    <3> QED BY <1>1, <3>1 DEF Passed, Version
  <2> HIDE DEF w
  <2>4. Coherent(w, F \cup {w}, c, h)
    BY <1>1, <1>2, <2>2, <2>3, CoherentWrite
  <2> QED BY <2>1, <2>4
<1> QED BY <1>3, <1>4

\* The users and the API server of the source cluster change a Namespace.
LEMMA CoherentSource ==
  ASSUME TypeOK, VersionInv, NEW n \in Names,
         CreateSource(n) \/ DeleteSource(n) \/ SourceVanishes(n)
  PROVE  Coherent(src'[n], feed'[n], seen'[n], held[n])
<1> DEFINE s == src[n]  F == feed[n]  c == seen[n]  h == held[n]
<1>1. s \in Version /\ F \in SUBSET Version /\ c \in Version /\ h \in Version
  BY DEF TypeOK, held
<1>2. Coherent(s, F, c, h) /\ s \in Views(F, c, h)
  BY DEF VersionInv, Coherent, Ordered, Views
<1>3. PICK w : /\ src' = [src EXCEPT ![n] = w]
               /\ feed' = [feed EXCEPT ![n] = @ \cup {w}]
               /\ seen' = seen
               /\ w \in Version /\ w.rv = s.rv + 1 /\ Follows(w, s)
               /\ w.phase = "absent" => ~w.fin
               /\ w.fin => w.uid = s.uid /\ s.fin
               /\ s.fin => w.fin
  <2>1. CASE CreateSource(n)
    <3> DEFINE w == [uid |-> s.uid + 1, phase |-> "live", fin |-> FALSE, rv |-> s.rv + 1]
    <3>1. w \in Version /\ Follows(w, s)
      BY <1>1, <2>1, ConstantsAssumption DEF CreateSource, Version, Follows
    <3>2. ~s.fin
      BY <1>2, <2>1 DEF CreateSource, Coherent, Ordered
    <3> QED BY <2>1, <3>1, <3>2 DEF CreateSource, WriteSource
  <2>2. CASE DeleteSource(n)
    <3> DEFINE w == [uid |-> s.uid, phase |-> "terminating", fin |-> s.fin, rv |-> s.rv + 1]
    <3>1. w \in Version /\ Follows(w, s)
      BY <1>1, <2>2 DEF DeleteSource, Version, Follows
    <3>2. /\ src' = [src EXCEPT ![n] = w]
          /\ feed' = [feed EXCEPT ![n] = @ \cup {w}]
          /\ seen' = seen
      BY <2>2 DEF DeleteSource, WriteSource
    <3>3. w.uid = s.uid /\ w.phase = "terminating" /\ w.rv = s.rv + 1 /\ w.fin = s.fin
      OBVIOUS
    <3> HIDE DEF w
    <3> QED BY <3>1, <3>2, <3>3
  <2>3. CASE SourceVanishes(n)
    <3> DEFINE w == [uid |-> s.uid, phase |-> "absent", fin |-> FALSE, rv |-> s.rv + 1]
    <3>1. w \in Version /\ Follows(w, s)
      BY <1>1, <2>3 DEF SourceVanishes, Version, Follows
    <3> QED BY <2>3, <3>1 DEF SourceVanishes, WriteSource
  <2> QED BY <2>1, <2>2, <2>3
<1>4. w.fin => \A v \in Views(F, c, h) : ~(v.phase = "terminating" /\ v.fin /\ v.uid < w.uid)
  BY <1>2, <1>3 DEF Coherent, StaleRemovalHarmless
<1>5. Coherent(w, F \cup {w}, c, h)
  BY <1>1, <1>2, <1>3, <1>4, CoherentWrite
<1> QED BY <1>3, <1>5 DEF TypeOK

\* With the versions in order before the worker moves, and the worker's hold on
\* each name unchanged or moved to the cache, they are in order after.
LEMMA HeldMoves ==
  ASSUME TypeOK, TypeOK',
         \A n \in Names : Coherent(src'[n], feed'[n], seen'[n], held[n]),
         \A n \in Names : held'[n] = held[n] \/ held'[n] = seen'[n]
  PROVE  VersionInv' /\ \A n \in Names : held[n].uid <= held'[n].uid
<1> SUFFICES ASSUME NEW n \in Names
             PROVE  /\ Coherent(src'[n], feed'[n], seen'[n], held'[n])
                    /\ held[n].uid <= held'[n].uid
  BY DEF VersionInv
<1>1. /\ src'[n] \in Version /\ feed'[n] \in SUBSET Version
      /\ seen'[n] \in Version /\ held[n] \in Version
  BY DEF TypeOK, held
<1>2. Coherent(src'[n], feed'[n], seen'[n], held[n])
  OBVIOUS
<1>3. Coherent(src'[n], feed'[n], seen'[n], seen'[n]) /\ held[n].uid <= seen'[n].uid
  BY <1>1, <1>2, CoherentRead
<1> QED BY <1>1, <1>2, <1>3 DEF Version

\* The worker keeps its hold on its copy, or lets go of it at the end of a pass.
LEMMA HeldCases ==
  ASSUME UNCHANGED <<cur, copy, seen>> \/ cur' = None, NEW n \in Names
  PROVE  held'[n] = held[n] \/ held'[n] = seen'[n]
BY ConstantsAssumption DEF held

LEMMA FinishedWorker ==
  ASSUME Done \/ Retry
  PROVE  WorkerInv' /\ cur' = None
BY DEF Done, Retry, Finish, WorkerInv, ReconcileSteps, DeleteSteps

\* The versions after a step of the worker that does not patch.
LEMMA SourceUnchanged ==
  ASSUME VersionInv, UNCHANGED source
  PROVE  \A n \in Names : Coherent(src'[n], feed'[n], seen'[n], held[n])
BY DEF VersionInv, source

(***************************************************************************)
(* The parts of the invariant, put together for a step that makes no       *)
(* target Namespace.                                                       *)
(***************************************************************************)
NoNewTarget == \A t \in TargetNames : target'[t] # NoTarget =>
  target[t] # NoTarget /\ target'[t].name = target[t].name /\ target'[t].uid = target[t].uid

SourcesKept == \A t \in TargetNames : target[t] # NoTarget =>
  LET n == target[t].name IN
  src'[n].uid = src[n].uid /\ src'[n].phase # "absent" /\ src'[n].fin

LEMMA Combine ==
  ASSUME IInv, TypeOK', late' = {}, WorkerInv', NoNewTarget, SourcesKept,
         \A n \in Names : Coherent(src'[n], feed'[n], seen'[n], held[n]),
         \A n \in Names : held'[n] = held[n] \/ held'[n] = seen'[n]
  PROVE  IInv'
<1>1. TypeOK /\ TargetsSeen /\ AtMostOneTarget /\ NoOrphan
  BY DEF IInv
<1>2. VersionInv' /\ \A n \in Names : held[n].uid <= held'[n].uid
  BY <1>1, HeldMoves
<1>3. \A t \in TargetNames : target[t] # NoTarget => target[t] \in Target
  BY <1>1 DEF TypeOK
<1>4. \A n \in Names : held[n] \in Version /\ held'[n] \in Version
  BY <1>1 DEF TypeOK, held
<1>5. TargetsSeen'
  <2> SUFFICES ASSUME NEW t \in TargetNames, target'[t] # NoTarget
               PROVE  target'[t].uid <= held'[target'[t].name].uid
    BY DEF TargetsSeen
  <2> DEFINE n == target[t].name
  <2>1. target[t] # NoTarget /\ target'[t].name = n /\ target'[t].uid = target[t].uid
    BY DEF NoNewTarget
  <2>2. n \in Names /\ target[t].uid \in Nat /\ target[t].uid <= held[n].uid
    BY <1>1, <1>3, <2>1 DEF TargetsSeen, Target
  <2>3. held[n].uid \in Nat /\ held'[n].uid \in Nat /\ held[n].uid <= held'[n].uid
    BY <1>2, <1>4, <2>2 DEF Version
  <2>4. target[t].uid <= held'[n].uid
    BY <2>2, <2>3
  <2> QED BY <2>1, <2>4
<1>6. AtMostOneTarget'
  BY <1>1 DEF AtMostOneTarget, NoNewTarget
<1>7. NoOrphan'
  BY <1>1 DEF NoOrphan, NoNewTarget, SourcesKept
<1> QED BY <1>2, <1>5, <1>6, <1>7 DEF IInv

\* A step that leaves the source Namespaces alone keeps those of the targets.
LEMMA SourcesKeptUnchanged ==
  ASSUME IInv, src' = src
  PROVE  SourcesKept
BY DEF IInv, NoOrphan, SourcesKept

LEMMA NoNewTargetUnchanged ==
  ASSUME target' = target
  PROVE  NoNewTarget
BY DEF NoNewTarget

\* A step of the worker that neither patches nor touches the target cluster.
LEMMA QuietStep ==
  ASSUME IInv, TypeOK', UNCHANGED <<source, targets>>, WorkerInv',
         UNCHANGED <<cur, copy>> \/ cur' = None
  PROVE  IInv'
<1>1. late' = {} /\ NoNewTarget /\ SourcesKept
  BY NoNewTargetUnchanged, SourcesKeptUnchanged DEF IInv, targets, source
<1>2. \A n \in Names : Coherent(src'[n], feed'[n], seen'[n], held[n])
  BY SourceUnchanged DEF IInv
<1>3. \A n \in Names : held'[n] = held[n] \/ held'[n] = seen'[n]
  BY HeldCases DEF source
<1> QED BY <1>1, <1>2, <1>3, Combine

(***************************************************************************)
(* The steps.                                                              *)
(***************************************************************************)
\* A pass begins, lists, or ends without a patch and without a Create.
LEMMA QuietSteps ==
  ASSUME IInv, TypeOK',
         \/ \E n \in Names : Begin(n)
         \/ List \/ CheckReferenced \/ EnsureNoFinalizer \/ NameTaken
         \/ ListForDelete \/ CallFails
         \/ EnsureFinalizer /\ copy.fin
         \/ \E n \in Names, r \in Referents : ObserveReferent(n, r)
         \/ \E n \in Names, r \in Referents :
              CreateReferent(n, r) \/ ScheduleReferent(n, r) \/ DeleteReferent(n, r)
         \/ UNCHANGED vars
  PROVE  IInv'
<1>0. TypeOK /\ WorkerInv
  BY DEF IInv
<1>1. CASE \E n \in Names : Begin(n)
  <2> PICK n \in Names : Begin(n)
    BY <1>1
  <2>1. UNCHANGED <<source, targets>> /\ late' = {} /\ NoNewTarget /\ SourcesKept
    BY NoNewTargetUnchanged, SourcesKeptUnchanged DEF Begin, IInv, targets, source
  <2>2. \A m \in Names : Coherent(src'[m], feed'[m], seen'[m], held[m])
    BY <2>1, SourceUnchanged DEF IInv
  <2>3. \A m \in Names : held'[m] = held[m] \/ held'[m] = seen'[m]
    BY <1>0, <2>1, ConstantsAssumption DEF Begin, held, WorkerInv, worker, source
  <2>4. WorkerInv'
    BY <1>0, ConstantsAssumption
       DEF Begin, WorkerInv, worker, targets, Matching, ReconcileSteps, DeleteSteps
  <2> QED BY <2>1, <2>2, <2>3, <2>4, Combine
<1>2. CASE List
  <2>1. WorkerInv'
    BY <1>0, <1>2, FinishedWorker
       DEF List, Goto, WorkerInv, Matching, targets, ReconcileSteps, DeleteSteps
  <2> QED BY <1>2, <2>1, QuietStep, FinishedWorker DEF List, Goto
<1>3. CASE CheckReferenced
  <2>1. WorkerInv'
    BY <1>0, <1>3
       DEF CheckReferenced, Goto, WorkerInv, Matching, targets, ReconcileSteps, DeleteSteps
  <2> QED BY <1>3, <2>1, QuietStep DEF CheckReferenced, Goto
<1>4. CASE EnsureNoFinalizer \/ NameTaken
  BY <1>4, QuietStep, FinishedWorker DEF EnsureNoFinalizer, NameTaken
<1>5. CASE ListForDelete
  <2>1. CASE Retry
    BY <1>5, <2>1, QuietStep, FinishedWorker DEF ListForDelete
  <2>2. CASE Matching(cur, copy.uid) = {} /\ Goto("release") /\ found' = None
    <3>1. WorkerInv'
      BY <1>0, <1>5, <2>2
         DEF ListForDelete, Goto, WorkerInv, Matching, targets, ReconcileSteps, DeleteSteps
    <3> QED BY <1>5, <2>2, <3>1, QuietStep DEF ListForDelete, Goto
  <2>3. CASE \E t \in Matching(cur, copy.uid) :
               Matching(cur, copy.uid) = {t} /\ Goto("ddelete") /\ found' = t
    <3> PICK t \in Matching(cur, copy.uid) :
               Matching(cur, copy.uid) = {t} /\ Goto("ddelete") /\ found' = t
      BY <2>3
    <3>1. target[t] # NoTarget
      BY <1>0, <1>5 DEF ListForDelete, Matching, NoTarget, TypeOK
    <3>2. Matching(cur, copy.uid)' = Matching(cur, copy.uid) /\ target' = target
      BY <1>5 DEF ListForDelete, Goto, Matching, targets
    <3>3. WorkerInv'
      BY <1>0, <1>5, <3>1, <3>2
         DEF ListForDelete, Goto, WorkerInv, ReconcileSteps, DeleteSteps
    <3> QED BY <1>5, <3>3, QuietStep DEF ListForDelete, Goto
  <2> QED BY <1>5, <2>1, <2>2, <2>3 DEF ListForDelete
<1>6. CASE CallFails
  BY <1>6, QuietStep, FinishedWorker DEF CallFails
<1>7. CASE EnsureFinalizer /\ copy.fin
  <2>1. WorkerInv' /\ UNCHANGED <<cur, copy>>
    BY <1>0, <1>7
       DEF EnsureFinalizer, Goto, WorkerInv, Matching, targets, ReconcileSteps, DeleteSteps
  <2> QED BY <1>7, <2>1, QuietStep DEF EnsureFinalizer
<1>8. CASE \E n \in Names, r \in Referents : ObserveReferent(n, r)
  <2>1. WorkerInv' /\ UNCHANGED <<cur, copy, source, targets>>
    BY <1>0, <1>8 DEF ObserveReferent, worker, targets, WorkerInv, Matching
  <2> QED BY <2>1, QuietStep
<1>9. CASE \E n \in Names, r \in Referents :
             CreateReferent(n, r) \/ ScheduleReferent(n, r) \/ DeleteReferent(n, r)
  <2>1. \E n \in Names, r \in Referents, a \in Assignment : Assign(n, r, a)
    BY <1>9 DEF CreateReferent, ScheduleReferent, DeleteReferent, Assignment
  <2>2. WorkerInv' /\ UNCHANGED <<cur, copy, source, targets>>
    BY <1>0, <2>1 DEF Assign, worker, targets, WorkerInv, Matching
  <2> QED BY <2>2, QuietStep
<1>10. CASE UNCHANGED vars
  <2>1. WorkerInv' /\ UNCHANGED <<cur, copy, source, targets>>
    BY <1>0, <1>10 DEF vars, source, targets, WorkerInv, Matching
  <2> QED BY <2>1, QuietStep
<1> QED BY <1>1, <1>2, <1>3, <1>4, <1>5, <1>6, <1>7, <1>8, <1>9, <1>10

\* A patch reaches one name only.
LEMMA PatchElsewhere ==
  ASSUME TypeOK, VersionInv, NEW n \in Names, NEW f \in BOOLEAN, PatchFinalizer(n, f),
         Coherent(src'[n], feed'[n], seen'[n], held[n])
  PROVE  /\ \A m \in Names : Coherent(src'[m], feed'[m], seen'[m], held[m])
         /\ \A m \in Names : m # n => src'[m] = src[m]
         /\ src'[n].uid = src[n].uid /\ src'[n].phase = src[n].phase /\ src'[n].fin = f
<1>1. \A m \in Names : Coherent(src[m], feed[m], seen[m], held[m])
  BY DEF VersionInv
<1>2. CASE src[n].fin = f
  BY <1>1, <1>2 DEF PatchFinalizer, source
<1>3. CASE src[n].fin # f
  BY <1>1, <1>3 DEF PatchFinalizer, WriteSource, TypeOK
<1> QED BY <1>2, <1>3

\* The finalizer is added; a pass that has found a target Namespace, or is to
\* create one, ends with the patch.
LEMMA EnsureSteps ==
  ASSUME IInv, TypeOK', (EnsureFinalizer /\ ~copy.fin) \/ KeepFinalizer
  PROVE  IInv'
<1>1. TypeOK /\ VersionInv /\ WorkerInv /\ NoOrphan
  BY DEF IInv
<1>2. Done \/ Retry
  BY DEF EnsureFinalizer, KeepFinalizer, DoneOrReplyLost
<1>3. WorkerInv' /\ cur' = None /\ UNCHANGED targets
  BY <1>2, FinishedWorker DEF EnsureFinalizer, KeepFinalizer
<1>4. CASE UNCHANGED source
  BY <1>3, <1>4, QuietStep
<1>5. CASE Accepts(cur, TRUE) /\ PatchFinalizer(cur, TRUE)
  <2>1. cur \in Names /\ held[cur] = copy /\ copy.phase = "live"
    BY <1>1 DEF EnsureFinalizer, KeepFinalizer, TypeOK, held, WorkerInv, ReconcileSteps
  <2>2. /\ \A m \in Names : Coherent(src'[m], feed'[m], seen'[m], held[m])
        /\ \A m \in Names : m # cur => src'[m] = src[m]
        /\ src'[cur].uid = src[cur].uid /\ src'[cur].phase = src[cur].phase /\ src'[cur].fin
    BY <1>1, <1>5, <2>1, CoherentEnsure, PatchElsewhere
  <2>3. SourcesKept
    BY <1>1, <2>2 DEF NoOrphan, SourcesKept, TypeOK, Target
  <2>4. NoNewTarget /\ late' = {}
    BY <1>3, NoNewTargetUnchanged DEF targets, IInv
  <2>5. \A m \in Names : held'[m] = held[m] \/ held'[m] = seen'[m]
    BY <1>3, HeldCases
  <2> QED BY <1>3, <2>2, <2>3, <2>4, <2>5, Combine
<1> QED BY <1>4, <1>5 DEF EnsureFinalizer, KeepFinalizer

\* The finalizer is removed, with no target Namespace of that name left.
LEMMA RemoveStep ==
  ASSUME IInv, TypeOK', RemoveFinalizer
  PROVE  IInv'
<1>1. TypeOK /\ VersionInv /\ WorkerInv /\ NoOrphan /\ TargetsSeen
  BY DEF IInv
<1>2. WorkerInv' /\ cur' = None /\ UNCHANGED targets
  BY FinishedWorker DEF RemoveFinalizer, DoneOrReplyLost
<1>3. CASE UNCHANGED source
  BY <1>2, <1>3, QuietStep
<1>4. CASE Accepts(cur, FALSE) /\ PatchFinalizer(cur, FALSE)
  <2>1. cur \in Names /\ held[cur] = copy /\ copy.phase = "terminating" /\ copy.fin
    BY <1>1 DEF RemoveFinalizer, TypeOK, held, WorkerInv, DeleteSteps
  <2>2. /\ \A m \in Names : Coherent(src'[m], feed'[m], seen'[m], held[m])
        /\ \A m \in Names : m # cur => src'[m] = src[m]
    BY <1>1, <1>4, <2>1, CoherentRemove, PatchElsewhere
  <2>3. \A t \in TargetNames : target[t] # NoTarget => target[t].name # cur
    <3> SUFFICES ASSUME NEW t \in TargetNames, target[t] # NoTarget, target[t].name = cur
                 PROVE  FALSE
      OBVIOUS
    <3>1. target[t].uid <= copy.uid /\ target[t].uid = src[cur].uid
      BY <1>1, <2>1 DEF TargetsSeen, NoOrphan
    <3>2. copy.uid <= src[cur].uid
      <4>1. /\ src[cur] \in Version /\ feed[cur] \in SUBSET Version
            /\ seen[cur] \in Version /\ copy \in Version
        BY <1>1, <2>1 DEF TypeOK
      <4>2. Coherent(src[cur], feed[cur], seen[cur], copy)
        BY <1>1, <2>1 DEF VersionInv
      <4> QED BY <4>1, <4>2 DEF Coherent, Ordered, Views, Follows, Version
    <3>3. copy.uid \in Nat /\ src[cur].uid \in Nat
      BY <1>1, <2>1 DEF TypeOK, Version
    <3>4. target[t].uid = copy.uid
      BY <3>1, <3>2, <3>3
    <3>5. t \in Matching(cur, copy.uid)
      BY <3>4 DEF Matching
    <3> QED BY <1>1, <3>5 DEF RemoveFinalizer, WorkerInv
  <2>4. SourcesKept
    BY <1>1, <2>2, <2>3 DEF NoOrphan, SourcesKept, TypeOK, Target
  <2>5. NoNewTarget /\ late' = {}
    BY <1>2, NoNewTargetUnchanged DEF targets, IInv
  <2>6. \A m \in Names : held'[m] = held[m] \/ held'[m] = seen'[m]
    BY <1>2, HeldCases
  <2> QED BY <1>2, <2>2, <2>4, <2>5, <2>6, Combine
<1> QED BY <1>3, <1>4 DEF RemoveFinalizer

\* A target Namespace is made: its source Namespace exists and has the finalizer.
LEMMA CreateStep ==
  ASSUME IInv, TypeOK', CreateTarget
  PROVE  IInv'
<1>1. /\ TypeOK /\ VersionInv /\ WorkerInv
      /\ NoOrphan /\ TargetsSeen /\ AtMostOneTarget /\ late = {}
  BY DEF IInv
<1>2. WorkerInv' /\ cur' = None /\ UNCHANGED <<source, late>>
  BY FinishedWorker DEF CreateTarget, DoneOrReplyLost
<1>3. /\ cur \in Names /\ held[cur] = copy /\ copy.phase = "live" /\ copy.fin
      /\ Matching(cur, copy.uid) = {}
  BY <1>1 DEF CreateTarget, TypeOK, held, WorkerInv, ReconcileSteps
<1>4. VersionInv' /\ \A m \in Names : held[m].uid <= held'[m].uid
  <2>1. \A m \in Names : held'[m] = held[m] \/ held'[m] = seen'[m]
    BY <1>2, HeldCases
  <2>2. \A m \in Names : Coherent(src'[m], feed'[m], seen'[m], held[m])
    BY <1>1, <1>2, SourceUnchanged
  <2> QED BY <1>1, <2>1, <2>2, HeldMoves
<1>5. src[cur].uid = copy.uid /\ src[cur].fin /\ src[cur].phase # "absent"
  <2>1. /\ src[cur] \in Version /\ feed[cur] \in SUBSET Version
        /\ seen[cur] \in Version /\ copy \in Version
    BY <1>1, <1>3 DEF TypeOK
  <2>2. Coherent(src[cur], feed[cur], seen[cur], copy)
    BY <1>1, <1>3 DEF VersionInv
  <2>3. ~Passed(copy, copy.uid)
    BY <1>3, <2>1 DEF Passed, Version
  <2>4. src[cur].uid = copy.uid /\ src[cur].fin
    BY <1>3, <2>2, <2>3 DEF Coherent, FinalizerKept, Views
  <2>5. src[cur].phase # "absent"
    BY <2>2, <2>4 DEF Coherent, Ordered, Views
  <2> QED BY <2>4, <2>5
<1>6. PICK x \in TargetNames :
        /\ target[x] = NoTarget
        /\ target' = [target EXCEPT ![x] = [name |-> cur, uid |-> copy.uid, life |-> "present"]]
  BY DEF CreateTarget, Generate
<1>7. /\ target'[x].name = cur /\ target'[x].uid = copy.uid
      /\ \A t \in TargetNames : t # x => target'[t] = target[t]
  BY <1>1, <1>6 DEF TypeOK
<1>8. \A m \in Names : held[m] \in Version /\ held'[m] \in Version
  BY <1>1 DEF TypeOK, held
<1>9. TargetsSeen'
  <2> SUFFICES ASSUME NEW t \in TargetNames, target'[t] # NoTarget
               PROVE  target'[t].uid <= held'[target'[t].name].uid
    BY DEF TargetsSeen
  <2>1. CASE t = x
    BY <1>3, <1>4, <1>7, <2>1
  <2>2. CASE t # x
    <3>1. /\ target'[t] = target[t] /\ target[t].name \in Names /\ target[t].uid \in Nat
          /\ target[t].uid <= held[target[t].name].uid
      BY <1>1, <1>7, <2>2 DEF TypeOK, Target, TargetsSeen
    <3>2. held[target[t].name].uid \in Nat /\ held'[target[t].name].uid \in Nat
      BY <1>8, <3>1 DEF Version
    <3> QED BY <1>4, <3>1, <3>2
  <2> QED BY <2>1, <2>2
<1>10. AtMostOneTarget'
  BY <1>1, <1>3, <1>7 DEF AtMostOneTarget, Matching
<1>11. NoOrphan'
  BY <1>1, <1>2, <1>5, <1>7 DEF NoOrphan, source
<1> QED BY <1>1, <1>2, <1>4, <1>9, <1>10, <1>11 DEF IInv

\* The target Namespaces change without a new one.
LEMMA TargetSteps ==
  ASSUME IInv, TypeOK',
         \/ DeleteTarget
         \/ \E n \in Names : ObserveTarget(n)
         \/ \E t \in TargetNames : EvictTarget(t) \/ TargetVanishes(t)
  PROVE  IInv'
<1>1. TypeOK /\ VersionInv /\ WorkerInv /\ late = {}
  BY DEF IInv
<1>2. UNCHANGED source /\ SourcesKept /\ late' = {}
  BY <1>1, SourcesKeptUnchanged
     DEF DeleteTarget, ObserveTarget, EvictTarget, TargetVanishes, source
<1>3. \A m \in Names : Coherent(src'[m], feed'[m], seen'[m], held[m])
  BY <1>1, <1>2, SourceUnchanged
<1>4. NoNewTarget
  <2>1. CASE UNCHANGED target
    BY <2>1, NoNewTargetUnchanged
  <2>2. CASE \E t \in TargetNames, l \in {"deleted", "evicted"} :
               target[t].life = "present" /\ target' = [target EXCEPT ![t].life = l]
    <3> PICK t \in TargetNames, l \in {"deleted", "evicted"} :
               target[t].life = "present" /\ target' = [target EXCEPT ![t].life = l]
      BY <2>2
    <3>1. target[t] # NoTarget /\ target[t] \in Target
      BY <1>1 DEF TypeOK, NoTarget
    <3>2. target'[t].name = target[t].name /\ target'[t].uid = target[t].uid
      BY <1>1, <3>1 DEF TypeOK, Target
    <3>3. \A x \in TargetNames : x # t => target'[x] = target[x]
      BY <1>1 DEF TypeOK
    <3> QED BY <3>1, <3>2, <3>3 DEF NoNewTarget
  <2>3. CASE \E t \in TargetNames : target' = [target EXCEPT ![t] = NoTarget]
    BY <1>1, <2>3 DEF NoNewTarget, TypeOK
  <2>4. pc = "ddelete" => found \in TargetNames
    BY <1>1 DEF TypeOK
  <2> QED BY <2>1, <2>2, <2>3, <2>4 DEF DeleteTarget, ObserveTarget, EvictTarget, TargetVanishes
<1>5. CASE DeleteTarget
  <2>1. CASE Retry
    <3>1. WorkerInv' /\ cur' = None
      BY <2>1, FinishedWorker
    <3>2. \A m \in Names : held'[m] = held[m] \/ held'[m] = seen'[m]
      BY <3>1, HeldCases
    <3> QED BY <1>2, <1>3, <1>4, <3>1, <3>2, Combine
  <2>2. CASE /\ target[found] = NoTarget /\ Goto("release") /\ found' = None
             /\ UNCHANGED <<target, tEvents>>
    <3>1. Matching(cur, copy.uid) = {}
      BY <1>1, <1>5, <2>2 DEF DeleteTarget, WorkerInv
    <3>2. Matching(cur, copy.uid)' = {}
      BY <2>2, <3>1 DEF Matching, Goto
    <3>3. WorkerInv'
      BY <1>1, <1>5, <2>2, <3>2 DEF DeleteTarget, Goto, WorkerInv, ReconcileSteps, DeleteSteps
    <3> QED BY <1>2, <1>5, <2>2, <3>3, QuietStep DEF Goto, DeleteTarget, targets
  <2> QED BY <1>5, <2>1, <2>2 DEF DeleteTarget
<1>6. CASE ~DeleteTarget
  <2>1. UNCHANGED <<pc, cur, copy, found, seen>>
    BY <1>2, <1>6 DEF ObserveTarget, EvictTarget, TargetVanishes, worker, source
  <2>2. \A t \in TargetNames :
          \/ target'[t] = NoTarget
          \/ /\ target[t] # NoTarget /\ target'[t] # NoTarget
             /\ target'[t].name = target[t].name /\ target'[t].uid = target[t].uid
    BY <1>4 DEF NoNewTarget
  <2>3. ASSUME pc # "idle"
        PROVE  Matching(cur, copy.uid)' = {t \in Matching(cur, copy.uid) : target'[t] # NoTarget}
    <3>1. cur # None
      BY <1>1, <2>3 DEF TypeOK
    <3> QED BY <2>1, <2>2, <3>1 DEF Matching, NoTarget
  <2>4. ASSUME pc = "ddelete"
        PROVE  {t \in Matching(cur, copy.uid) : target'[t] # NoTarget}
                 = {t \in {found} : target'[t] # NoTarget}
    <3>1. found \in TargetNames /\ Matching(cur, copy.uid) = {t \in {found} : target[t] # NoTarget}
      BY <1>1, <2>4 DEF WorkerInv, TypeOK
    <3> QED BY <2>2, <3>1
  <2>5. WorkerInv'
    <3>1. CASE pc = "idle"
      BY <1>1, <2>1, <3>1 DEF WorkerInv, ReconcileSteps, DeleteSteps
    <3>2. CASE pc # "idle"
      BY <1>1, <2>1, <2>3, <2>4, <3>2 DEF WorkerInv
    <3> QED BY <3>1, <3>2
  <2>6. \A m \in Names : held'[m] = held[m] \/ held'[m] = seen'[m]
    BY <2>1, HeldCases
  <2> QED BY <1>2, <1>3, <1>4, <2>5, <2>6, Combine
<1> QED BY <1>5, <1>6

\* The informer delivers a version.
LEMMA ObserveStep ==
  ASSUME IInv, TypeOK', NEW n \in Names, ObserveSource(n)
  PROVE  IInv'
<1>1. TypeOK /\ VersionInv /\ WorkerInv /\ late = {}
  BY DEF IInv
<1>2. PICK v \in feed[n] :
        /\ seen' = [seen EXCEPT ![n] = v]
        /\ feed' = [feed EXCEPT ![n] = {w \in @ : w.rv > v.rv}]
        /\ UNCHANGED <<src, targets, worker>>
  BY DEF ObserveSource
<1>3. WorkerInv'
  BY <1>1, <1>2 DEF WorkerInv, Matching, worker, targets
<1>4. NoNewTarget /\ SourcesKept /\ late' = {}
  BY <1>1, <1>2, NoNewTargetUnchanged, SourcesKeptUnchanged DEF targets
<1>5. \A m \in Names : Coherent(src'[m], feed'[m], seen'[m], held[m])
  <2> SUFFICES ASSUME NEW m \in Names
               PROVE  Coherent(src'[m], feed'[m], seen'[m], held[m])
    OBVIOUS
  <2>1. /\ src[m] \in Version /\ feed[m] \in SUBSET Version
        /\ seen[m] \in Version /\ held[m] \in Version
    BY <1>1 DEF TypeOK, held
  <2>2. Coherent(src[m], feed[m], seen[m], held[m])
    BY <1>1 DEF VersionInv
  <2>3. CASE m = n
    <3>1. Coherent(src[m], {w \in feed[m] : w.rv > v.rv}, v, held[m])
      BY <2>1, <2>2, <2>3, CoherentObserve
    <3> QED BY <1>1, <1>2, <2>3, <3>1 DEF TypeOK
  <2>4. CASE m # n
    BY <1>1, <1>2, <2>2, <2>4 DEF TypeOK
  <2> QED BY <2>3, <2>4
<1>6. \A m \in Names : held'[m] = held[m] \/ held'[m] = seen'[m]
  BY <1>2 DEF held, worker
<1> QED BY <1>3, <1>4, <1>5, <1>6, Combine

\* The source Namespace changes by the hands of others.
LEMMA SourceStep ==
  ASSUME IInv, TypeOK', NEW n \in Names,
         CreateSource(n) \/ DeleteSource(n) \/ SourceVanishes(n)
  PROVE  IInv'
<1>1. TypeOK /\ VersionInv /\ WorkerInv /\ NoOrphan /\ late = {}
  BY DEF IInv
<1>2. UNCHANGED <<targets, worker, seen>>
  BY DEF CreateSource, DeleteSource, SourceVanishes, WriteSource
<1>3. WorkerInv' /\ NoNewTarget /\ late' = {}
  BY <1>1, <1>2, NoNewTargetUnchanged DEF WorkerInv, Matching, worker, targets
<1>4. \A m \in Names : m # n =>
        src'[m] = src[m] /\ feed'[m] = feed[m] /\ seen'[m] = seen[m]
  BY <1>1 DEF CreateSource, DeleteSource, SourceVanishes, WriteSource, TypeOK
<1>5. Coherent(src'[n], feed'[n], seen'[n], held[n])
  BY <1>1, CoherentSource
<1>6. \A m \in Names : Coherent(src'[m], feed'[m], seen'[m], held[m])
  BY <1>1, <1>4, <1>5 DEF VersionInv
<1>7. \A m \in Names : held'[m] = held[m] \/ held'[m] = seen'[m]
  BY <1>2, HeldCases DEF worker
<1>8. src[n].phase # "absent" /\ src[n].fin =>
        src'[n].uid = src[n].uid /\ src'[n].phase # "absent" /\ src'[n].fin
  BY <1>1 DEF CreateSource, DeleteSource, SourceVanishes, WriteSource, TypeOK
<1>9. SourcesKept
  <2> SUFFICES ASSUME NEW t \in TargetNames, target[t] # NoTarget
               PROVE  LET m == target[t].name IN
                      src'[m].uid = src[m].uid /\ src'[m].phase # "absent" /\ src'[m].fin
    BY DEF SourcesKept
  <2> DEFINE m == target[t].name
  <2>1. m \in Names /\ src[m].phase # "absent" /\ src[m].fin
    BY <1>1 DEF NoOrphan, TypeOK, Target
  <2> QED BY <1>4, <1>8, <2>1
<1> QED BY <1>3, <1>6, <1>7, <1>9, Combine

\* The process restarts.
LEMMA RestartStep ==
  ASSUME IInv, TypeOK', Restart
  PROVE  IInv'
<1>1. TypeOK /\ VersionInv /\ TargetsSeen /\ NoOrphan /\ AtMostOneTarget /\ late = {}
  BY DEF IInv
<1>2. /\ UNCHANGED <<src, target, late>>
      /\ pc' = "idle" /\ cur' = None /\ seen' = src /\ feed' = [n \in Names |-> {}]
  BY DEF Restart, Finish
<1>3. WorkerInv'
  BY <1>2 DEF WorkerInv, ReconcileSteps, DeleteSteps
<1>4. \A n \in Names : held'[n] = src[n]
  BY <1>2, ConstantsAssumption DEF held
<1>5. \A n \in Names : src[n] \in Version /\ (src[n].phase = "absent" => ~src[n].fin)
  BY <1>1 DEF TypeOK, VersionInv, Coherent, Ordered, Views
<1>6. VersionInv'
  <2> SUFFICES ASSUME NEW n \in Names
               PROVE  Coherent(src'[n], feed'[n], seen'[n], held'[n])
    BY DEF VersionInv
  <2>1. Coherent(src[n], {}, src[n], src[n])
    BY <1>5, CoherentFresh
  <2> QED BY <1>2, <1>4, <2>1
<1>7. TargetsSeen'
  <2> SUFFICES ASSUME NEW t \in TargetNames, target[t] # NoTarget
               PROVE  target[t].uid <= held'[target[t].name].uid
    BY <1>2 DEF TargetsSeen
  <2>1. target[t].name \in Names /\ target[t].uid \in Nat
    BY <1>1 DEF TypeOK, Target
  <2>2. held'[target[t].name].uid = target[t].uid
    BY <1>1, <1>4, <2>1 DEF NoOrphan
  <2> QED BY <2>1, <2>2
<1>8. NoOrphan' /\ AtMostOneTarget' /\ late' = {}
  BY <1>1, <1>2 DEF NoOrphan, AtMostOneTarget
<1> QED BY <1>3, <1>6, <1>7, <1>8 DEF IInv

(***************************************************************************)
(* The theorems.                                                           *)
(***************************************************************************)
\* IInv holds in every reachable state (namespace_controller.go with caches,
\* restarts, lost replies and evictions).
THEOREM InvariantHolds ==
  ASSUME Mishaps = {}
  PROVE  Spec => []IInv
<1>1. Init /\ TypeOK => IInv
  <2> SUFFICES ASSUME Init, TypeOK PROVE IInv
    OBVIOUS
  <2>1. \A n \in Names : held[n] = NoVersion
    BY DEF Init, held
  <2>2. VersionInv
    <3> SUFFICES ASSUME NEW n \in Names
                 PROVE  Coherent(src[n], feed[n], seen[n], held[n])
      BY DEF VersionInv
    <3>1. NoVersion \in Version /\ ~NoVersion.fin
      BY ConstantsAssumption DEF NoVersion, Version
    <3>2. Coherent(NoVersion, {}, NoVersion, NoVersion)
      BY <3>1, CoherentFresh
    <3> QED BY <2>1, <3>2 DEF Init
  <2>3. TargetsSeen /\ WorkerInv /\ AtMostOneTarget /\ NoOrphan /\ late = {}
    BY DEF Init, TargetsSeen, WorkerInv, AtMostOneTarget, NoOrphan,
           ReconcileSteps, DeleteSteps
  <2> QED BY <2>2, <2>3 DEF IInv
<1>2. IInv /\ TypeOK' /\ [Next]_vars => IInv'
  <2> SUFFICES ASSUME IInv, TypeOK', [Next]_vars PROVE IInv'
    OBVIOUS
  <2>1. CASE EnsureFinalizer
    <3>1. CASE copy.fin
      BY <2>1, <3>1, QuietSteps
    <3>2. CASE ~copy.fin
      BY <2>1, <3>2, EnsureSteps
    <3> QED BY <3>1, <3>2
  <2>2. CASE \/ CreateTimesOut
             \/ \E l \in late : LateCreate(l)
             \/ \E n \in Names : StripFinalizer(n)
    BY <2>2 DEF CreateTimesOut, StripFinalizer, IInv
  <2> QED BY <2>1, <2>2, QuietSteps, EnsureSteps, RemoveStep, CreateStep, TargetSteps,
             ObserveStep, SourceStep, RestartStep DEF Next, Work
<1> QED BY <1>1, <1>2, TypeCorrect, PTL DEF Spec

\* No target Namespace is orphaned and no incarnation has two.
THEOREM TargetsSafe ==
  ASSUME Mishaps = {}
  PROVE  Spec => [](NoOrphan /\ AtMostOneTarget)
<1>1. IInv => NoOrphan /\ AtMostOneTarget
  BY DEF IInv
<1> QED BY <1>1, InvariantHolds, PTL

\* An incarnation never has two target Namespaces.
THEOREM NeverDoubled ==
  ASSUME Mishaps = {}
  PROVE  Spec => []AtMostOneTarget
BY TargetsSafe, PTL

\* Only DeleteTarget makes a target Namespace one that the brokerlet deleted.
LEMMA DeletedByWorker ==
  ASSUME TypeOK, Next, NEW t \in TargetNames,
         target[t].life = "present", target'[t].life = "deleted"
  PROVE  DeleteTarget /\ t = found
<1>1. target' # target
  OBVIOUS
<1>2. ASSUME NEW n \in Names, NEW u \in 1..MaxUid, Generate(n, u) PROVE FALSE
  BY <1>2 DEF Generate, TypeOK, NoTarget
<1>3. ~CreateTarget
  <2>1. pc = "create" => cur \in Names /\ copy.uid \in 1..MaxUid
    BY DEF TypeOK, Version
  <2> QED BY <1>2, <2>1 DEF CreateTarget
<1>4. \A l \in late : ~LateCreate(l)
  <2>1. \A l \in late : l[1] \in Names /\ l[2] \in 1..MaxUid
    BY DEF TypeOK
  <2> QED BY <1>2, <2>1 DEF LateCreate
<1>5. \A x \in TargetNames : ~EvictTarget(x) /\ ~TargetVanishes(x)
  BY DEF EvictTarget, TargetVanishes, TypeOK, NoTarget, Target
<1>6. DeleteTarget
  <2>1. ~(\E n \in Names : Begin(n) \/ ObserveSource(n) \/ ObserveTarget(n)
            \/ CreateSource(n) \/ DeleteSource(n) \/ SourceVanishes(n) \/ StripFinalizer(n))
    BY <1>1 DEF Begin, ObserveSource, ObserveTarget, CreateSource, DeleteSource,
                SourceVanishes, StripFinalizer, targets
  <2>2. ~(\E n \in Names, r \in Referents : ObserveReferent(n, r) \/ CreateReferent(n, r)
            \/ ScheduleReferent(n, r) \/ DeleteReferent(n, r))
    BY <1>1 DEF ObserveReferent, CreateReferent, ScheduleReferent, DeleteReferent, Assign,
                targets
  <2>3. ~(List \/ CheckReferenced \/ EnsureNoFinalizer \/ EnsureFinalizer \/ KeepFinalizer
            \/ NameTaken \/ ListForDelete \/ RemoveFinalizer \/ CreateTimesOut \/ CallFails
            \/ Restart)
    BY <1>1 DEF List, CheckReferenced, EnsureNoFinalizer, EnsureFinalizer, KeepFinalizer,
                NameTaken, ListForDelete, RemoveFinalizer, CreateTimesOut, CallFails, Restart,
                targets
  <2> QED BY <1>3, <1>4, <1>5, <2>1, <2>2, <2>3 DEF Next, Work
<1> QED BY <1>1, <1>6 DEF DeleteTarget, TypeOK

\* What the brokerlet deletes is the target Namespace of a source Namespace that is
\* terminating, in the very incarnation.
LEMMA DeletedWithSource ==
  ASSUME IInv, [Next]_vars, NEW t \in TargetNames,
         target[t].life = "present", target'[t].life = "deleted"
  PROVE  /\ target[t].name \in Names
         /\ src[target[t].name].phase = "terminating"
         /\ src[target[t].name].uid = target[t].uid
<1>1. TypeOK /\ VersionInv /\ WorkerInv /\ NoOrphan
  BY DEF IInv
<1>2. DeleteTarget /\ t = found
  <2>1. target' # target
    OBVIOUS
  <2>2. Next
    BY <2>1 DEF vars
  <2> QED BY <1>1, <2>2, DeletedByWorker
<1>3. /\ cur \in Names /\ held[cur] = copy /\ copy.phase = "terminating"
      /\ target[t] # NoTarget
      /\ target[t].name = cur /\ target[t].uid = copy.uid
  <2>1. cur \in Names /\ copy.phase = "terminating" /\ target[t] # NoTarget
    BY <1>1, <1>2 DEF DeleteTarget, TypeOK, WorkerInv, DeleteSteps, NoTarget
  <2>2. t \in Matching(cur, copy.uid)
    BY <1>1, <1>2, <2>1 DEF DeleteTarget, WorkerInv
  <2> QED BY <2>1, <2>2 DEF held, Matching
<1>4. /\ src[cur] \in Version /\ feed[cur] \in SUBSET Version
      /\ seen[cur] \in Version /\ copy \in Version
  BY <1>1, <1>3 DEF TypeOK
<1>5. src[cur].phase # "absent" /\ src[cur].uid = copy.uid
  BY <1>1, <1>3 DEF NoOrphan
<1>6. Coherent(src[cur], feed[cur], seen[cur], copy)
  BY <1>1, <1>3 DEF VersionInv
<1>7. src[cur] = copy \/ Follows(src[cur], copy)
  BY <1>4, <1>6 DEF Coherent, Ordered, Views, Version
<1>8. src[cur].phase = "terminating"
  BY <1>3, <1>4, <1>5, <1>7 DEF Follows, Version
<1> QED BY <1>3, <1>5, <1>8

\* The brokerlet deletes no target Namespace while the source Namespace it was
\* made for lives.
THEOREM TargetsOutliveUse ==
  ASSUME Mishaps = {}
  PROVE  Spec => DeletesOnlyWithSource
<1>1. IInv /\ [Next]_vars => [\A t \in TargetNames :
        target[t].life = "present" /\ target'[t].life = "deleted" =>
          ~ /\ src[target[t].name].phase = "live"
            /\ src[target[t].name].uid = target[t].uid]_vars
  BY DeletedWithSource
<1> QED BY <1>1, InvariantHolds, PTL DEF Spec, DeletesOnlyWithSource
==============================================================================
