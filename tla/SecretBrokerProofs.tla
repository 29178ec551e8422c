-------------------------- MODULE SecretBrokerProofs --------------------------
(***************************************************************************)
(* ReleasedLast and TypeOK of SecretBroker, for any Secrets, referents and *)
(* bounds.                                                                 *)
(*                                                                         *)
(* The worker that is about to release a Secret looked for the copy in the *)
(* target Namespace it had found, and that is the only one a copy can be   *)
(* in: a target Namespace vanishes after its copies have, before the next  *)
(* one is provided, and no other worker makes a copy meanwhile.            *)
(***************************************************************************)
EXTENDS SecretBroker, TLAPS

IsTarget(t) == t = [space |-> t.space, uid |-> t.uid, data |-> t.data, life |-> t.life]

\* As much of the types as the argument needs.
Shape ==
  /\ src = [s \in Secrets |-> src[s]]
  /\ \A s \in Secrets : src[s].fin \in BOOLEAN /\ (src[s].phase = "absent" => ~src[s].fin)
  /\ target = [s \in Secrets |-> target[s]] /\ \A s \in Secrets : IsTarget(target[s])
  /\ away = [n \in {Home} |-> away[n]]
  /\ gen \in Nat /\ (away[Home] # "absent" => gen # 0)
  /\ pc # "idle" => cur \in Secrets

\* Copies are in the last target Namespace, while there is one.
InSpace == \A s \in Secrets :
  target[s] # NoTarget => target[s].space = gen /\ away[Home] # "absent"

\* What the worker that deletes knows of the copy.
Release ==
  /\ pc \in {"delete", "patch"} => space # 0
  /\ pc = "delete" => target[cur] = NoTarget \/ target[cur].space = space
  /\ pc = "release" => target[cur] = NoTarget

RInv == Shape /\ InSpace /\ Release

Last == \A s \in Secrets : src[s].fin /\ ~src'[s].fin => target[s] = NoTarget

LEMMA NoTargetShape == IsTarget(NoTarget) /\ NoTarget.space = 0 /\ NoTarget.life = "absent"
BY DEF NoTarget, IsTarget

\* A copy that is altered or marked as deleted stays where it is.
LEMMA TargetSet ==
  ASSUME NEW t, IsTarget(t), NEW x
  PROVE  /\ IsTarget([t EXCEPT !.data = x]) /\ [t EXCEPT !.data = x].space = t.space
         /\ IsTarget([t EXCEPT !.life = x]) /\ [t EXCEPT !.life = x].space = t.space
BY DEF IsTarget

\* A pass ends, or goes on to a step that claims nothing of the copy.
LEMMA WorkerKeeps ==
  ASSUME RInv, src' = src, target' = target, gen' = gen, away' = away,
         pc' = "idle" \/ (pc' \in {"refs", "space", "dspace", "finalize", "create"} /\ cur' \in Secrets)
  PROVE  RInv' /\ Last
<1>1. Shape' /\ InSpace'
  BY DEF RInv, Shape, InSpace
<1>2. Release'
  BY DEF Release
<1>3. Last
  BY DEF Last, RInv, Shape
<1> QED
  BY <1>1, <1>2, <1>3 DEF RInv

\* What leaves the objects, the copies and the worker alone changes nothing.
LEMMA ElsewhereKeeps ==
  ASSUME RInv, src' = src, target' = target, gen' = gen, away' = away,
         pc' = pc, cur' = cur, space' = space
  PROVE  RInv' /\ Last
<1>1. Shape' /\ InSpace' /\ Release'
  BY DEF RInv, Shape, InSpace, Release
<1>2. Last
  BY DEF Last, RInv, Shape
<1> QED
  BY <1>1, <1>2 DEF RInv

\* The source API server writes a version that keeps the finalizer, or that of a
\* Secret without a copy.
LEMMA SourceKeeps ==
  ASSUME RInv, NEW s \in Secrets, NEW uid, NEW phase, NEW fin \in BOOLEAN, NEW data,
         WriteSource(s, uid, phase, fin, data), phase = "absent" => ~fin,
         src[s].fin => fin \/ target[s] = NoTarget,
         target' = target, gen' = gen, away' = away,
         pc' = "idle" \/ UNCHANGED <<pc, cur, space>>
  PROVE  RInv' /\ Last
<1> DEFINE v == [uid |-> uid, phase |-> phase, fin |-> fin, data |-> data, rv |-> src[s].rv + 1]
<1>1. src' = [src EXCEPT ![s] = v]
  BY DEF WriteSource
<1>2. v.fin = fin /\ v.phase = phase
  OBVIOUS
<1> HIDE DEF v
<1>3. /\ src' = [r \in Secrets |-> src'[r]] /\ src'[s] = v
      /\ \A r \in Secrets : r # s => src'[r] = src[r]
  BY <1>1 DEF RInv, Shape
<1>4. \A r \in Secrets : src'[r].fin \in BOOLEAN /\ (src'[r].phase = "absent" => ~src'[r].fin)
  BY <1>2, <1>3 DEF RInv, Shape
<1>5. Shape' /\ InSpace' /\ Release'
  BY <1>3, <1>4 DEF RInv, Shape, InSpace, Release
<1>6. Last
  BY <1>2, <1>3 DEF Last
<1> QED
  BY <1>5, <1>6 DEF RInv

\* A copy of the Secret s is replaced by t, in the last target Namespace.
LEMMA TargetKeeps ==
  ASSUME RInv, NEW s \in Secrets, NEW t, IsTarget(t), target' = [target EXCEPT ![s] = t],
         src' = src, gen' = gen, away' = away,
         t # NoTarget => t.space = gen /\ away[Home] # "absent",
         pc' = "idle" \/ (UNCHANGED <<pc, cur, space>> /\ target[s] # NoTarget
                            /\ (t = NoTarget \/ t.space = target[s].space))
  PROVE  RInv' /\ Last
<1>1. /\ target' = [r \in Secrets |-> target'[r]] /\ target'[s] = t
      /\ \A r \in Secrets : r # s => target'[r] = target[r]
  BY DEF RInv, Shape
<1>2. Shape' /\ InSpace'
  BY <1>1 DEF RInv, Shape, InSpace
<1>3. Release'
  BY <1>1 DEF RInv, Shape, Release
<1>4. Last
  BY DEF Last, RInv, Shape
<1> QED
  BY <1>2, <1>3, <1>4 DEF RInv

LEMMA WorkKeeps ==
  ASSUME RInv, (\E s \in Secrets : Begin(s)) \/ Work \/ CallFails
  PROVE  RInv' /\ Last
<1>c. pc # "idle" => cur \in Secrets
  BY DEF RInv, Shape
<1> USE DEF Goto, Finish, Done, Retry, DoneOrReplyLost, namespace, source, targets
<1>1. CASE \E s \in Secrets : Begin(s)
  <2>1. PICK s \in Secrets : Begin(s)
    BY <1>1
  <2>2. src' = src /\ target' = target /\ gen' = gen /\ away' = away
    BY <2>1 DEF Begin
  <2>3. \/ UNCHANGED worker
        \/ pc' \in {"refs", "space", "dspace"} /\ cur' = s
    BY <2>1 DEF Begin
  <2> QED BY <2>2, <2>3, WorkerKeeps, ElsewhereKeeps DEF worker
<1>2. CASE ListReferents \/ CallFails \/ FindSpaceForDelete \/ FindSpace
  <2>1. src' = src /\ target' = target /\ gen' = gen /\ away' = away
    BY <1>2 DEF ListReferents, CallFails, FindSpaceForDelete, FindSpace
  <2>2. CASE pc' \in {"idle", "space", "dspace", "finalize", "create"}
    <3>1. pc' = "idle" \/ cur' = cur
      BY <1>2, <2>2 DEF ListReferents, CallFails, FindSpaceForDelete, FindSpace
    <3>2. pc # "idle"
      BY <1>2 DEF ListReferents, CallFails, FindSpaceForDelete, FindSpace
    <3> QED BY <1>c, <2>1, <2>2, <3>1, <3>2, WorkerKeeps
  <2>3. CASE pc' \in {"delete", "patch"}
    <3>1. /\ cur' = cur /\ space' = gen /\ away[Home] # "absent" /\ pc # "idle"
      BY <1>2, <2>3 DEF ListReferents, CallFails, FindSpaceForDelete, FindSpace
    <3>2. Shape' /\ InSpace' /\ Last
      BY <1>c, <2>1, <3>1 DEF RInv, Shape, InSpace, Last
    <3>3. Release'
      BY <1>c, <2>1, <2>3, <3>1 DEF RInv, Shape, InSpace, Release
    <3> QED BY <3>2, <3>3 DEF RInv
  <2>4. pc' \in {"idle", "space", "dspace", "finalize", "create", "delete", "patch"}
    BY <1>2 DEF ListReferents, CallFails, FindSpaceForDelete, FindSpace
  <2> QED BY <2>2, <2>3, <2>4
<1>3. CASE EnsureFinalizer
  <2>1. /\ target' = target /\ gen' = gen /\ away' = away /\ pc' = "idle" /\ cur \in Secrets
    BY <1>3, <1>c DEF EnsureFinalizer, referents
  <2>2. CASE src' = src
    BY <2>1, <2>2, WorkerKeeps
  <2>3. CASE src' # src
    <3> DEFINE uid == src[cur].uid data == src[cur].data
    <3>1. /\ \/ WriteSource(cur, uid, "live", TRUE, data)
             \/ WriteSource(cur, uid, "absent", FALSE, None)
          /\ src[cur].fin # TRUE
      BY <1>3, <2>3 DEF EnsureFinalizer, PatchFinalizer
    <3>2. ~src[cur].fin /\ "live" # "absent"
      BY <2>1, <3>1 DEF RInv, Shape
    <3> HIDE DEF uid, data
    <3>3. CASE WriteSource(cur, uid, "live", TRUE, data)
      BY <2>1, <3>2, <3>3, SourceKeeps
    <3>4. CASE WriteSource(cur, uid, "absent", FALSE, None)
      BY <2>1, <3>2, <3>4, SourceKeeps
    <3> QED BY <3>1, <3>3, <3>4
  <2> QED BY <2>2, <2>3
<1>4. CASE CreateTarget
  <2>1. /\ src' = src /\ gen' = gen /\ away' = away /\ pc' = "idle" /\ cur \in Secrets
    BY <1>4, <1>c DEF CreateTarget
  <2>2. CASE target' = target
    BY <2>1, <2>2, WorkerKeeps
  <2>3. CASE target' # target
    <3> DEFINE t == [space |-> space, uid |-> copy.uid, data |-> copy.data, life |-> "present"]
    <3>1. IsTarget(t) /\ t.space = space
      BY DEF IsTarget
    <3>2. target' = [target EXCEPT ![cur] = t] /\ space = gen /\ away[Home] = "present"
      BY <1>4, <2>3 DEF CreateTarget
    <3> HIDE DEF t
    <3> QED BY <2>1, <3>1, <3>2, TargetKeeps
  <2> QED BY <2>2, <2>3
<1>5. CASE PatchTarget
  <2>1. /\ src' = src /\ gen' = gen /\ away' = away /\ pc' = "idle" /\ cur \in Secrets
    BY <1>5, <1>c DEF PatchTarget
  <2>2. CASE target' = target
    BY <2>1, <2>2, WorkerKeeps
  <2>3. CASE target' # target
    <3> DEFINE t == [target[cur] EXCEPT !.data = copy.data]
    <3>1. IsTarget(t) /\ t.space = target[cur].space
      BY <2>1, TargetSet DEF RInv, Shape
    <3>2. target' = [target EXCEPT ![cur] = t] /\ target[cur].space = space /\ space # 0
      BY <1>5, <2>3 DEF PatchTarget, RInv, Release
    <3>3. target[cur].space = gen /\ away[Home] # "absent"
      BY <2>1, <3>2, NoTargetShape DEF RInv, InSpace
    <3> HIDE DEF t
    <3> QED BY <2>1, <3>1, <3>2, <3>3, TargetKeeps
  <2> QED BY <2>2, <2>3
<1>6. CASE DeleteTarget
  <2>1. /\ src' = src /\ gen' = gen /\ away' = away /\ cur \in Secrets /\ pc = "delete"
    BY <1>6, <1>c DEF DeleteTarget
  <2>2. CASE target[cur].space # space
    <3>1. target' = target /\ pc' = "release" /\ cur' = cur
      BY <1>6, <2>2 DEF DeleteTarget
    <3>2. target[cur] = NoTarget
      BY <2>1, <2>2 DEF RInv, Release
    <3>3. Shape' /\ InSpace' /\ Last
      BY <2>1, <3>1 DEF RInv, Shape, InSpace, Last
    <3> QED BY <3>1, <3>2, <3>3 DEF RInv, Release
  <2>3. CASE target[cur].space = space
    <3>1. space # 0 /\ pc' = "idle"
      BY <1>6, <2>1, <2>3 DEF DeleteTarget, RInv, Release
    <3>2. target[cur].space = gen /\ away[Home] # "absent"
      BY <2>1, <2>3, <3>1, NoTargetShape DEF RInv, InSpace
    <3> DEFINE t == [target[cur] EXCEPT !.life = "deleted"]
    <3>3. IsTarget(t) /\ t.space = target[cur].space
      BY <2>1, TargetSet DEF RInv, Shape
    <3>4. target' = [target EXCEPT ![cur] = t] \/ target' = [target EXCEPT ![cur] = NoTarget]
      BY <1>6, <2>3 DEF DeleteTarget
    <3> HIDE DEF t
    <3> QED BY <2>1, <3>1, <3>2, <3>3, <3>4, NoTargetShape, TargetKeeps
  <2> QED BY <2>2, <2>3
<1>7. CASE RemoveFinalizer
  <2>1. /\ target' = target /\ gen' = gen /\ away' = away /\ pc' = "idle" /\ cur \in Secrets
        /\ target[cur] = NoTarget
    BY <1>7, <1>c DEF RemoveFinalizer, RInv, Release
  <2>2. CASE src' = src
    BY <2>1, <2>2, WorkerKeeps
  <2>3. CASE src' # src
    <3> DEFINE uid == src[cur].uid data == src[cur].data
    <3>1. \/ WriteSource(cur, uid, "live", FALSE, data)
          \/ WriteSource(cur, uid, "absent", FALSE, None)
      BY <1>7, <2>3 DEF RemoveFinalizer, PatchFinalizer
    <3> HIDE DEF uid, data
    <3>2. CASE WriteSource(cur, uid, "live", FALSE, data)
      BY <2>1, <3>2, SourceKeeps
    <3>3. CASE WriteSource(cur, uid, "absent", FALSE, None)
      BY <2>1, <3>3, SourceKeeps
    <3> QED BY <3>1, <3>2, <3>3
  <2> QED BY <2>2, <2>3
<1> QED
  BY <1>1, <1>2, <1>3, <1>4, <1>5, <1>6, <1>7 DEF Work

\* The source cluster takes a finalizer from no Secret.
LEMMA SourceClusterKeeps ==
  ASSUME RInv, NEW s \in Secrets,
         (\E d \in Data : CreateSource(s, d) \/ UpdateSource(s, d)) \/ DeleteSource(s)
  PROVE  RInv' /\ Last
<1>s. src[s].fin \in BOOLEAN /\ (src[s].phase = "absent" => ~src[s].fin)
  BY DEF RInv, Shape
<1>1. target' = target /\ gen' = gen /\ away' = away /\ UNCHANGED <<pc, cur, space>>
  BY DEF CreateSource, UpdateSource, DeleteSource, namespace, targets, worker
<1>2. CASE \E d \in Data : CreateSource(s, d)
  <2>1. PICK d \in Data : CreateSource(s, d)
    BY <1>2
  <2>2. WriteSource(s, src[s].uid + 1, "live", FALSE, d) /\ src[s].phase = "absent"
    BY <2>1 DEF CreateSource
  <2> QED BY <1>s, <1>1, <2>2, SourceKeeps
<1>3. CASE \E d \in Data : UpdateSource(s, d)
  <2>1. PICK d \in Data : UpdateSource(s, d)
    BY <1>3
  <2>2. WriteSource(s, src[s].uid, "live", src[s].fin, d)
    BY <2>1 DEF UpdateSource
  <2>3. CASE src[s].fin = TRUE
    <3>1. WriteSource(s, src[s].uid, "live", TRUE, d)
      BY <2>2, <2>3
    <3>2. "live" # "absent"
      OBVIOUS
    <3> QED BY <1>1, <3>1, <3>2, SourceKeeps
  <2>4. CASE src[s].fin = FALSE
    <3>1. WriteSource(s, src[s].uid, "live", FALSE, d)
      BY <2>2, <2>4
    <3> QED BY <1>1, <2>4, <3>1, SourceKeeps
  <2> QED BY <1>s, <2>3, <2>4
<1>4. CASE DeleteSource(s)
  <2>1. \/ src[s].fin /\ WriteSource(s, src[s].uid, "terminating", TRUE, src[s].data)
        \/ ~src[s].fin /\ WriteSource(s, src[s].uid, "absent", FALSE, None)
    BY <1>4 DEF DeleteSource
  <2>2. CASE src[s].fin /\ WriteSource(s, src[s].uid, "terminating", TRUE, src[s].data)
    <3>1. "terminating" # "absent"
      OBVIOUS
    <3> QED BY <1>1, <2>2, <3>1, SourceKeeps
  <2>3. CASE ~src[s].fin /\ WriteSource(s, src[s].uid, "absent", FALSE, None)
    BY <1>1, <2>3, SourceKeeps
  <2> QED BY <2>1, <2>2, <2>3
<1> QED
  BY <1>2, <1>3, <1>4

\* Others take copies away or alter those that are there.
LEMMA TargetClusterKeeps ==
  ASSUME RInv, NEW s \in Secrets,
         TargetVanishes(s) \/ EvictTarget(s) \/ (\E d \in Data : TamperTarget(s, d))
  PROVE  RInv' /\ Last
<1>s. IsTarget(target[s]) /\ target[s] # NoTarget
  BY NoTargetShape DEF RInv, Shape, TargetVanishes, EvictTarget, TamperTarget
<1>1. src' = src /\ gen' = gen /\ away' = away /\ UNCHANGED <<pc, cur, space>>
  BY DEF TargetVanishes, EvictTarget, TamperTarget, Meddle, namespace, source, worker
<1>2. PICK t : /\ target' = [target EXCEPT ![s] = t] /\ IsTarget(t)
               /\ t = NoTarget \/ t.space = target[s].space
  <2>1. CASE TargetVanishes(s) \/ EvictTarget(s)
    BY <2>1, NoTargetShape DEF TargetVanishes, EvictTarget, Meddle
  <2>2. CASE \E d \in Data : TamperTarget(s, d)
    BY <1>s, <2>2, TargetSet DEF TamperTarget, Meddle
  <2> QED BY <2>1, <2>2
<1>3. target[s].space = gen /\ away[Home] # "absent"
  BY <1>s DEF RInv, InSpace
<1> QED
  BY <1>s, <1>1, <1>2, <1>3, TargetKeeps

\* Namespaces come and go as NamespaceMapping allows.
LEMMA NamespacesKeep ==
  ASSUME RInv, Namespaces
  PROVE  RInv' /\ Last
<1> USE DEF others, source, targets, worker
<1>1. src' = src /\ target' = target /\ pc' = pc /\ cur' = cur /\ space' = space
  BY DEF Namespaces, HomeIsBorn, HomeTerminates, HomeGoes, SpaceIsProvided, SpaceIsRetired,
         SpaceIsEvicted, SpaceVanishes
<1>2. ASSUME NEW to, away' = [away EXCEPT ![Home] = to],
             \/ gen' = gen /\ (to = "absent" => \A s \in Secrets : target[s] = NoTarget)
                  /\ (away[Home] = "absent" => to = "absent")
             \/ gen' = gen + 1 /\ away[Home] = "absent"
      PROVE  RInv' /\ Last
  <2>1. away' = [n \in {Home} |-> away'[n]] /\ away'[Home] = to
    BY <1>2 DEF RInv, Shape
  <2>2. gen' \in Nat /\ (to # "absent" => gen' # 0)
    BY <1>2 DEF RInv, Shape
  <2>3. Shape' /\ Last
    BY <1>1, <2>1, <2>2 DEF RInv, Shape, Last
  <2>4. InSpace'
    BY <1>1, <1>2, <2>1 DEF RInv, InSpace
  <2>5. Release'
    BY <1>1 DEF RInv, Release
  <2> QED BY <2>3, <2>4, <2>5 DEF RInv
<1>3. CASE HomeIsBorn \/ HomeTerminates \/ HomeGoes
  BY <1>1, <1>3, ElsewhereKeeps
     DEF HomeIsBorn, HomeTerminates, HomeGoes, Mapping!Born, Mapping!Terminate, Mapping!Go,
         Mapping!Live
<1>4. CASE SpaceIsProvided
  BY <1>2, <1>4 DEF SpaceIsProvided, Mapping!Provide, Mapping!Turn
<1>5. CASE SpaceIsRetired
  BY <1>2, <1>5 DEF SpaceIsRetired, Mapping!Retire, Mapping!Turn
<1>6. CASE SpaceIsEvicted
  BY <1>2, <1>6 DEF SpaceIsEvicted, Mapping!Evict, Mapping!Turn
<1>7. CASE SpaceVanishes
  BY <1>2, <1>7 DEF SpaceVanishes, Mapping!Vanish, Mapping!Turn
<1> QED
  BY <1>3, <1>4, <1>5, <1>6, <1>7 DEF Namespaces

LEMMA StepKeeps == RInv /\ [Next]_vars => RInv' /\ Last
<1> SUFFICES ASSUME RInv, [Next]_vars PROVE RInv' /\ Last
  OBVIOUS
<1> USE DEF namespace, source, targets, worker
<1>1. CASE (\E s \in Secrets : Begin(s)) \/ Work \/ CallFails
  BY <1>1, WorkKeeps
<1>2. CASE Restart
  BY <1>2, WorkerKeeps DEF Restart, Finish
<1>3. CASE \E s \in Secrets : ObserveSource(s) \/ ObserveReferents(s) \/ ObserveTarget(s)
  <2>1. PICK s \in Secrets : ObserveSource(s) \/ ObserveReferents(s) \/ ObserveTarget(s)
    BY <1>3
  <2>2. /\ src' = src /\ target' = target /\ gen' = gen /\ away' = away
        /\ pc' = pc /\ cur' = cur /\ space' = space
    BY <2>1 DEF ObserveSource, ObserveReferents, ObserveTarget
  <2> QED BY <2>2, ElsewhereKeeps
<1>7. CASE ObserveSpaceCreated \/ UNCHANGED vars
  BY <1>7, ElsewhereKeeps DEF ObserveSpaceCreated, vars
<1>8. CASE \E s \in Secrets, places \in SUBSET Places : Refer(s, places)
  BY <1>8, ElsewhereKeeps DEF Refer
<1>4. CASE \E s \in Secrets :
             (\E d \in Data : CreateSource(s, d) \/ UpdateSource(s, d)) \/ DeleteSource(s)
  BY <1>4, SourceClusterKeeps
<1>5. CASE \E s \in Secrets :
             TargetVanishes(s) \/ EvictTarget(s) \/ (\E d \in Data : TamperTarget(s, d))
  BY <1>5, TargetClusterKeeps
<1>6. CASE Namespaces
  BY <1>6, NamespacesKeep
<1> QED
  BY <1>1, <1>2, <1>3, <1>4, <1>5, <1>6, <1>7, <1>8 DEF Next

LEMMA InitReleases == Init => RInv
<1> SUFFICES ASSUME Init PROVE RInv
  OBVIOUS
<1>1. \A s \in Secrets : target[s] = NoTarget /\ src[s] = NoVersion
  BY DEF Init
<1>2. away[Home] = "absent" /\ away = [n \in {Home} |-> away[n]]
  BY DEF Init, Mapping!MappingInit
<1>3. /\ src = [s \in Secrets |-> src[s]] /\ target = [s \in Secrets |-> target[s]]
      /\ gen \in Nat /\ pc = "idle"
  BY DEF Init
<1>4. Shape
  <2>1. \A s \in Secrets : src[s].fin \in BOOLEAN /\ (src[s].phase = "absent" => ~src[s].fin)
    <3>1. NoVersion.fin = FALSE
      BY DEF NoVersion
    <3> QED BY <1>1, <3>1
  <2>2. \A s \in Secrets : IsTarget(target[s])
    BY <1>1, NoTargetShape
  <2>3. (away[Home] # "absent" => gen # 0) /\ (pc # "idle" => cur \in Secrets)
    BY <1>2, <1>3
  <2> QED BY <1>2, <1>3, <2>1, <2>2, <2>3 DEF Shape
<1> QED
  BY <1>1, <1>3, <1>4 DEF RInv, InSpace, Release

\* ReleasedLast: no Secret loses the finalizer while a copy of it is left, for any
\* number of Secrets, target Namespaces, faults and changes.
THEOREM ReleasedLastHolds == Spec => ReleasedLast
<1>1. RInv /\ [Next]_vars => RInv' /\
        [\A s \in Secrets : src[s].fin /\ ~src'[s].fin => target[s] = NoTarget]_vars
  BY StepKeeps DEF Last
<1> QED
  BY InitReleases, <1>1, PTL DEF Spec, ReleasedLast

(***************************************************************************)
(* The types, part by part.  That a worker with a call to make in a target *)
(* Namespace has the name of one rests on Shape: while there is a target   *)
(* Namespace, gen is its name.                                             *)
(***************************************************************************)
BoundsTyped == changes \in 0..MaxTurns /\ faults \in 0..MaxFaults

NamespacesTyped ==
  /\ Mapping!MappingTypeOK
  /\ gen \in 0..MaxSpaces
  /\ nsEvent \in BOOLEAN

SourceTyped ==
  /\ src \in [Secrets -> Version]
  /\ feed \in [Secrets -> SUBSET Version]
  /\ seen \in [Secrets -> Version]

ReferentsTyped ==
  /\ refs \in [Secrets -> SUBSET Places]
  /\ seenRefs \in [Secrets -> SUBSET Places]
  /\ rEvents \subseteq Secrets

TargetsTyped ==
  /\ target \in [Secrets -> Target \cup {NoTarget}]
  /\ seenTarget \in [Secrets -> Target \cup {NoTarget}]
  /\ tEvents \subseteq Secrets

WorkerTyped ==
  /\ queue \subseteq Secrets
  /\ pc \in {"idle", "refs"} \cup ReconcileSteps \cup DeleteSteps
  /\ cur \in Secrets \cup {None}
  /\ copy \in Version
  /\ space \in 0..MaxSpaces
  /\ pc # "idle" => cur # None /\ copy.phase # "absent"
  /\ pc \in {"finalize", "create", "patch", "delete"} => space # 0

LEMMA TypeParts ==
  TypeOK <=> /\ NamespacesTyped /\ SourceTyped /\ ReferentsTyped /\ TargetsTyped
             /\ WorkerTyped /\ BoundsTyped
BY DEF TypeOK, NamespacesTyped, SourceTyped, ReferentsTyped, TargetsTyped, WorkerTyped, BoundsTyped

LEMMA TypePartsNext ==
  ASSUME NamespacesTyped', SourceTyped', ReferentsTyped', TargetsTyped', WorkerTyped', BoundsTyped'
  PROVE  TypeOK'
BY DEF TypeOK, NamespacesTyped, SourceTyped, ReferentsTyped, TargetsTyped, WorkerTyped, BoundsTyped

LEMMA VersionParts ==
  ASSUME NEW v \in Version
  PROVE  /\ v.uid \in 0..MaxUid /\ v.phase \in {"absent", "live", "terminating"}
         /\ v.fin \in BOOLEAN /\ v.data \in Data \cup {None} /\ v.rv \in Nat
         /\ v.phase # "absent" => v.uid \in 1..MaxUid /\ v.data \in Data
<1>1. /\ v \in [uid : 0..MaxUid, phase : {"absent", "live", "terminating"},
                fin : BOOLEAN, data : Data \cup {None}, rv : Nat]
      /\ v.phase # "absent" => v.uid # 0 /\ v.data # None
  BY DEF Version
<1>2. v.uid \in 0..MaxUid /\ v.data \in Data \cup {None}
  BY <1>1
<1>3. v.phase # "absent" => v.uid \in 1..MaxUid /\ v.data \in Data
  BY <1>1, <1>2, SecretAssumption
<1> QED
  BY <1>1, <1>3

LEMMA VersionMade ==
  ASSUME NEW u \in 0..MaxUid, NEW p \in {"absent", "live", "terminating"}, NEW f \in BOOLEAN,
         NEW d \in Data \cup {None}, NEW r \in Nat, p # "absent" => u # 0 /\ d # None
  PROVE  [uid |-> u, phase |-> p, fin |-> f, data |-> d, rv |-> r] \in Version
BY DEF Version

LEMMA NoVersionTyped == NoVersion \in Version
<1>1. 0 \in 0..MaxUid /\ 0 \in Nat
  BY SecretAssumption
<1> QED
  BY <1>1, VersionMade DEF NoVersion

LEMMA TargetParts ==
  ASSUME NEW t \in Target \cup {NoTarget}, t # NoTarget
  PROVE  /\ t \in Target /\ t.space \in 1..MaxSpaces
         /\ [t EXCEPT !.life = "deleted"] \in Target
         /\ \A d \in Data : [t EXCEPT !.data = d] \in Target
BY DEF Target

\* A write of a version to the source.
LEMMA WriteTyped ==
  ASSUME SourceTyped, NEW s \in Secrets, NEW u \in 0..MaxUid,
         NEW p \in {"absent", "live", "terminating"}, NEW f \in BOOLEAN,
         NEW d \in Data \cup {None}, p # "absent" => u # 0 /\ d # None,
         WriteSource(s, u, p, f, d)
  PROVE  SourceTyped'
<1> DEFINE v == [uid |-> u, phase |-> p, fin |-> f, data |-> d, rv |-> src[s].rv + 1]
<1>1. v \in Version
  <2>1. src[s].rv + 1 \in Nat
    BY VersionParts DEF SourceTyped
  <2> QED BY <2>1, VersionMade
<1>2. /\ src' = [src EXCEPT ![s] = v] /\ feed' = [feed EXCEPT ![s] = @ \cup {v}] /\ seen' = seen
  BY DEF WriteSource
<1> HIDE DEF v
<1> QED
  BY <1>1, <1>2 DEF SourceTyped

LEMMA PatchTyped ==
  ASSUME SourceTyped, NEW s \in Secrets, NEW f \in BOOLEAN, PatchFinalizer(s, f)
  PROVE  SourceTyped'
<1>1. src[s] \in Version /\ None \in Data \cup {None} /\ "live" # "absent"
  BY DEF SourceTyped
<1> DEFINE u == src[s].uid  d == src[s].data
<1>2. u \in 0..MaxUid /\ d \in Data \cup {None} /\ (src[s].phase # "absent" => u # 0 /\ d # None)
  BY <1>1, VersionParts, SecretAssumption
<1>3. \/ UNCHANGED source
      \/ src[s].phase = "live" /\ WriteSource(s, u, "live", f, d)
      \/ src[s].phase = "terminating" /\ WriteSource(s, u, "absent", FALSE, None)
  BY DEF PatchFinalizer
<1> HIDE DEF u, d
<1>4. CASE UNCHANGED source
  BY <1>4 DEF source, SourceTyped
<1>5. CASE src[s].phase = "live" /\ WriteSource(s, u, "live", f, d)
  BY <1>1, <1>2, <1>5, WriteTyped
<1>6. CASE src[s].phase = "terminating" /\ WriteSource(s, u, "absent", FALSE, None)
  BY <1>1, <1>2, <1>6, WriteTyped
<1> QED
  BY <1>3, <1>4, <1>5, <1>6

\* A pass that ends.
LEMMA EndsTyped ==
  ASSUME WorkerTyped, pc # "idle", Done \/ Retry
  PROVE  WorkerTyped'
<1>1. 0 \in 0..MaxSpaces /\ cur \in Secrets
  BY SecretAssumption DEF WorkerTyped
<1> QED
  BY <1>1, NoVersionTyped DEF WorkerTyped, Done, Retry, Finish

\* A pass that goes on.
LEMMA GoesTyped ==
  ASSUME WorkerTyped, pc # "idle", NEW step \in {"refs"} \cup ReconcileSteps \cup DeleteSteps,
         Goto(step), space' \in 0..MaxSpaces,
         step \in {"finalize", "create", "patch", "delete"} => space' # 0
  PROVE  WorkerTyped'
BY DEF WorkerTyped, Goto

LEMMA PutTyped ==
  ASSUME TargetsTyped, NEW s \in Secrets, NEW t \in Target \cup {NoTarget},
         target' = [target EXCEPT ![s] = t], seenTarget' = seenTarget, tEvents' = tEvents \cup {s}
  PROVE  TargetsTyped'
BY DEF TargetsTyped

LEMMA FaultTyped ==
  ASSUME BoundsTyped, changes' = changes, faults' = faults \/ Fault
  PROVE  BoundsTyped'
BY SecretAssumption DEF BoundsTyped, Fault

LEMMA TypeInit == Init => TypeOK
<1> SUFFICES ASSUME Init PROVE TypeOK
  OBVIOUS
<1>1. 0 \in 0..MaxSpaces /\ 0 \in 0..MaxTurns /\ 0 \in 0..MaxFaults
  BY SecretAssumption
<1>2. NamespacesTyped
  BY <1>1 DEF Init, NamespacesTyped, Mapping!MappingInit, Mapping!MappingTypeOK
<1>3. SourceTyped
  BY NoVersionTyped DEF Init, SourceTyped
<1>4. ReferentsTyped /\ TargetsTyped
  BY DEF Init, ReferentsTyped, TargetsTyped
<1>5. WorkerTyped
  BY <1>1, NoVersionTyped DEF Init, WorkerTyped
<1>6. BoundsTyped
  BY <1>1 DEF Init, BoundsTyped
<1> QED
  BY <1>2, <1>3, <1>4, <1>5, <1>6, TypeParts

\* Every call of the worker keeps the types.
LEMMA TypeWork ==
  ASSUME TypeOK, RInv, Work \/ CallFails \/ \E s \in Secrets : Begin(s)
  PROVE  TypeOK'
<1>t. /\ NamespacesTyped /\ SourceTyped /\ ReferentsTyped /\ TargetsTyped
      /\ WorkerTyped /\ BoundsTyped
  BY TypeParts
<1>c. pc # "idle" => cur \in Secrets /\ copy \in Version /\ copy.phase # "absent"
  BY <1>t DEF WorkerTyped
<1>n. away[Home] # "absent" => gen \in 1..MaxSpaces
  BY <1>t, SecretAssumption DEF NamespacesTyped, RInv, Shape
<1> USE DEF namespace, source, referents, targets
<1>1. CASE \E s \in Secrets : Begin(s)
  <2>1. PICK s \in Secrets : Begin(s)
    BY <1>1
  <2>2. seen[s] \in Version /\ 0 \in 0..MaxSpaces
    BY <1>t, SecretAssumption DEF SourceTyped
  <2>3. WorkerTyped'
    BY <1>t, <2>1, <2>2, SecretAssumption DEF Begin, WorkerTyped, worker, ReconcileSteps, DeleteSteps
  <2>4. NamespacesTyped' /\ SourceTyped' /\ ReferentsTyped' /\ TargetsTyped' /\ BoundsTyped'
    BY <1>t, <2>1 DEF Begin, NamespacesTyped, SourceTyped, ReferentsTyped, TargetsTyped, BoundsTyped,
                      Mapping!MappingTypeOK
  <2> QED BY <2>3, <2>4, TypePartsNext
<1>2. CASE ListReferents \/ FindSpace \/ FindSpaceForDelete \/ CallFails
  <2>1. pc # "idle" /\ changes' = changes /\ (faults' = faults \/ Fault)
    BY <1>2 DEF ListReferents, FindSpace, FindSpaceForDelete, CallFails
  <2>2. \/ Done \/ Retry
        \/ Goto("space") /\ space' = space
        \/ Goto("dspace") /\ space' = space
        \/ /\ Goto("finalize") \/ Goto("create") \/ Goto("patch") \/ Goto("delete")
           /\ space' = gen /\ away[Home] # "absent"
    BY <1>2 DEF ListReferents, FindSpace, FindSpaceForDelete, CallFails
  <2>3. WorkerTyped'
    <3>1. space \in 0..MaxSpaces /\ (away[Home] # "absent" => gen \in 0..MaxSpaces /\ gen # 0)
      BY <1>t, <1>n DEF WorkerTyped
    <3>2. CASE Done \/ Retry
      BY <1>t, <2>1, <3>2, EndsTyped
    <3>3. CASE (Goto("space") \/ Goto("dspace")) /\ space' = space
      BY <1>t, <2>1, <3>1, <3>3, GoesTyped DEF ReconcileSteps, DeleteSteps
    <3>4. CASE /\ Goto("finalize") \/ Goto("create") \/ Goto("patch") \/ Goto("delete")
               /\ space' = gen /\ away[Home] # "absent"
      BY <1>t, <2>1, <3>1, <3>4, GoesTyped DEF ReconcileSteps, DeleteSteps
    <3> QED BY <2>2, <3>2, <3>3, <3>4
  <2>4. NamespacesTyped' /\ SourceTyped' /\ ReferentsTyped' /\ TargetsTyped'
    BY <1>t, <1>2 DEF ListReferents, FindSpace, FindSpaceForDelete, CallFails,
                      NamespacesTyped, SourceTyped, ReferentsTyped, TargetsTyped, Mapping!MappingTypeOK
  <2> QED BY <1>t, <2>1, <2>3, <2>4, FaultTyped, TypePartsNext
<1>3. CASE EnsureFinalizer \/ RemoveFinalizer
  <2>1. pc # "idle" /\ changes' = changes /\ (faults' = faults \/ Fault) /\ (Done \/ Retry)
    BY <1>3 DEF EnsureFinalizer, RemoveFinalizer, DoneOrReplyLost
  <2>2. UNCHANGED source \/ PatchFinalizer(cur, TRUE) \/ PatchFinalizer(cur, FALSE)
    BY <1>3 DEF EnsureFinalizer, RemoveFinalizer
  <2>3. SourceTyped'
    <3>1. CASE UNCHANGED source
      BY <1>t, <3>1 DEF SourceTyped
    <3>2. CASE PatchFinalizer(cur, TRUE)
      BY <1>t, <1>c, <2>1, <3>2, PatchTyped
    <3>3. CASE PatchFinalizer(cur, FALSE)
      BY <1>t, <1>c, <2>1, <3>3, PatchTyped
    <3> QED BY <2>2, <3>1, <3>2, <3>3
  <2>4. NamespacesTyped' /\ ReferentsTyped' /\ TargetsTyped'
    BY <1>t, <1>3 DEF EnsureFinalizer, RemoveFinalizer, NamespacesTyped, ReferentsTyped, TargetsTyped,
                      Mapping!MappingTypeOK
  <2> QED BY <1>t, <2>1, <2>3, <2>4, EndsTyped, FaultTyped, TypePartsNext
<1>4. CASE CreateTarget \/ PatchTarget
  <2>1. pc # "idle" /\ changes' = changes /\ (faults' = faults \/ Fault) /\ (Done \/ Retry)
    BY <1>4 DEF CreateTarget, PatchTarget, DoneOrReplyLost
  <2>2. copy.uid \in 1..MaxUid /\ copy.data \in Data /\ cur \in Secrets
    BY <1>c, <2>1, VersionParts
  <2>3. pc \in {"create", "patch"} => space \in 1..MaxSpaces
    BY <1>t, SecretAssumption DEF WorkerTyped
  <2>4. TargetsTyped'
    <3>1. CASE target' = target /\ tEvents' = tEvents
      BY <1>t, <1>4, <3>1 DEF CreateTarget, PatchTarget, TargetsTyped
    <3>2. CASE CreateTarget /\ ~(target' = target /\ tEvents' = tEvents)
      <4> DEFINE new == [space |-> space, uid |-> copy.uid, data |-> copy.data, life |-> "present"]
      <4>1. pc = "create" /\ target' = [target EXCEPT ![cur] = new]
            /\ seenTarget' = seenTarget /\ tEvents' = tEvents \cup {cur}
        BY <3>2 DEF CreateTarget
      <4>2. new \in Target
        BY <2>2, <2>3, <4>1 DEF Target
      <4> HIDE DEF new
      <4> QED BY <1>t, <2>2, <4>1, <4>2, PutTyped
    <3>3. CASE PatchTarget /\ ~(target' = target /\ tEvents' = tEvents)
      <4> DEFINE new == [target[cur] EXCEPT !.data = copy.data]
      <4>1. pc = "patch" /\ target' = [target EXCEPT ![cur] = new] /\ target[cur].space = space
            /\ seenTarget' = seenTarget /\ tEvents' = tEvents \cup {cur}
        BY <3>3 DEF PatchTarget
      <4>2. target[cur] # NoTarget /\ target[cur] \in Target \cup {NoTarget}
        BY <1>t, <2>2, <2>3, <4>1, SecretAssumption DEF TargetsTyped, NoTarget
      <4>3. new \in Target
        BY <2>2, <4>2, TargetParts
      <4> HIDE DEF new
      <4> QED BY <1>t, <2>2, <4>1, <4>3, PutTyped
    <3> QED BY <1>4, <3>1, <3>2, <3>3
  <2>5. NamespacesTyped' /\ SourceTyped' /\ ReferentsTyped'
    BY <1>t, <1>4 DEF CreateTarget, PatchTarget, NamespacesTyped, SourceTyped, ReferentsTyped,
                      Mapping!MappingTypeOK
  <2> QED BY <1>t, <2>1, <2>4, <2>5, EndsTyped, FaultTyped, TypePartsNext
<1>5. CASE DeleteTarget
  <2>1. pc = "delete" /\ cur \in Secrets /\ changes' = changes /\ faults' = faults /\ space # 0
    BY <1>t, <1>5, <1>c DEF DeleteTarget, WorkerTyped
  <2>2. WorkerTyped'
    <3>1. Retry \/ (Goto("release") /\ space' = space)
      BY <1>5 DEF DeleteTarget
    <3>2. space \in 0..MaxSpaces
      BY <1>t DEF WorkerTyped
    <3> QED BY <1>t, <2>1, <3>1, <3>2, EndsTyped, GoesTyped DEF DeleteSteps
  <2>3. TargetsTyped'
    <3>1. CASE target[cur].space # space
      BY <1>t, <1>5, <3>1 DEF DeleteTarget, TargetsTyped
    <3>2. CASE target[cur].space = space
      <4> DEFINE gone == [target[cur] EXCEPT !.life = "deleted"]
      <4>1. target[cur] # NoTarget /\ target[cur] \in Target \cup {NoTarget}
        BY <1>t, <2>1, <3>2 DEF TargetsTyped, NoTarget
      <4>2. gone \in Target
        BY <4>1, TargetParts
      <4>3. /\ target' = [target EXCEPT ![cur] = gone] \/ target' = [target EXCEPT ![cur] = NoTarget]
            /\ seenTarget' = seenTarget /\ tEvents' = tEvents \cup {cur}
        BY <1>5, <3>2 DEF DeleteTarget
      <4> HIDE DEF gone
      <4> QED BY <1>t, <2>1, <4>2, <4>3, PutTyped
    <3> QED BY <3>1, <3>2
  <2>4. NamespacesTyped' /\ SourceTyped' /\ ReferentsTyped'
    BY <1>t, <1>5 DEF DeleteTarget, NamespacesTyped, SourceTyped, ReferentsTyped,
                      Mapping!MappingTypeOK
  <2> QED BY <1>t, <2>1, <2>2, <2>3, <2>4, FaultTyped, TypePartsNext
<1> QED
  BY <1>1, <1>2, <1>3, <1>4, <1>5 DEF Work

\* The two clusters.
LEMMA TypeClusters ==
  ASSUME TypeOK, NEW s \in Secrets,
         \/ \E d \in Data : CreateSource(s, d) \/ UpdateSource(s, d) \/ TamperTarget(s, d)
         \/ DeleteSource(s) \/ TargetVanishes(s) \/ EvictTarget(s)
         \/ \E places \in SUBSET Places : Refer(s, places)
  PROVE  TypeOK'
<1>t. /\ NamespacesTyped /\ SourceTyped /\ ReferentsTyped /\ TargetsTyped
      /\ WorkerTyped /\ BoundsTyped
  BY TypeParts
<1>v. /\ src[s] \in Version /\ target[s] \in Target \cup {NoTarget} /\ NoTarget.life = "absent"
      /\ src[s].uid \in 0..MaxUid /\ src[s].data \in Data \cup {None}
      /\ src[s].phase # "absent" => src[s].uid # 0 /\ src[s].data # None
  BY <1>t, VersionParts, SecretAssumption DEF SourceTyped, TargetsTyped, NoTarget
<1> USE DEF namespace, source, referents, targets, worker
<1>u. /\ changes' = changes \/ \E bound \in {MaxChanges, MaxReturns} : Change(bound)
      /\ faults' = faults \/ Fault
      /\ UNCHANGED <<namespace, queue, worker>>
  BY DEF CreateSource, UpdateSource, TamperTarget, DeleteSource, TargetVanishes, EvictTarget,
         Refer, Meddle
<1>1. BoundsTyped' /\ NamespacesTyped' /\ WorkerTyped'
  <2>1. BoundsTyped'
    BY <1>t, <1>u, SecretAssumption DEF BoundsTyped, Change, Fault
  <2>2. NamespacesTyped' /\ WorkerTyped'
    BY <1>t, <1>u DEF NamespacesTyped, WorkerTyped, Mapping!MappingTypeOK
  <2> QED BY <2>1, <2>2
<1>2. ASSUME NEW d \in Data, CreateSource(s, d) PROVE SourceTyped'
  <2>1. src[s].uid + 1 \in 0..MaxUid /\ src[s].uid + 1 # 0 /\ d \in Data \cup {None} /\ d # None
    BY <1>v, <1>2, SecretAssumption DEF CreateSource
  <2>2. WriteSource(s, src[s].uid + 1, "live", FALSE, d)
    BY <1>2 DEF CreateSource
  <2> QED BY <1>t, <2>1, <2>2, WriteTyped
<1>3. ASSUME NEW d \in Data, UpdateSource(s, d) PROVE SourceTyped'
  <2>1. src[s].uid # 0 /\ d \in Data \cup {None} /\ d # None /\ src[s].fin \in BOOLEAN
    BY <1>v, <1>3, SecretAssumption, VersionParts DEF UpdateSource
  <2>2. WriteSource(s, src[s].uid, "live", src[s].fin, d)
    BY <1>3 DEF UpdateSource
  <2> QED BY <1>t, <1>v, <2>1, <2>2, WriteTyped
<1>4. ASSUME DeleteSource(s) PROVE SourceTyped'
  <2>1. src[s].uid # 0 /\ src[s].data # None /\ None \in Data \cup {None}
    BY <1>v, <1>4 DEF DeleteSource
  <2>2. CASE WriteSource(s, src[s].uid, "terminating", TRUE, src[s].data)
    BY <1>t, <1>v, <2>1, <2>2, WriteTyped
  <2>3. CASE WriteSource(s, src[s].uid, "absent", FALSE, None)
    BY <1>t, <1>v, <2>1, <2>3, WriteTyped
  <2> QED BY <1>4, <2>2, <2>3 DEF DeleteSource
<1>5. ASSUME NEW d \in Data, TamperTarget(s, d) PROVE TargetsTyped'
  <2> DEFINE new == [target[s] EXCEPT !.data = d]
  <2>1. target[s] # NoTarget
    BY <1>v, <1>5 DEF TamperTarget
  <2>2. new \in Target
    BY <1>v, <2>1, TargetParts
  <2>3. target' = [target EXCEPT ![s] = new] /\ seenTarget' = seenTarget /\ tEvents' = tEvents \cup {s}
    BY <1>5 DEF TamperTarget, Meddle
  <2> HIDE DEF new
  <2> QED BY <1>t, <2>2, <2>3, PutTyped
<1>6. ASSUME TargetVanishes(s) \/ EvictTarget(s) PROVE TargetsTyped'
  BY <1>t, <1>6, PutTyped DEF TargetVanishes, EvictTarget, Meddle
<1>7. ASSUME NEW places \in SUBSET Places, Refer(s, places) PROVE ReferentsTyped'
  BY <1>t, <1>7 DEF Refer, ReferentsTyped
<1>8. CASE \E d \in Data : CreateSource(s, d) \/ UpdateSource(s, d)
  BY <1>t, <1>1, <1>2, <1>3, <1>8, TypePartsNext
     DEF CreateSource, UpdateSource, ReferentsTyped, TargetsTyped
<1>9. CASE DeleteSource(s)
  BY <1>t, <1>1, <1>4, <1>9, TypePartsNext DEF DeleteSource, ReferentsTyped, TargetsTyped
<1>10. CASE (\E d \in Data : TamperTarget(s, d)) \/ TargetVanishes(s) \/ EvictTarget(s)
  BY <1>t, <1>1, <1>5, <1>6, <1>10, TypePartsNext
     DEF TamperTarget, TargetVanishes, EvictTarget, Meddle, SourceTyped, ReferentsTyped
<1>11. CASE \E places \in SUBSET Places : Refer(s, places)
  BY <1>t, <1>1, <1>7, <1>11, TypePartsNext DEF Refer, SourceTyped, TargetsTyped
<1> QED
  BY <1>8, <1>9, <1>10, <1>11

\* The Namespaces.
LEMMA TypeNamespaces ==
  ASSUME TypeOK, Namespaces
  PROVE  TypeOK'
<1>t. /\ NamespacesTyped /\ SourceTyped /\ ReferentsTyped /\ TargetsTyped
      /\ WorkerTyped /\ BoundsTyped
  BY TypeParts
<1>1. /\ UNCHANGED <<source, referents, targets, queue, worker, changes>>
      /\ faults' = faults \/ Fault
  BY DEF Namespaces, HomeIsBorn, HomeTerminates, HomeGoes, SpaceIsProvided, SpaceIsRetired,
         SpaceIsEvicted, SpaceVanishes, others
<1>2. NamespacesTyped'
  <2>1. Mapping!MappingTypeOK'
    BY <1>t DEF NamespacesTyped, Mapping!MappingTypeOK, Namespaces, HomeIsBorn, HomeTerminates,
                HomeGoes, SpaceIsProvided, SpaceIsRetired, SpaceIsEvicted, SpaceVanishes,
                Mapping!Born, Mapping!Terminate, Mapping!Go, Mapping!Live,
                Mapping!Provide, Mapping!Retire, Mapping!Evict, Mapping!Vanish, Mapping!Turn
  <2>2. \/ gen' = gen /\ nsEvent' = nsEvent
        \/ gen < MaxSpaces /\ gen' = gen + 1 /\ nsEvent' = TRUE
    BY DEF Namespaces, HomeIsBorn, HomeTerminates, HomeGoes, SpaceIsProvided, SpaceIsRetired,
           SpaceIsEvicted, SpaceVanishes
  <2>3. gen' \in 0..MaxSpaces
    BY <1>t, <2>2, SecretAssumption DEF NamespacesTyped
  <2>4. nsEvent' \in BOOLEAN
    <3>1. CASE nsEvent' = TRUE
      BY <3>1
    <3>2. CASE nsEvent' = nsEvent
      BY <1>t, <3>2 DEF NamespacesTyped
    <3> QED BY <2>2, <3>1, <3>2
  <2> QED BY <2>1, <2>3, <2>4 DEF NamespacesTyped
<1>3. SourceTyped' /\ ReferentsTyped' /\ TargetsTyped' /\ WorkerTyped'
  BY <1>t, <1>1 DEF SourceTyped, ReferentsTyped, TargetsTyped, WorkerTyped,
                    source, referents, targets, worker
<1> QED
  BY <1>t, <1>1, <1>2, <1>3, FaultTyped, TypePartsNext

\* The informers and a restart.
LEMMA TypeInformers ==
  ASSUME TypeOK,
         \/ \E s \in Secrets : ObserveSource(s) \/ ObserveReferents(s) \/ ObserveTarget(s)
         \/ ObserveSpaceCreated \/ Restart \/ UNCHANGED vars
  PROVE  TypeOK'
<1>t. /\ NamespacesTyped /\ SourceTyped /\ ReferentsTyped /\ TargetsTyped
      /\ WorkerTyped /\ BoundsTyped
  BY TypeParts
<1> USE DEF namespace, source, referents, targets, worker
<1>1. CASE \E s \in Secrets : ObserveSource(s) \/ ObserveReferents(s) \/ ObserveTarget(s)
  <2>1. PICK s \in Secrets : ObserveSource(s) \/ ObserveReferents(s) \/ ObserveTarget(s)
    BY <1>1
  <2>2. SourceTyped' /\ ReferentsTyped' /\ TargetsTyped'
    BY <1>t, <2>1 DEF ObserveSource, ObserveReferents, ObserveTarget,
                      SourceTyped, ReferentsTyped, TargetsTyped
  <2>3. NamespacesTyped' /\ WorkerTyped' /\ BoundsTyped'
    BY <1>t, <2>1 DEF ObserveSource, ObserveReferents, ObserveTarget, NamespacesTyped, WorkerTyped,
                      BoundsTyped, Mapping!MappingTypeOK
  <2> QED BY <2>2, <2>3, TypePartsNext
<1>2. CASE ObserveSpaceCreated
  BY <1>t, <1>2, TypePartsNext
     DEF ObserveSpaceCreated, NamespacesTyped, SourceTyped, ReferentsTyped, TargetsTyped, WorkerTyped,
         BoundsTyped, Mapping!MappingTypeOK
<1>3. CASE Restart
  <2>1. WorkerTyped'
    BY <1>3, NoVersionTyped, SecretAssumption DEF Restart, Finish, WorkerTyped
  <2>2. SourceTyped' /\ ReferentsTyped' /\ TargetsTyped'
    BY <1>t, <1>3 DEF Restart, SourceTyped, ReferentsTyped, TargetsTyped
  <2>3. NamespacesTyped'
    BY <1>t, <1>3 DEF Restart, NamespacesTyped, Mapping!MappingTypeOK
  <2>4. changes' = changes /\ Fault
    BY <1>3 DEF Restart
  <2> QED BY <1>t, <2>1, <2>2, <2>3, <2>4, FaultTyped, TypePartsNext
<1>4. CASE UNCHANGED vars
  BY <1>t, <1>4, TypePartsNext
     DEF vars, NamespacesTyped, SourceTyped, ReferentsTyped, TargetsTyped, WorkerTyped,
         BoundsTyped, Mapping!MappingTypeOK
<1> QED
  BY <1>1, <1>2, <1>3, <1>4

LEMMA TypeStep == TypeOK /\ RInv /\ [Next]_vars => TypeOK'
<1> SUFFICES ASSUME TypeOK, RInv, [Next]_vars PROVE TypeOK'
  OBVIOUS
<1> QED
  BY TypeWork, TypeClusters, TypeNamespaces, TypeInformers DEF Next

\* TypeOK: a worker with a call to make has the Secret it is about, and the target
\* Namespace it is to be made in, and no copy is made of a Secret without contents.
THEOREM TypeCorrect == Spec => []TypeOK
BY InitReleases, StepKeeps, TypeInit, TypeStep, PTL DEF Spec
===============================================================================
