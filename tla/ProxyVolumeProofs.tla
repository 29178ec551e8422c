-------------------------- MODULE ProxyVolumeProofs --------------------------
(***************************************************************************)
(* TypeOK and NeverForgotten of ProxyVolume, for any Volumes, worlds and   *)
(* bounds.                                                                 *)
(*                                                                         *)
(* What the worker writes may rest on old copies of the Volume and of the  *)
(* target.  A copy that is not the last one was replaced by an event that  *)
(* is still to come, or has put the Volume in the queue already.           *)
(***************************************************************************)
EXTENDS ProxyVolume, TLAPS

(***************************************************************************)
(* The types.                                                              *)
(***************************************************************************)
SourceTyped == src \in [Volumes -> Volume] /\ seen \in [Volumes -> Volume]

TargetTyped ==
  /\ target \in Target /\ tseen \in Target
  /\ target.there \/ target = NoTarget
  /\ events \subseteq Volumes /\ tevent \in BOOLEAN
  /\ ocopy \subseteq Owners

WorkerTyped ==
  /\ queue \subseteq Volumes
  /\ pc \in {"idle", "finalize", "own", "disown", "status", "release"}
  /\ IF pc = "idle" THEN cur = None ELSE cur \in Volumes
  /\ copy \in Volume /\ base \in Target
  /\ pc \in {"own", "disown"} => base.there

BoundsTyped ==
  /\ world \in Worlds
  /\ space \in BOOLEAN /\ spaceEvent \in BOOLEAN /\ homeSeen \in BOOLEAN
  /\ changes \in 0..MaxChanges /\ faults \in 0..MaxFaults

LEMMA TypeParts == TypeOK <=> SourceTyped /\ TargetTyped /\ WorkerTyped /\ BoundsTyped
BY DEF TypeOK, SourceTyped, TargetTyped, WorkerTyped, BoundsTyped

LEMMA TypePartsNext ==
  ASSUME SourceTyped', TargetTyped', WorkerTyped', BoundsTyped'
  PROVE  TypeOK'
BY DEF TypeOK, SourceTyped, TargetTyped, WorkerTyped, BoundsTyped

LEMMA NothingTyped == NoVolume \in Volume /\ NoTarget \in Target
<1>1. 0 \in 0..1 /\ {} \in SUBSET Owners
  OBVIOUS
<1> QED
  BY <1>1 DEF NoVolume, NoTarget, Volume, Target

LEMMA VolumeSet ==
  ASSUME NEW volume \in Volume
  PROVE  /\ [volume EXCEPT !.fin = TRUE] \in Volume /\ [volume EXCEPT !.fin = FALSE] \in Volume
         /\ [volume EXCEPT !.phase = "terminating"] \in Volume
         /\ \A x \in 0..1 : [volume EXCEPT !.state = x] \in Volume
         /\ volume.state \in 0..1 /\ volume.fin \in BOOLEAN
BY DEF Volume

LEMMA TargetSet ==
  ASSUME NEW t \in Target
  PROVE  /\ \A x \in SUBSET Owners : /\ [t EXCEPT !.owners = x] \in Target
                                     /\ [t EXCEPT !.owners = x].there = t.there
                                     /\ [t EXCEPT !.owners = x].owners = x
                                     /\ [t EXCEPT !.owners = x].state = t.state
         /\ \A x \in 0..1 : /\ [t EXCEPT !.state = x] \in Target
                            /\ [t EXCEPT !.state = x].there = t.there
                            /\ [t EXCEPT !.state = x].owners = t.owners
         /\ t.owners \subseteq Owners /\ t.state \in 0..1 /\ t.there \in BOOLEAN
BY DEF Target

LEMMA WriteTyped ==
  ASSUME SourceTyped, NEW v \in Volumes, NEW volume \in Volume, Write(v, volume)
  PROVE  src' \in [Volumes -> Volume]
BY NothingTyped DEF SourceTyped, Write

LEMMA WriteTargetTyped ==
  ASSUME TargetTyped, NEW t \in Target, t.there \/ t = NoTarget, WriteTarget(t),
         tseen' = tseen, ocopy' \subseteq Owners
  PROVE  TargetTyped'
<1>1. tevent' \in BOOLEAN
  BY DEF WriteTarget
<1> QED
  BY <1>1 DEF TargetTyped, WriteTarget

LEMMA EndsTyped ==
  ASSUME WorkerTyped, pc # "idle", Done \/ Retry
  PROVE  WorkerTyped'
BY NothingTyped DEF WorkerTyped, Done, Retry, Finish

LEMMA TypeInit == Init => TypeOK
<1> SUFFICES ASSUME Init PROVE TypeOK
  OBVIOUS
<1> DEFINE late == May("late")
           early == ~(May("late") \/ May("home"))
<1>1. BoundsTyped
  <2> DEFINE old == ~May("home")
  <2>1. old = TRUE \/ old = FALSE
    OBVIOUS
  <2>2. world \in Worlds /\ space = old /\ spaceEvent = FALSE /\ homeSeen = space
        /\ changes = 0 /\ faults = 0
    BY DEF Init
  <2> HIDE DEF old
  <2>3. space \in BOOLEAN /\ spaceEvent \in BOOLEAN /\ homeSeen \in BOOLEAN
    BY <2>1, <2>2, Zenon
  <2> QED BY <2>2, <2>3, ProxyAssumption DEF BoundsTyped
<1>2. SourceTyped
  <2>1. [NoVolume EXCEPT !.phase = "live", !.fin = early] \in Volume
    <3> DEFINE volume == [NoVolume EXCEPT !.phase = "live"]
    <3>1. volume \in Volume
      BY NothingTyped DEF NoVolume, Volume
    <3>2. early = TRUE \/ early = FALSE
      BY DEF May
    <3>3. [volume EXCEPT !.fin = TRUE] \in Volume /\ [volume EXCEPT !.fin = FALSE] \in Volume
      BY <3>1, VolumeSet
    <3>4. [NoVolume EXCEPT !.phase = "live", !.fin = early] = [volume EXCEPT !.fin = early]
      OBVIOUS
    <3> HIDE DEF early, volume
    <3> QED BY <3>2, <3>3, <3>4
  <2>2. src = [v \in Volumes |-> [NoVolume EXCEPT !.phase = "live", !.fin = early]]
        /\ seen = [v \in Volumes |-> NoVolume]
    BY DEF Init
  <2> HIDE DEF early
  <2> QED BY <2>1, <2>2, NothingTyped DEF SourceTyped
<1>3. TargetTyped
  <2>1. target = [NoTarget EXCEPT !.there = ~late] /\ tseen = target /\ events = {} /\ tevent = FALSE
        /\ ocopy = {}
    BY DEF Init
  <2>2. late \in BOOLEAN
    BY DEF May
  <2> HIDE DEF late
  <2>3. target \in Target /\ (target.there \/ target = NoTarget)
    BY <2>1, <2>2, NothingTyped DEF NoTarget, Target
  <2> QED BY <2>1, <2>3 DEF TargetTyped
<1>4. WorkerTyped
  BY NothingTyped DEF Init, WorkerTyped
<1> QED
  BY <1>1, <1>2, <1>3, <1>4, TypeParts

LEMMA TypeStep == TypeOK /\ [Next]_vars => TypeOK'
<1> SUFFICES ASSUME TypeOK, [Next]_vars PROVE TypeOK'
  OBVIOUS
<1>t. SourceTyped /\ TargetTyped /\ WorkerTyped /\ BoundsTyped
  BY TypeParts
<1>c. pc # "idle" => cur \in Volumes
  BY <1>t DEF WorkerTyped
<1> USE DEF sources, targets, spaces, worker
<1>1. ASSUME NEW v \in Volumes, Begin(v) PROVE TypeOK'
  <2>1. seen[v] \in Volume /\ tseen \in Target
    BY <1>t DEF SourceTyped, TargetTyped
  <2>2. WorkerTyped'
    BY <1>t, <1>1, <2>1, ProxyAssumption DEF Begin, WorkerTyped
  <2>3. SourceTyped' /\ TargetTyped' /\ BoundsTyped'
    BY <1>t, <1>1 DEF Begin, SourceTyped, TargetTyped, BoundsTyped
  <2> QED BY <2>2, <2>3, TypePartsNext
<1>2. CASE EnsureFinalizer \/ RemoveFinalizer
  <2>1. pc # "idle" /\ (Done \/ Retry)
    BY <1>2 DEF EnsureFinalizer, RemoveFinalizer
  <2>2. src[cur] \in Volume
    BY <1>t, <1>c, <2>1 DEF SourceTyped
  <2>3. \/ src' = src
        \/ Write(cur, [src[cur] EXCEPT !.fin = TRUE])
        \/ Write(cur, [src[cur] EXCEPT !.fin = FALSE])
    BY <1>2 DEF EnsureFinalizer, RemoveFinalizer
  <2>4. src' \in [Volumes -> Volume]
    BY <1>t, <1>c, <2>1, <2>2, <2>3, VolumeSet, WriteTyped DEF SourceTyped
  <2>5. SourceTyped' /\ TargetTyped' /\ BoundsTyped'
    BY <1>t, <1>2, <2>4 DEF EnsureFinalizer, RemoveFinalizer, SourceTyped, TargetTyped, BoundsTyped
  <2> QED BY <1>t, <2>1, <2>5, EndsTyped, TypePartsNext
<1>3. CASE ApplyTarget \/ DeleteTarget
  <2>1. pc # "idle" /\ cur \in Volumes
    BY <1>c, <1>3 DEF ApplyTarget, DeleteTarget
  <2>2. TargetTyped'
    <3>1. CASE UNCHANGED <<target, events, tevent>>
      BY <1>t, <1>3, <3>1 DEF ApplyTarget, DeleteTarget, TargetTyped
    <3>2. ASSUME NEW owners \in SUBSET Owners, target.there, Annotate(owners)
          PROVE  TargetTyped'
      <4> DEFINE a == IF owners = base.owners THEN target ELSE [target EXCEPT !.owners = owners]
      <4>1. a \in Target /\ a.there
        BY <1>t, <3>2, TargetSet DEF TargetTyped
      <4>2. WriteTarget(a)
        BY <3>2 DEF Annotate
      <4>3. tseen' = tseen /\ ocopy' \subseteq Owners
        BY <1>t, <1>3 DEF ApplyTarget, DeleteTarget, TargetTyped
      <4> HIDE DEF a
      <4> QED BY <1>t, <4>1, <4>2, <4>3, WriteTargetTyped
    <3>3. base.owners \subseteq Owners /\ cur \in Owners
      BY <1>t, <2>1, TargetSet DEF WorkerTyped, Owners
    <3>4. base.owners \cup {cur} \in SUBSET Owners /\ base.owners \ {cur} \in SUBSET Owners
      BY <3>3
    <3>5. \/ UNCHANGED <<target, events, tevent>>
          \/ target.there /\ Annotate(base.owners \cup {cur})
          \/ target.there /\ Annotate(base.owners \ {cur})
      BY <1>3 DEF ApplyTarget, DeleteTarget
    <3> QED BY <3>1, <3>2, <3>4, <3>5
  <2>3. WorkerTyped'
    <3>1. \/ Retry
          \/ pc' = "status" /\ base' = target' /\ UNCHANGED <<queue, cur, copy>>
          \/ Goto("release")
      BY <1>3 DEF ApplyTarget, DeleteTarget
    <3>2. target' \in Target
      BY <2>2 DEF TargetTyped
    <3> QED BY <1>t, <2>1, <3>1, <3>2, EndsTyped DEF Goto, WorkerTyped
  <2>4. SourceTyped' /\ BoundsTyped'
    BY <1>t, <1>3 DEF ApplyTarget, DeleteTarget, SourceTyped, BoundsTyped
  <2> QED BY <2>2, <2>3, <2>4, TypePartsNext
<1>4. CASE PatchStatus
  <2>1. pc # "idle" /\ cur \in Volumes /\ Done
    BY <1>c, <1>4 DEF PatchStatus
  <2> DEFINE x == IF base.state = copy.state THEN src[cur].state ELSE base.state
  <2>2. src[cur] \in Volume /\ x \in 0..1
    BY <1>t, <2>1, VolumeSet, TargetSet DEF SourceTyped, WorkerTyped
  <2>3. src' = [src EXCEPT ![cur] = [src[cur] EXCEPT !.state = x]]
    BY <1>4 DEF PatchStatus
  <2> HIDE DEF x
  <2>4. [src[cur] EXCEPT !.state = x] \in Volume
    BY <2>2, VolumeSet
  <2>5. SourceTyped' /\ TargetTyped' /\ BoundsTyped'
    BY <1>t, <1>4, <2>3, <2>4 DEF PatchStatus, SourceTyped, TargetTyped, BoundsTyped
  <2> QED BY <1>t, <2>1, <2>5, EndsTyped, TypePartsNext
<1>5. CASE CallFails
  <2>1. pc # "idle" /\ Retry
    BY <1>5 DEF CallFails
  <2>2. SourceTyped' /\ TargetTyped' /\ BoundsTyped'
    BY <1>t, <1>5, ProxyAssumption DEF CallFails, SourceTyped, TargetTyped, BoundsTyped
  <2> QED BY <1>t, <2>1, <2>2, EndsTyped, TypePartsNext
<1>6. CASE Restart
  <2>1. WorkerTyped'
    BY <1>6, NothingTyped DEF Restart, Finish, WorkerTyped
  <2>2. SourceTyped' /\ TargetTyped'
    BY <1>t, <1>6 DEF Restart, SourceTyped, TargetTyped
  <2>3. BoundsTyped'
    <3>1. homeSeen' = TRUE /\ spaceEvent' = FALSE
      BY <1>6 DEF Restart
    <3>2. world' \in Worlds /\ space' \in BOOLEAN /\ changes' \in 0..MaxChanges /\ faults' \in 0..MaxFaults
      BY <1>t, <1>6, ProxyAssumption DEF Restart, BoundsTyped
    <3> QED BY <3>1, <3>2 DEF BoundsTyped
  <2> QED BY <2>1, <2>2, <2>3, TypePartsNext
<1>7. CASE Informers \/ SpaceIsProvided
  <2>1. SourceTyped' /\ TargetTyped'
    BY <1>t, <1>7 DEF Informers, ObserveTarget, ObserveVolume, ObserveHome, ObserveSpaceCreated,
                      SpaceIsProvided, SourceTyped, TargetTyped
  <2>2. WorkerTyped' /\ BoundsTyped'
    BY <1>t, <1>7 DEF Informers, ObserveTarget, ObserveVolume, ObserveHome, ObserveSpaceCreated,
                      SpaceIsProvided, TargetTyped, WorkerTyped, BoundsTyped
  <2> QED BY <2>1, <2>2, TypePartsNext
<1>8. ASSUME NEW v \in Volumes, DeleteVolume(v) PROVE TypeOK'
  <2>1. src[v] \in Volume
    BY <1>t DEF SourceTyped
  <2>2. \E volume \in Volume : Write(v, volume)
    BY <1>8, <2>1, VolumeSet, NothingTyped DEF DeleteVolume
  <2>3. src' \in [Volumes -> Volume]
    BY <1>t, <2>2, WriteTyped
  <2>4. SourceTyped' /\ TargetTyped' /\ WorkerTyped' /\ BoundsTyped'
    BY <1>t, <1>8, <2>3 DEF DeleteVolume, SourceTyped, TargetTyped, WorkerTyped, BoundsTyped
  <2> QED BY <2>4, TypePartsNext
<1>9. ASSUME NEW t \in Target, t.there \/ t = NoTarget, ChangeTarget(t), ocopy' \subseteq Owners
      PROVE  TypeOK'
  <2>1. WriteTarget(t) /\ tseen' = tseen
    BY <1>9 DEF ChangeTarget
  <2>2. TargetTyped'
    BY <1>t, <1>9, <2>1, WriteTargetTyped
  <2>3. SourceTyped' /\ WorkerTyped' /\ BoundsTyped'
    BY <1>t, <1>9, ProxyAssumption DEF ChangeTarget, SourceTyped, WorkerTyped, BoundsTyped
  <2> QED BY <2>2, <2>3, TypePartsNext
<1>10. CASE ProvideTarget
  <2>1. [NoTarget EXCEPT !.there = TRUE] \in Target /\ [NoTarget EXCEPT !.there = TRUE].there
    BY NothingTyped DEF NoTarget, Target
  <2> QED BY <1>t, <1>9, <1>10, <2>1 DEF ProvideTarget, TargetTyped
<1>11. CASE EvictTarget
  BY <1>t, <1>9, <1>11, NothingTyped DEF EvictTarget, TargetTyped
<1>12. CASE Report
  <2> DEFINE x == 1 - target.state
  <2>1. x \in 0..1 /\ target \in Target
    <3>1. target \in Target
      BY <1>t DEF TargetTyped
    <3>2. target.state \in 0..1
      BY <3>1, TargetSet
    <3>3. target.state = 0 \/ target.state = 1
      BY <3>2
    <3> QED BY <3>1, <3>3
  <2>2. target.there /\ ChangeTarget([target EXCEPT !.state = x]) /\ ocopy' = ocopy
    BY <1>12 DEF Report
  <2> HIDE DEF x
  <2> QED BY <1>t, <1>9, <2>1, <2>2, TargetSet DEF TargetTyped
<1>13. CASE OtherReads
  <2>1. TargetTyped'
    BY <1>t, <1>13, TargetSet DEF OtherReads, TargetTyped
  <2>2. SourceTyped' /\ WorkerTyped' /\ BoundsTyped'
    BY <1>t, <1>13 DEF OtherReads, SourceTyped, WorkerTyped, BoundsTyped
  <2> QED BY <2>1, <2>2, TypePartsNext
<1>14. CASE OtherWrites
  <2>1. PICK owners \in {ocopy \cup {Other}, ocopy \ {Other}} \ {ocopy} :
          ChangeTarget([target EXCEPT !.owners = owners]) /\ ocopy' = owners
    BY <1>14 DEF OtherWrites
  <2>2. owners \subseteq Owners /\ target \in Target /\ target.there
    BY <1>t, <1>14 DEF OtherWrites, TargetTyped, Owners
  <2> QED BY <1>9, <2>1, <2>2, TargetSet
<1>15. CASE UNCHANGED vars
  <2>1. SourceTyped' /\ TargetTyped' /\ WorkerTyped' /\ BoundsTyped'
    BY <1>t, <1>15 DEF vars, SourceTyped, TargetTyped, WorkerTyped, BoundsTyped
  <2> QED BY <2>1, TypePartsNext
<1> QED
  BY <1>1, <1>2, <1>3, <1>4, <1>5, <1>6, <1>7, <1>8, <1>10, <1>11, <1>12, <1>13, <1>14, <1>15
     DEF Next, Work, Clusters

\* TypeOK: the worker never writes to a target it did not find in its cache, and
\* the target has no owners but those who register, and none when it is gone.
THEOREM TypeCorrect == Spec => []TypeOK
BY TypeInit, TypeStep, PTL DEF Spec

(***************************************************************************)
(* NeverForgotten.                                                         *)
(***************************************************************************)
Noted(v)  == v \in queue \/ (tevent /\ v \in events)
InStep(v) == v \in target.owners /\ src[v].state = target.state

\* The creation of the target Namespace is to enqueue everything.
Awaited == ~space \/ spaceEvent

Remembered(v) ==
  src[v].phase = "live" => InStep(v) \/ cur = v \/ Noted(v) \/ seen[v] # src[v] \/ Awaited

\* What is not the last version of a Volume or of the owners has been replaced by
\* an event that is still to come.
SeenLag(v)   == seen[v].phase = "terminating" => src[v].phase # "live"
TargetLag(v) == v \in tseen.owners \ target.owners => tevent /\ v \in events

\* The worker may hold older versions; then its Volume is to be looked at again.
CopyLag == pc # "idle" => copy = seen[cur] \/ cur \in queue
BaseLag ==
  /\ pc = "own" /\ cur \in base.owners \ target.owners => Noted(cur)
  /\ pc = "status" /\ (cur \notin target.owners \/ base.state # target.state) => Noted(cur)

\* What the worker is about to do was right for the copy, and a deletion is for good.
Purpose ==
  /\ pc = "finalize" => ~copy.fin
  /\ pc \in {"disown", "release"} => src[cur].phase # "live"

\* As long as Home is not cached, nothing has been done for its Volumes.
HomeFirst ==
  ~homeSeen =>
    /\ ~space /\ ~spaceEvent /\ queue = {} /\ pc = "idle" /\ events = {}
    /\ target.owners \cap Volumes = {} /\ ocopy \cap Volumes = {}

Lags    == \A v \in Volumes : Remembered(v) /\ SeenLag(v) /\ TargetLag(v)
MindInv == Lags /\ CopyLag /\ BaseLag /\ Purpose

\* Who loses its entry, or is an owner when the state changes, is noted.
LEMMA WriteNotes ==
  ASSUME NEW t, WriteTarget(t), queue \subseteq queue', NEW v \in Volumes
  PROVE  /\ Noted(v) => Noted(v)'
         /\ tevent /\ v \in events => tevent' /\ v \in events'
         /\ v \in target.owners /\ (v \notin t.owners \/ t.state # target.state)
              => tevent' /\ v \in events'
         /\ target' = t
BY DEF WriteTarget, Noted

\* A write to the target forgets nobody but the Volume of a worker that ends.
LEMMA WriteMinds ==
  ASSUME Lags, NEW t, WriteTarget(t), src' = src, seen' = seen, tseen' = tseen, UNCHANGED spaces,
         queue \subseteq queue', cur' = cur \/ cur \in queue'
  PROVE  Lags'
<1> SUFFICES ASSUME NEW v \in Volumes PROVE (Remembered(v) /\ SeenLag(v) /\ TargetLag(v))'
  BY DEF Lags
<1>1. Remembered(v) /\ SeenLag(v) /\ TargetLag(v)
  BY DEF Lags
<1>2. /\ Noted(v) => Noted(v)'
      /\ tevent /\ v \in events => tevent' /\ v \in events'
      /\ v \in target.owners /\ (v \notin t.owners \/ t.state # target.state)
           => tevent' /\ v \in events'
      /\ target' = t
  BY WriteNotes
<1>3. Remembered(v)'
  BY <1>1, <1>2 DEF Remembered, InStep, Noted, Awaited, spaces
<1>4. SeenLag(v)' /\ TargetLag(v)'
  BY <1>1, <1>2 DEF SeenLag, TargetLag
<1> QED
  BY <1>3, <1>4

\* A pass of the worker that ends leaves nothing to mind but its Volume.
LEMMA EndMinds ==
  ASSUME pc' = "idle"
  PROVE  CopyLag' /\ BaseLag' /\ Purpose'
BY DEF CopyLag, BaseLag, Purpose

\* A pass that ends and is to be repeated, with nothing written.
LEMMA RetryMinds ==
  ASSUME MindInv, Retry, UNCHANGED <<src, seen, target, tseen, events, tevent, spaces>>
  PROVE  MindInv'
<1>1. pc' = "idle" /\ queue' = queue \cup {cur}
  BY DEF Retry, Finish
<1>2. Lags'
  BY <1>1 DEF MindInv, Lags, Remembered, SeenLag, TargetLag, Noted, InStep, Awaited, spaces
<1> QED
  BY <1>1, <1>2, EndMinds DEF MindInv

\* The worker writes to its Volume, which is still to be looked at if it is live.
LEMMA WriteVolumeMinds ==
  ASSUME TypeOK, MindInv, pc # "idle", Done,
         UNCHANGED <<seen, target, tseen, events, tevent, spaces>>,
         \A v \in Volumes \ {cur} : src'[v] = src[v],
         src'[cur].phase = "live" =>
           /\ src[cur].phase = "live"
           /\ \/ cur \in target.owners /\ src'[cur].state = target.state
              \/ Noted(cur) \/ seen[cur] # src'[cur]
  PROVE  MindInv'
<1>1. pc' = "idle" /\ queue' = queue
  BY DEF Done, Finish
<1>2. ASSUME NEW v \in Volumes PROVE (Remembered(v) /\ SeenLag(v) /\ TargetLag(v))'
  <2>1. Remembered(v) /\ SeenLag(v) /\ TargetLag(v)
    BY DEF MindInv, Lags
  <2>2. TargetLag(v)'
    BY <2>1 DEF TargetLag
  <2>3. CASE v = cur
    BY <1>1, <2>1, <2>2, <2>3 DEF Remembered, SeenLag, Noted, InStep, Awaited, spaces
  <2>4. CASE v # cur
    BY <1>1, <2>1, <2>2, <2>4 DEF Remembered, SeenLag, Noted, InStep, Awaited, spaces
  <2> QED BY <2>3, <2>4
<1>3. Lags'
  BY <1>2 DEF Lags
<1> QED
  BY <1>1, <1>3, EndMinds DEF MindInv

LEMMA BeginMinds ==
  ASSUME TypeOK, MindInv, NEW v \in Volumes, Begin(v)
  PROVE  MindInv'
<1>t. pc = "idle" /\ cur = None /\ \A u \in Volumes : cur # u
  BY ProxyAssumption DEF Begin, TypeOK
<1>i. \A u \in Volumes : Remembered(u) /\ SeenLag(u) /\ TargetLag(u)
  BY DEF MindInv, Lags
<1>u. UNCHANGED <<src, seen, target, tseen, events, tevent, space, spaceEvent>>
  BY DEF Begin, sources, targets, spaces
<1> DEFINE Turn(step) == /\ pc' = step /\ cur' = v /\ copy' = seen[v] /\ base' = tseen
                         /\ queue' = queue \ {v}
<1>1. \A u \in Volumes : SeenLag(u)' /\ TargetLag(u)'
  BY <1>i, <1>u DEF SeenLag, TargetLag
<1>2. ASSUME NEW step \in {"finalize", "own", "disown", "release"}, Turn(step),
             step = "finalize" => ~seen[v].fin,
             step \in {"disown", "release"} => seen[v].phase = "terminating"
      PROVE  MindInv'
  <2>1. \A u \in Volumes : Remembered(u)'
    BY <1>t, <1>i, <1>u, <1>2 DEF Remembered, InStep, Noted, Awaited
  <2>2. CopyLag' /\ Purpose'
    BY <1>i, <1>u, <1>2 DEF CopyLag, Purpose, SeenLag
  <2>3. BaseLag'
    BY <1>i, <1>u, <1>2 DEF BaseLag, TargetLag, Noted
  <2> QED BY <1>1, <2>1, <2>2, <2>3 DEF MindInv, Lags
<1>3. ASSUME queue' = queue \ {v}, UNCHANGED worker,
             seen[v].phase \in {"absent", "terminating"}
      PROVE  MindInv'
  <2>1. ASSUME NEW u \in Volumes PROVE Remembered(u)'
    BY <1>t, <1>i, <1>u, <1>3 DEF Remembered, InStep, Noted, Awaited, SeenLag, worker
  <2>2. pc' = "idle"
    BY <1>t, <1>3 DEF worker
  <2> QED BY <1>1, <2>1, <2>2, EndMinds DEF MindInv, Lags
<1>4. CASE UNCHANGED <<queue, worker>>
  <2>1. \A u \in Volumes : Remembered(u)'
    BY <1>t, <1>i, <1>u, <1>4 DEF Remembered, InStep, Noted, Awaited, worker
  <2>2. pc' = "idle"
    BY <1>t, <1>4 DEF worker
  <2> QED BY <1>1, <2>1, <2>2, EndMinds DEF MindInv, Lags
<1>5. \/ queue' = queue \ {v} /\ UNCHANGED worker /\ seen[v].phase \in {"absent", "terminating"}
      \/ UNCHANGED <<queue, worker>>
      \/ seen[v].phase = "terminating" /\ (Turn("disown") \/ Turn("release"))
      \/ ~seen[v].fin /\ Turn("finalize")
      \/ Turn("own")
  BY DEF Begin
<1> HIDE DEF Turn
<1> QED
  BY <1>2, <1>3, <1>4, <1>5

LEMMA WorkMinds ==
  ASSUME TypeOK, MindInv,
         EnsureFinalizer \/ ApplyTarget \/ DeleteTarget \/ PatchStatus \/ RemoveFinalizer \/ CallFails
  PROVE  MindInv'
<1>t. /\ pc # "idle" /\ cur \in Volumes
      /\ src \in [Volumes -> Volume] /\ seen \in [Volumes -> Volume] /\ src[cur] \in Volume
      /\ target \in Target /\ base \in Target
  <2>1. pc # "idle"
    BY DEF EnsureFinalizer, ApplyTarget, DeleteTarget, PatchStatus, RemoveFinalizer, CallFails
  <2> QED BY <2>1 DEF TypeOK
<1>i. Lags /\ CopyLag /\ BaseLag /\ Purpose
  BY DEF MindInv
<1> USE DEF sources, targets
<1>1. CASE EnsureFinalizer
  <2>1. pc = "finalize" /\ UNCHANGED <<seen, target, tseen, events, tevent, spaces>>
    BY <1>1 DEF EnsureFinalizer
  <2>2. CASE src[cur].phase = "live" /\ Write(cur, [src[cur] EXCEPT !.fin = TRUE]) /\ Done
    <3>1. /\ [src[cur] EXCEPT !.fin = TRUE].fin = TRUE
          /\ [src[cur] EXCEPT !.fin = TRUE].phase = "live"
      BY <1>t, <2>2 DEF Volume
    <3>2. src' = [src EXCEPT ![cur] = [src[cur] EXCEPT !.fin = TRUE]]
      BY <2>2, <3>1 DEF Write
    <3>3. \A v \in Volumes \ {cur} : src'[v] = src[v]
      BY <1>t, <3>2
    <3>4. src'[cur].fin = TRUE
      BY <1>t, <3>1, <3>2
    <3>5. ~copy.fin /\ (copy = seen[cur] \/ cur \in queue)
      BY <1>t, <1>i, <2>1 DEF CopyLag, Purpose
    <3>6. Noted(cur) \/ seen[cur] # src'[cur]
      BY <3>4, <3>5 DEF Noted
    <3> QED BY <1>t, <2>1, <2>2, <3>3, <3>6, WriteVolumeMinds
  <2>3. CASE Retry /\ UNCHANGED src
    BY <2>1, <2>3, RetryMinds
  <2>4. CASE src[cur].phase # "live"
    BY <1>1, <2>3, <2>4 DEF EnsureFinalizer
  <2> QED BY <1>1, <2>2, <2>3, <2>4 DEF EnsureFinalizer
<1>2. CASE ApplyTarget
  <2>1. pc = "own" /\ UNCHANGED <<src, seen, tseen, spaces>>
    BY <1>2 DEF ApplyTarget
  <2>2. CASE /\ Annotate(base.owners \cup {cur})
             /\ pc' = "status" /\ base' = target' /\ UNCHANGED <<queue, cur, copy>>
    <3> DEFINE owners == base.owners \cup {cur}
               a == IF owners = base.owners THEN target ELSE [target EXCEPT !.owners = owners]
    <3>1. WriteTarget(a)
      BY <2>2 DEF Annotate
    <3>2. cur \notin a.owners => cur \in base.owners \ target.owners
      BY <1>t DEF Target
    <3> HIDE DEF a
    <3>3. Lags'
      BY <1>i, <2>1, <2>2, <3>1, WriteMinds
    <3>4. CopyLag' /\ Purpose'
      BY <1>i, <2>1, <2>2 DEF CopyLag, Purpose
    <3>5. BaseLag'
      <4>1. target' = a /\ (Noted(cur) => Noted(cur)')
        BY <1>t, <2>2, <3>1, WriteNotes
      <4>2. cur \notin target'.owners => Noted(cur)'
        BY <1>i, <2>1, <3>2, <4>1 DEF BaseLag
      <4> QED BY <2>2, <4>2 DEF BaseLag, Noted
    <3> QED BY <3>3, <3>4, <3>5 DEF MindInv
  <2>3. CASE Retry /\ UNCHANGED <<target, events, tevent>>
    BY <2>1, <2>3, RetryMinds
  <2> QED BY <1>2, <2>2, <2>3 DEF ApplyTarget
<1>3. CASE DeleteTarget
  <2>1. pc = "disown" /\ UNCHANGED <<src, seen, tseen, spaces>> /\ Goto("release")
    BY <1>3 DEF DeleteTarget
  <2>2. Lags'
    <3>1. CASE UNCHANGED <<target, events, tevent>>
      BY <1>i, <2>1, <3>1 DEF Goto, Lags, Remembered, SeenLag, TargetLag, Noted, InStep,
                                      Awaited, spaces
    <3>2. ASSUME NEW a, WriteTarget(a)
          PROVE  Lags'
      BY <1>i, <2>1, <3>2, WriteMinds DEF Goto
    <3> QED BY <1>3, <3>1, <3>2 DEF DeleteTarget, Annotate
  <2>3. CopyLag' /\ BaseLag' /\ Purpose'
    BY <1>i, <2>1 DEF Goto, CopyLag, BaseLag, Purpose
  <2> QED BY <2>2, <2>3 DEF MindInv
<1>4. CASE PatchStatus
  <2>1. pc = "status" /\ Done /\ UNCHANGED <<seen, target, tseen, events, tevent, spaces>>
    BY <1>4 DEF PatchStatus
  <2> DEFINE x == IF base.state = copy.state THEN src[cur].state ELSE base.state
             volume == [src[cur] EXCEPT !.state = x]
  <2>2. volume.phase = src[cur].phase /\ volume.state = x
    BY <1>t DEF Volume
  <2>3. src' = [src EXCEPT ![cur] = volume]
    BY <1>4 DEF PatchStatus
  <2>4. copy = seen[cur] \/ Noted(cur)
    BY <1>t, <1>i DEF CopyLag, Noted
  <2>5. (cur \in target.owners /\ base.state = target.state) \/ Noted(cur)
    BY <1>i, <2>1 DEF BaseLag
  <2> HIDE DEF volume
  <2>6. src'[cur] = volume /\ \A v \in Volumes \ {cur} : src'[v] = src[v]
    BY <1>t, <2>3
  <2>7. \/ cur \in target.owners /\ src'[cur].state = target.state
        \/ Noted(cur) \/ seen[cur] # src'[cur]
    BY <2>2, <2>4, <2>5, <2>6
  <2> QED BY <1>t, <2>1, <2>2, <2>6, <2>7, WriteVolumeMinds
<1>5. CASE RemoveFinalizer
  <2>1. pc = "release" /\ src[cur].phase # "live" /\ UNCHANGED <<seen, target, tseen, events, tevent, spaces>>
    BY <1>i, <1>5 DEF RemoveFinalizer, Purpose
  <2>2. CASE Write(cur, [src[cur] EXCEPT !.fin = FALSE]) /\ Done
    <3> DEFINE volume == [src[cur] EXCEPT !.fin = FALSE]
               o == IF volume.phase = "terminating" /\ ~volume.fin THEN NoVolume ELSE volume
    <3>1. o.phase # "live"
      BY <1>t, <2>1 DEF Volume, NoVolume
    <3>2. src' = [src EXCEPT ![cur] = o]
      BY <2>2 DEF Write
    <3> HIDE DEF o
    <3>3. src'[cur] = o /\ \A v \in Volumes \ {cur} : src'[v] = src[v]
      BY <1>t, <3>2
    <3> QED BY <1>t, <2>1, <2>2, <3>1, <3>3, WriteVolumeMinds
  <2>3. CASE Retry /\ UNCHANGED src
    BY <2>1, <2>3, RetryMinds
  <2> QED BY <1>5, <2>2, <2>3 DEF RemoveFinalizer
<1>6. CASE CallFails
  BY <1>6, RetryMinds DEF CallFails
<1> QED
  BY <1>1, <1>2, <1>3, <1>4, <1>5, <1>6

\* What is observed is put in the queue; a restart puts everything there.
LEMMA InformersMind ==
  ASSUME TypeOK, HomeFirst, MindInv, Informers \/ Restart
  PROVE  MindInv'
<1>t. src \in [Volumes -> Volume] /\ seen \in [Volumes -> Volume]
  BY DEF TypeOK
<1>i. /\ \A v \in Volumes : Remembered(v) /\ SeenLag(v) /\ TargetLag(v)
      /\ CopyLag /\ BaseLag /\ Purpose
  BY DEF MindInv, Lags
<1> USE DEF targets, worker
<1>1. CASE ObserveTarget
  <2>1. \A v \in Volumes : Noted(v) => Noted(v)'
    BY <1>1 DEF ObserveTarget, Noted
  <2>2. \A v \in Volumes : Remembered(v)'
    BY <1>i, <1>1, <2>1 DEF ObserveTarget, sources, spaces, Remembered, InStep, Awaited
  <2>3. \A v \in Volumes : SeenLag(v)' /\ TargetLag(v)'
    BY <1>i, <1>1 DEF ObserveTarget, sources, SeenLag, TargetLag
  <2>4. CopyLag' /\ Purpose'
    BY <1>i, <1>1 DEF ObserveTarget, sources, CopyLag, Purpose
  <2>5. BaseLag'
    <3>1. cur \in Volumes \/ pc = "idle"
      BY DEF TypeOK
    <3> QED BY <1>i, <1>1, <2>1, <3>1 DEF ObserveTarget, BaseLag
  <2> QED BY <2>2, <2>3, <2>4, <2>5 DEF MindInv, Lags
<1>2. ASSUME NEW u \in Volumes, ObserveVolume(u) PROVE MindInv'
  <2>1. \A v \in Volumes : Noted(v) => Noted(v)'
    BY <1>2 DEF ObserveVolume, Noted
  <2>2. \A v \in Volumes : v # u => seen'[v] = seen[v]
    BY <1>t, <1>2 DEF ObserveVolume
  <2>3. seen'[u] = src[u] /\ (Noted(u)' \/ Awaited')
    BY <1>t, <1>2 DEF ObserveVolume, spaces, HomeFirst, Noted, Awaited
  <2>4. \A v \in Volumes : Remembered(v)' /\ SeenLag(v)' /\ TargetLag(v)'
    BY <1>i, <1>2, <2>1, <2>2, <2>3
       DEF ObserveVolume, Remembered, InStep, SeenLag, TargetLag, Awaited, spaces
  <2>5. CopyLag'
    <3>1. pc # "idle" => cur \in Volumes /\ homeSeen
      BY DEF TypeOK, HomeFirst
    <3> QED BY <1>i, <1>2, <2>2, <3>1 DEF ObserveVolume, CopyLag
  <2>6. BaseLag' /\ Purpose'
    BY <1>i, <1>2, <2>1 DEF ObserveVolume, BaseLag, Purpose, Noted
  <2> QED BY <2>4, <2>5, <2>6 DEF MindInv, Lags
<1>3. CASE Restart
  <2>1. pc' = "idle" /\ seen' = src /\ src' = src /\ tseen' = target /\ target' = target
        /\ queue' = {v \in Volumes : src[v].phase # "absent"}
    BY <1>3 DEF Restart, Finish
  <2>2. Lags'
    BY <2>1 DEF Lags, Remembered, SeenLag, TargetLag, Noted
  <2> QED BY <2>1, <2>2, EndMinds DEF MindInv
<1>4. CASE ObserveHome
  BY <1>i, <1>4 DEF ObserveHome, sources, MindInv, Lags, Remembered, InStep, Noted, Awaited,
                    SeenLag, TargetLag, CopyLag, BaseLag, Purpose
<1>5. CASE ObserveSpaceCreated
  <2>1. /\ UNCHANGED <<src, seen, target, tseen, events, tevent, pc, cur, copy, base>>
        /\ queue \subseteq queue'
        /\ \A v \in Volumes : seen[v].phase # "absent" => v \in queue'
    BY <1>5 DEF ObserveSpaceCreated, sources
  <2>2. \A v \in Volumes : Remembered(v)'
    <3> SUFFICES ASSUME NEW v \in Volumes, src[v].phase = "live"
                 PROVE  InStep(v)' \/ cur' = v \/ Noted(v)' \/ seen'[v] # src'[v]
      BY <2>1 DEF Remembered
    <3>1. CASE seen[v].phase = "absent"
      BY <2>1, <3>1
    <3>2. CASE seen[v].phase # "absent"
      BY <2>1, <3>2 DEF Noted
    <3> QED BY <3>1, <3>2
  <2>3. \A v \in Volumes : SeenLag(v)' /\ TargetLag(v)'
    BY <1>i, <2>1 DEF SeenLag, TargetLag
  <2>4. CopyLag' /\ BaseLag' /\ Purpose'
    BY <1>i, <2>1 DEF CopyLag, BaseLag, Noted, Purpose
  <2> QED BY <2>2, <2>3, <2>4 DEF MindInv, Lags
<1> QED
  BY <1>1, <1>2, <1>3, <1>4, <1>5 DEF Informers

\* The clusters: a Volume is deleted for good; a change of the target notes who
\* has lost by it.
LEMMA ClustersMind ==
  ASSUME TypeOK, MindInv, Clusters
  PROVE  MindInv'
<1>t. src \in [Volumes -> Volume] /\ target \in Target /\ (pc # "idle" => cur \in Volumes)
  BY DEF TypeOK
<1>i. Lags /\ CopyLag /\ BaseLag /\ Purpose
  BY DEF MindInv
<1> USE DEF sources, targets, worker
<1>1. ASSUME NEW u \in Volumes, DeleteVolume(u) PROVE MindInv'
  <2>1. \E o : src' = [src EXCEPT ![u] = o] /\ o.phase # "live"
    <3>1. NoVolume.phase # "live" /\ [src[u] EXCEPT !.phase = "terminating"].phase # "live"
      BY <1>t DEF NoVolume, Volume
    <3> QED BY <1>1, <3>1 DEF DeleteVolume, Write
  <2>2. src'[u].phase # "live" /\ \A v \in Volumes : v # u => src'[v] = src[v]
    BY <1>t, <2>1
  <2>3. UNCHANGED <<seen, target, tseen, events, tevent, spaces, queue, pc, cur, copy, base>>
    BY <1>1 DEF DeleteVolume
  <2>4. Lags'
    <3> SUFFICES ASSUME NEW v \in Volumes PROVE (Remembered(v) /\ SeenLag(v) /\ TargetLag(v))'
      BY DEF Lags
    <3>1. Remembered(v) /\ SeenLag(v) /\ TargetLag(v)
      BY <1>i DEF Lags
    <3>2. CASE v = u
      BY <2>2, <2>3, <3>1, <3>2 DEF Remembered, SeenLag, TargetLag
    <3>3. CASE v # u
      BY <2>2, <2>3, <3>1, <3>3 DEF Remembered, InStep, Noted, Awaited, spaces, SeenLag, TargetLag
    <3> QED BY <3>2, <3>3
  <2>5. CopyLag' /\ BaseLag' /\ Purpose'
    BY <1>t, <1>i, <2>2, <2>3 DEF CopyLag, BaseLag, Noted, Purpose
  <2> QED BY <2>4, <2>5 DEF MindInv
<1>2. ASSUME NEW t, ChangeTarget(t) PROVE MindInv'
  <2>1. /\ WriteTarget(t)
        /\ UNCHANGED <<src, seen, tseen, spaces, queue, pc, cur, copy, base>>
    BY <1>2 DEF ChangeTarget
  <2>2. Lags'
    BY <1>i, <2>1, WriteMinds
  <2>3. CopyLag' /\ Purpose'
    BY <1>i, <2>1 DEF CopyLag, Purpose
  <2>4. BaseLag'
    <3>1. CASE pc = "idle"
      BY <2>1, <3>1 DEF BaseLag
    <3>2. CASE pc # "idle"
      <4>1. /\ Noted(cur) => Noted(cur)'
            /\ cur \in target.owners /\ (cur \notin t.owners \/ t.state # target.state) => Noted(cur)'
            /\ target' = t
        BY <1>t, <2>1, <3>2, WriteNotes DEF Noted
      <4> QED BY <1>i, <2>1, <4>1 DEF BaseLag
    <3> QED BY <3>1, <3>2
  <2> QED BY <2>2, <2>3, <2>4 DEF MindInv
<1>3. CASE OtherReads
  BY <1>3 DEF OtherReads, spaces, MindInv, Lags, Remembered, InStep, Noted, Awaited, SeenLag,
              TargetLag, CopyLag, BaseLag, Purpose
<1>4. CASE SpaceIsProvided
  <2>1. \A v \in Volumes : Remembered(v)'
    BY <1>4 DEF SpaceIsProvided, Remembered, Awaited
  <2>2. \A v \in Volumes : SeenLag(v)' /\ TargetLag(v)'
    BY <1>i, <1>4 DEF SpaceIsProvided, Lags, SeenLag, TargetLag
  <2>3. CopyLag' /\ BaseLag' /\ Purpose'
    BY <1>i, <1>4 DEF SpaceIsProvided, CopyLag, BaseLag, Noted, Purpose
  <2> QED BY <2>1, <2>2, <2>3 DEF MindInv, Lags
<1> QED
  BY <1>1, <1>2, <1>3, <1>4 DEF Clusters, ProvideTarget, EvictTarget, Report, OtherWrites

LEMMA MindStep == TypeOK /\ HomeFirst /\ MindInv /\ [Next]_vars => MindInv'
<1> SUFFICES ASSUME TypeOK, HomeFirst, MindInv, [Next]_vars PROVE MindInv'
  OBVIOUS
<1>1. CASE UNCHANGED vars
  BY <1>1 DEF vars, MindInv, Lags, Remembered, InStep, Noted, Awaited, SeenLag, TargetLag, CopyLag,
              BaseLag, Purpose
<1> QED
  BY <1>1, BeginMinds, WorkMinds, InformersMind, ClustersMind DEF Next, Work

\* Whatever is enqueued or registered, a worker has seen Home before.
LEMMA HomeStep == TypeOK /\ HomeFirst /\ [Next]_vars => HomeFirst'
<1> SUFFICES ASSUME TypeOK, HomeFirst, [Next]_vars, ~homeSeen, ~homeSeen' PROVE HomeFirst'
  <2>1. homeSeen /\ [Next]_vars => homeSeen'
    BY DEF vars, spaces, Next, Work, Begin, EnsureFinalizer, ApplyTarget, DeleteTarget, PatchStatus,
           RemoveFinalizer, CallFails, Restart, Informers, ObserveTarget, ObserveHome,
           ObserveSpaceCreated, ObserveVolume, Clusters, DeleteVolume, ProvideTarget, EvictTarget,
           Report, SpaceIsProvided, OtherReads, OtherWrites, ChangeTarget
  <2> QED BY <2>1 DEF HomeFirst
<1>1. /\ ~space /\ ~spaceEvent /\ queue = {} /\ pc = "idle" /\ events = {}
      /\ target.owners \cap Volumes = {} /\ ocopy \cap Volumes = {}
  BY DEF HomeFirst
<1>t. target \in Target /\ Other \notin Volumes
  BY ProxyAssumption DEF TypeOK
<1> USE DEF spaces, targets, worker
<1>2. CASE UNCHANGED vars
  BY <1>1, <1>2 DEF vars, HomeFirst
<1>3. CASE Informers
  <2>1. ~ObserveHome
    BY DEF ObserveHome
  <2>2. CASE ObserveTarget
    BY <1>1, <2>2 DEF ObserveTarget, HomeFirst
  <2>3. CASE ObserveSpaceCreated
    BY <2>3 DEF ObserveSpaceCreated, HomeFirst
  <2>4. ASSUME NEW v \in Volumes, ObserveVolume(v) PROVE HomeFirst'
    BY <1>1, <2>4 DEF ObserveVolume, HomeFirst
  <2> QED BY <1>3, <2>1, <2>2, <2>3, <2>4 DEF Informers
<1>4. CASE Work \/ CallFails \/ Restart
  BY <1>1, <1>4 DEF Work, Begin, EnsureFinalizer, ApplyTarget, DeleteTarget, PatchStatus,
                    RemoveFinalizer, CallFails, Restart
<1>5. ASSUME NEW v \in Volumes, DeleteVolume(v) PROVE HomeFirst'
  BY <1>1, <1>5 DEF DeleteVolume, HomeFirst
<1>6. CASE OtherReads
  BY <1>1, <1>6 DEF OtherReads, HomeFirst
<1>7. ASSUME NEW t, ChangeTarget(t), t.owners \cap Volumes = {}, ocopy' \cap Volumes = {}
      PROVE  HomeFirst'
  BY <1>1, <1>7 DEF ChangeTarget, WriteTarget, HomeFirst
<1>8. CASE ProvideTarget \/ EvictTarget \/ Report
  <2>1. \A x : /\ [NoTarget EXCEPT !.there = x].owners = {} /\ NoTarget.owners = {}
               /\ [target EXCEPT !.state = x].owners = target.owners
    BY <1>t DEF NoTarget, Target
  <2> QED BY <1>1, <1>7, <1>8, <2>1 DEF ProvideTarget, EvictTarget, Report
<1>9. CASE OtherWrites
  <2>1. PICK owners \in {ocopy \cup {Other}, ocopy \ {Other}} \ {ocopy} :
          ChangeTarget([target EXCEPT !.owners = owners]) /\ ocopy' = owners
    BY <1>9 DEF OtherWrites
  <2>2. [target EXCEPT !.owners = owners].owners = owners
    BY <1>t DEF Target
  <2>3. owners \cap Volumes = {}
    BY <1>1, <1>t, <2>1
  <2> QED BY <1>7, <2>1, <2>2, <2>3
<1>10. ~SpaceIsProvided
  BY DEF SpaceIsProvided
<1> QED
  BY <1>2, <1>3, <1>4, <1>5, <1>6, <1>8, <1>9, <1>10 DEF Next, Clusters

LEMMA HomeInit == Init => HomeFirst
BY DEF Init, HomeFirst, NoTarget

LEMMA MindFirst == Init => MindInv
<1> SUFFICES ASSUME Init PROVE MindInv
  OBVIOUS
<1>1. pc = "idle" /\ tseen = target /\ seen = [v \in Volumes |-> NoVolume]
  BY DEF Init
<1>2. \A v \in Volumes : seen[v].phase = "absent"
  BY <1>1 DEF NoVolume
<1>3. Lags
  BY <1>1, <1>2 DEF Lags, Remembered, SeenLag, TargetLag
<1> QED
  BY <1>1, <1>3 DEF MindInv, CopyLag, BaseLag, Purpose

\* NeverForgotten: whoever overwrites whose entry, and however old the copies are
\* they work with, no Volume is out of step with the target unless somebody is to
\* look at it again.
THEOREM NeverForgottenHolds == Spec => []NeverForgotten
<1>1. MindInv => NeverForgotten
  BY DEF MindInv, Lags, Remembered, InStep, Noted, Awaited, NeverForgotten
<1> QED
  BY <1>1, MindStep, MindFirst, HomeStep, HomeInit, TypeCorrect, PTL DEF Spec
===============================================================================
