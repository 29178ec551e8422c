-------------------------- MODULE VolumeBrokerProofs --------------------------
(***************************************************************************)
(* Proofs about VolumeBroker for any worlds and bounds: the types, that    *)
(* there is one access Secret at most, and that no target of a Volume of   *)
(* the pool is orphaned.                                                   *)
(***************************************************************************)
EXTENDS VolumeBroker, FiniteSetTheorems, TLAPS

\* There is nothing in NoVolume and NoTarget.
LEMMA NoVolumeTyped == NoVolume \in Volume /\ NoVolume.phase = "absent" /\ ~NoVolume.fin
BY VolumeAssumption DEF NoVolume, Volume, Pools, States

LEMMA NoTargetTyped == NoTarget \in Target /\ ~NoTarget.there
BY VolumeAssumption DEF NoTarget, Target, States

LEMMA NoPlanTyped == NoPlan \in Plan /\ ~(NoPlan.data > 0)
BY VolumeAssumption DEF NoPlan, Plan, States

\* The bounds are numbers.
LEMMA Bounds ==
  /\ MaxSecrets \in Nat /\ MaxVersion \in Nat /\ MaxChanges \in Nat /\ MaxFaults \in Nat
  /\ MaxVersion >= 1
BY VolumeAssumption

\* A Volume stays one when a field of it is set.
LEMMA VolumeSet ==
  ASSUME NEW v \in Volume
  PROVE  /\ v.fin \in BOOLEAN /\ v.spec \in 0..MaxVersion
         /\ v.state \in States /\ v.secret \in 0..MaxSecrets
         /\ \A b \in BOOLEAN : [v EXCEPT !.fin = b] \in Volume /\ [v EXCEPT !.claimed = b] \in Volume
         /\ [v EXCEPT !.phase = "terminating"] \in Volume
         /\ \A pool \in Pools : [v EXCEPT !.pool = pool] \in Volume
         /\ \A n \in 0..MaxVersion : [v EXCEPT !.spec = n] \in Volume
         /\ \A state \in States, s \in 0..MaxSecrets :
              [v EXCEPT !.state = state, !.secret = s] \in Volume
<1>1. /\ v.fin \in BOOLEAN /\ v.spec \in 0..MaxVersion
      /\ v.state \in States /\ v.secret \in 0..MaxSecrets
  BY DEF Volume
<1>2. \A b \in BOOLEAN : [v EXCEPT !.fin = b] \in Volume /\ [v EXCEPT !.claimed = b] \in Volume
  BY DEF Volume
<1>3. [v EXCEPT !.phase = "terminating"] \in Volume
  BY DEF Volume
<1>4. \A pool \in Pools : [v EXCEPT !.pool = pool] \in Volume
  BY DEF Volume
<1>5. \A n \in 0..MaxVersion : [v EXCEPT !.spec = n] \in Volume
  BY DEF Volume
<1>6. \A state \in States, s \in 0..MaxSecrets : [v EXCEPT !.state = state, !.secret = s] \in Volume
  BY DEF Volume
<1> QED
  BY <1>1, <1>2, <1>3, <1>4, <1>5, <1>6

\* A target that is created, patched, deleted or changes its status is one.
LEMMA TargetSet ==
  ASSUME NEW t \in Target
  PROVE  /\ t.there \in BOOLEAN /\ t.state \in States
         /\ \A n \in 0..MaxVersion : /\ [t EXCEPT !.spec = n] \in Target
                                     /\ [t EXCEPT !.there = TRUE, !.spec = n] \in Target
         /\ [t EXCEPT !.deleted = TRUE] \in Target
         /\ \A state \in States : [t EXCEPT !.state = state] \in Target
<1>1. t.there \in BOOLEAN /\ t.state \in States
  BY DEF Target
<1>2. \A n \in 0..MaxVersion : /\ [t EXCEPT !.spec = n] \in Target
                               /\ [t EXCEPT !.there = TRUE, !.spec = n] \in Target
  BY DEF Target
<1>3. [t EXCEPT !.deleted = TRUE] \in Target
  BY DEF Target
<1>4. \A state \in States : [t EXCEPT !.state = state] \in Target
  BY DEF Target
<1> QED
  BY <1>1, <1>2, <1>3, <1>4

\* A plan that is made by Resolve before a patch.
LEMMA PlanMade ==
  ASSUME NEW b \in BOOLEAN
  PROVE  [NoPlan EXCEPT !.partial = b] \in Plan /\ ~([NoPlan EXCEPT !.partial = b].data > 0)
BY NoPlanTyped DEF Plan

\* A plan with a Secret that was found or made.
LEMMA PlanSet ==
  ASSUME NEW p \in Plan, NEW s \in 0..MaxSecrets
  PROVE  /\ [p EXCEPT !.secret = s] \in Plan
         /\ [p EXCEPT !.secret = s].data = p.data /\ [p EXCEPT !.secret = s].state = p.state
         /\ p.partial \in BOOLEAN /\ p.state \in States
         /\ p.data \in 0..MaxVersion /\ p.secret \in 0..MaxSecrets
BY DEF Plan

\* A Volume that is written is a Volume.
LEMMA WriteTyped ==
  ASSUME NEW volume \in Volume, Write(volume)
  PROVE  src' \in Volume
BY NoVolumeTyped DEF Write

\* A target that is written is a target, and its event is due or not.
LEMMA WriteTargetTyped ==
  ASSUME NEW t \in Target, targetEvent \in BOOLEAN, WriteTarget(t)
  PROVE  target' \in Target /\ targetEvent' \in BOOLEAN
BY DEF WriteTarget

\* Applied plans to copy a credential only for a target that reports one.
LEMMA AppliedTyped ==
  ASSUME NEW t \in Target, NEW partial \in BOOLEAN, Counted, PlanTyped, Applied(t, partial)
  PROVE  PlanTyped'
<1>1. t.state \in States
  BY TargetSet
<1>2. cseen \in 0..MaxVersion /\ 0 \in 0..MaxVersion /\ ~(0 > 0)
  BY Bounds DEF Counted
<1>3. CASE plan' = NoPlan
  BY <1>3, NoPlanTyped DEF PlanTyped
<1>4. CASE plan' = [NoPlan EXCEPT !.partial = partial, !.state = t.state,
                                 !.data = IF t.state = "secret" THEN cseen ELSE 0]
  <2> DEFINE n == IF t.state = "secret" THEN cseen ELSE 0
             q == [NoPlan EXCEPT !.partial = partial, !.state = t.state, !.data = n]
  <2>1. n \in 0..MaxVersion /\ (n > 0 => t.state = "secret")
    BY <1>2
  <2>2. plan' = q
    BY <1>4
  <2>3. q \in Plan /\ q.data = n /\ q.state = t.state
    <3> HIDE DEF n
    <3> QED BY <1>1, <2>1, NoPlanTyped DEF Plan
  <2> HIDE DEF n, q
  <2> QED BY <2>1, <2>2, <2>3 DEF PlanTyped
<1> QED
  BY <1>3, <1>4 DEF Applied, DoneOrRequeue, Done, Retry, Finish

\* The types hold at first.
LEMMA TypeInit == Init => TypeOK
<1> SUFFICES ASSUME Init PROVE TypeOK
  OBVIOUS
<1>1. world \in Worlds /\ world.pool \in Pools
  BY VolumeAssumption DEF Init
<1>2. [NoVolume EXCEPT !.phase = "live", !.pool = world.pool, !.spec = 1] \in Volume
  <2>1. 1 \in 0..MaxVersion /\ "live" \in {"absent", "live", "terminating"}
    BY Bounds
  <2> QED BY <1>1, <2>1, NoVolumeTyped DEF Volume
<1>3. SourceTyped
  BY <1>1, <1>2, NoVolumeTyped DEF Init, SourceTyped
<1>4. TargetTyped
  BY NoTargetTyped DEF Init, TargetTyped
<1>5. AccessTyped
  BY DEF Init, AccessTyped
<1>6. WorkerTyped
  BY NoVolumeTyped DEF Init, WorkerTyped, Steps
<1>7. PlanTyped
  BY NoPlanTyped DEF Init, PlanTyped
<1>8. Counted
  BY Bounds DEF Init, Counted
<1> QED
  BY <1>3, <1>4, <1>5, <1>6, <1>7, <1>8 DEF TypeOK

\* Every call of the worker keeps the types.
LEMMA TypeWork == TypeOK /\ Work => TypeOK'
<1> SUFFICES ASSUME TypeOK, Work PROVE TypeOK'
  OBVIOUS
<1>t. SourceTyped /\ TargetTyped /\ AccessTyped /\ WorkerTyped /\ PlanTyped /\ Counted
  BY DEF TypeOK
<1>1. CASE Begin
  <2>1. WorkerTyped'
    BY <1>t, <1>1, NoVolumeTyped
    DEF Begin, First, SourceTyped, Steps, WorkerTyped, spaces, worker
  <2>2. SourceTyped' /\ TargetTyped' /\ AccessTyped' /\ PlanTyped' /\ Counted'
    BY <1>t, <1>1
    DEF Begin, Goto, SourceTyped, sources, TargetTyped, targets, AccessTyped,
        access, PlanTyped, worker, Counted
  <2> QED BY <2>1, <2>2 DEF TypeOK
<1>2. CASE CheckLive
  <2>1. WorkerTyped'
    BY <1>t, <1>2, NoVolumeTyped
    DEF CheckLive, First, Steps, Goto, Finish, Done, Retry, DoneOrRequeue,
        WorkerTyped, spaces, worker
  <2>2. PlanTyped'
    BY <1>t, <1>2, NoPlanTyped
    DEF CheckLive, Goto, Finish, Done, Retry, DoneOrRequeue, PlanTyped, worker
  <2>3. SourceTyped' /\ TargetTyped' /\ AccessTyped' /\ Counted'
    BY <1>t, <1>2
    DEF CheckLive, Goto, SourceTyped, sources, TargetTyped, targets, AccessTyped,
        access, Counted
  <2> QED BY <2>1, <2>2, <2>3 DEF TypeOK
<1>3. CASE EnsureFinalizer
  <2>1. SourceTyped'
    BY <1>t, <1>3, VolumeSet, WriteTyped
    DEF EnsureFinalizer, Goto, Finish, Done, Retry, DoneOrRequeue, SourceTyped,
        sources
  <2>2. WorkerTyped'
    BY <1>t, <1>3, NoVolumeTyped
    DEF EnsureFinalizer, Steps, Goto, Finish, Done, Retry, DoneOrRequeue,
        WorkerTyped, spaces, worker
  <2>3. PlanTyped'
    BY <1>t, <1>3, NoPlanTyped
    DEF EnsureFinalizer, Goto, Finish, Done, Retry, DoneOrRequeue, PlanTyped, worker
  <2>4. TargetTyped' /\ AccessTyped' /\ Counted'
    BY <1>t, <1>3
    DEF EnsureFinalizer, Goto, TargetTyped, targets, AccessTyped, access, Counted
  <2> QED BY <2>1, <2>2, <2>3, <2>4 DEF TypeOK
<1>4. CASE Resolve
  <2>1. WorkerTyped'
    BY <1>t, <1>4, NoVolumeTyped
    DEF Resolve, Applied, Steps, Goto, Finish, Done, Retry, DoneOrRequeue,
        WorkerTyped, spaces, worker
  <2>2. PlanTyped'
    <3> DEFINE partial == world.pull /\ ~pull
    <3>1. partial \in BOOLEAN /\ tseen \in Target
      BY <1>t DEF TargetTyped
    <3>2. CASE plan' = NoPlan \/ plan' = plan
      BY <1>t, <3>2, NoPlanTyped DEF PlanTyped
    <3>3. CASE plan' = [NoPlan EXCEPT !.partial = partial]
      <4>1. 0 \in 0..MaxVersion /\ ~(0 > 0) /\ "bare" \in States
        BY Bounds DEF States
      <4> QED BY <3>1, <3>3, <4>1, PlanMade DEF PlanTyped
    <3>4. CASE Applied(tseen, partial)
      BY <1>t, <3>1, <3>4, AppliedTyped
    <3> QED BY <1>4, <3>2, <3>3, <3>4 DEF Resolve, Retry, Finish
  <2>3. SourceTyped' /\ TargetTyped' /\ AccessTyped' /\ Counted'
    BY <1>t, <1>4
    DEF Resolve, Goto, SourceTyped, sources, TargetTyped, targets, AccessTyped,
        access, Counted
  <2> QED BY <2>1, <2>2, <2>3 DEF TypeOK
<1>5. CASE CreateTarget
  <2>1. TargetTyped'
    BY <1>t, <1>5, TargetSet, WriteTargetTyped, VolumeSet, NoTargetTyped
    DEF CreateTarget, WorkerTyped, TargetTyped, targets
  <2>2. WorkerTyped'
    BY <1>t, <1>5, NoVolumeTyped
    DEF CreateTarget, Applied, Steps, Goto, Finish, Done, Retry, DoneOrRequeue,
        WorkerTyped, spaces, worker
  <2>3. PlanTyped'
    <3>1. CASE Applied(target', FALSE)
      BY <1>t, <2>1, <3>1, AppliedTyped DEF TargetTyped
    <3>2. CASE plan' = NoPlan
      BY <3>2, NoPlanTyped DEF PlanTyped
    <3> QED BY <1>5, <3>1, <3>2 DEF CreateTarget, Retry, Finish
  <2>4. SourceTyped' /\ AccessTyped' /\ Counted'
    BY <1>t, <1>5
    DEF CreateTarget, Goto, SourceTyped, sources, AccessTyped, access, Counted,
        targets
  <2> QED BY <2>1, <2>2, <2>3, <2>4 DEF TypeOK
<1>6. CASE PatchTarget
  <2>1. TargetTyped'
    BY <1>t, <1>6, TargetSet, WriteTargetTyped, VolumeSet
    DEF PatchTarget, WorkerTyped, TargetTyped, targets
  <2>2. WorkerTyped'
    BY <1>t, <1>6, NoVolumeTyped
    DEF PatchTarget, Applied, Steps, Goto, Finish, Done, Retry, DoneOrRequeue,
        WorkerTyped, spaces, worker
  <2>3. PlanTyped'
    <3>1. CASE Applied(target', plan.partial)
      <4>1. plan.partial \in BOOLEAN
        BY <1>t DEF PlanTyped, Plan
      <4> QED BY <1>t, <2>1, <3>1, <4>1, AppliedTyped DEF TargetTyped
    <3>2. CASE plan' = NoPlan
      BY <3>2, NoPlanTyped DEF PlanTyped
    <3> QED BY <1>6, <3>1, <3>2 DEF PatchTarget, Retry, Finish
  <2>4. SourceTyped' /\ AccessTyped' /\ Counted'
    BY <1>t, <1>6
    DEF PatchTarget, Goto, SourceTyped, sources, AccessTyped, access, Counted,
        targets
  <2> QED BY <2>1, <2>2, <2>3, <2>4 DEF TypeOK
<1>7. CASE ListSecrets
  <2>1. WorkerTyped'
    BY <1>t, <1>7, NoVolumeTyped
    DEF ListSecrets, Steps, Goto, Finish, Done, Retry, DoneOrRequeue, WorkerTyped,
        spaces, worker
  <2>2. PlanTyped'
    <3> DEFINE s == CHOOSE s \in secrets : TRUE
    <3>1. CASE plan' = plan \/ plan' = NoPlan
      BY <1>t, <3>1, NoPlanTyped DEF PlanTyped
    <3>2. CASE Cardinality(secrets) = 1 /\ plan' = [plan EXCEPT !.secret = s.id]
      <4>1. secrets # {}
        BY <3>2, FS_EmptySet
      <4>2. s \in secrets
        BY <4>1
      <4>3. s.id \in 0..MaxSecrets
        BY <1>t, <4>2, Bounds DEF AccessTyped
      <4> HIDE DEF s
      <4> QED BY <1>t, <3>2, <4>3, PlanSet DEF PlanTyped
    <3> QED BY <1>7, <3>1, <3>2 DEF ListSecrets, Retry, Finish
  <2>3. SourceTyped' /\ TargetTyped' /\ AccessTyped' /\ Counted'
    BY <1>t, <1>7
    DEF ListSecrets, Goto, SourceTyped, sources, TargetTyped, targets, AccessTyped,
        access, Counted
  <2> QED BY <2>1, <2>2, <2>3 DEF TypeOK
<1>8. CASE GenerateSecret
  <2>1. AccessTyped'
    BY <1>t, <1>8, PlanSet, Bounds
    DEF GenerateSecret, PlanTyped, Owns, Counted, AccessTyped, access
  <2>2. WorkerTyped'
    BY <1>t, <1>8, NoVolumeTyped
    DEF GenerateSecret, Steps, Goto, Finish, Done, Retry, DoneOrRequeue,
        WorkerTyped, spaces, worker
  <2>3. PlanTyped'
    BY <1>t, <1>8, PlanSet, Bounds DEF GenerateSecret, Counted, PlanTyped, worker
  <2>4. Counted'
    BY <1>t, <1>8, Bounds DEF GenerateSecret, Counted, targets, access
  <2>5. SourceTyped' /\ TargetTyped'
    BY <1>t, <1>8 DEF GenerateSecret, Goto, SourceTyped, sources, TargetTyped, targets
  <2> QED BY <2>1, <2>2, <2>3, <2>4, <2>5 DEF TypeOK
<1>9. CASE UpdateSecret
  <2>1. AccessTyped'
    <3>1. plan.data \in 0..MaxVersion
      BY <1>t DEF PlanTyped, Plan
    <3>2. \A s \in secrets : s.id \in 1..MaxSecrets
      BY <1>t DEF AccessTyped
    <3>3. CASE secrets' = secrets
      BY <1>t, <1>9, <3>3 DEF UpdateSecret, Owns, AccessTyped
    <3>4. CASE secrets' # secrets
      <4>1. PICK s \in secrets : s.id = plan.secret
        BY <1>9, <3>4 DEF UpdateSecret
      <4>2. [id |-> plan.secret, data |-> plan.data] \in [id : 1..MaxSecrets, data : 0..MaxVersion]
        BY <3>1, <3>2, <4>1
      <4>3. secrets' \subseteq secrets \cup {[id |-> plan.secret, data |-> plan.data]}
        BY <1>9, <3>4 DEF UpdateSecret
      <4>4. secretEvent' \in BOOLEAN /\ unpruned' = unpruned
        BY <1>t, <1>9, <3>4 DEF UpdateSecret, AccessTyped
      <4> QED BY <1>t, <4>2, <4>3, <4>4 DEF AccessTyped
    <3> QED BY <3>3, <3>4
  <2>2. WorkerTyped'
    BY <1>t, <1>9, NoVolumeTyped
    DEF UpdateSecret, Steps, Goto, Finish, Done, Retry, DoneOrRequeue, WorkerTyped,
        spaces, worker
  <2>3. PlanTyped'
    BY <1>t, <1>9, NoPlanTyped
    DEF UpdateSecret, Goto, Finish, Done, Retry, DoneOrRequeue, PlanTyped, worker
  <2>4. SourceTyped' /\ TargetTyped' /\ Counted'
    BY <1>t, <1>9
    DEF UpdateSecret, Goto, SourceTyped, sources, TargetTyped, targets, Counted,
        access
  <2> QED BY <2>1, <2>2, <2>3, <2>4 DEF TypeOK
<1>10. CASE PruneSecret
  <2>1. AccessTyped'
    BY <1>t, <1>10 DEF PruneSecret, Owns, AccessTyped, access
  <2>2. WorkerTyped'
    BY <1>t, <1>10, NoVolumeTyped
    DEF PruneSecret, Steps, Goto, Finish, Done, Retry, DoneOrRequeue, WorkerTyped,
        spaces, worker
  <2>3. SourceTyped' /\ TargetTyped' /\ PlanTyped' /\ Counted'
    BY <1>t, <1>10
    DEF PruneSecret, Goto, SourceTyped, sources, TargetTyped, targets, PlanTyped,
        worker, Counted, access
  <2> QED BY <2>1, <2>2, <2>3 DEF TypeOK
<1>11. CASE PatchVolumeStatus
  <2>1. SourceTyped'
    <3> DEFINE secret == IF plan.data > 0 THEN plan.secret ELSE 0
               x == IF plan.state = copy.state THEN src.state ELSE plan.state
               y == IF secret = copy.secret THEN src.secret ELSE secret
    <3>1. plan.state \in States /\ secret \in 0..MaxSecrets
      <4>1. plan \in Plan
        BY <1>t DEF PlanTyped
      <4>2. plan.state \in States /\ plan.secret \in 0..MaxSecrets /\ 0 \in 0..MaxSecrets
        BY <4>1, Bounds DEF Plan
      <4> QED BY <4>2
    <3>2. src \in Volume /\ src.state \in States /\ src.secret \in 0..MaxSecrets
      BY <1>t, VolumeSet DEF SourceTyped
    <3>3. x \in States /\ y \in 0..MaxSecrets
      BY <3>1, <3>2
    <3>4. src' = [src EXCEPT !.state = x, !.secret = y] \/ src' = src
      BY <1>11 DEF PatchVolumeStatus
    <3>5. src' \in Volume
      <4> HIDE DEF x, y
      <4>1. [src EXCEPT !.state = x, !.secret = y] \in Volume
        BY <3>2, <3>3, VolumeSet
      <4> QED BY <3>2, <3>4, <4>1
    <3> QED BY <1>t, <1>11, <3>5 DEF PatchVolumeStatus, SourceTyped
  <2>2. WorkerTyped'
    BY <1>t, <1>11, NoVolumeTyped
    DEF PatchVolumeStatus, Steps, Goto, Finish, Done, Retry, DoneOrRequeue,
        WorkerTyped, spaces, worker
  <2>3. PlanTyped'
    BY <1>t, <1>11, NoPlanTyped
    DEF PatchVolumeStatus, Goto, Finish, Done, Retry, DoneOrRequeue, PlanTyped,
        worker
  <2>4. TargetTyped' /\ AccessTyped' /\ Counted'
    BY <1>t, <1>11
    DEF PatchVolumeStatus, Goto, TargetTyped, targets, AccessTyped, access, Counted
  <2> QED BY <2>1, <2>2, <2>3, <2>4 DEF TypeOK
<1>12. CASE DeleteTarget
  <2>1. TargetTyped'
    BY <1>t, <1>12, TargetSet, WriteTargetTyped, NoTargetTyped
    DEF DeleteTarget, TargetTyped, targets
  <2>2. WorkerTyped'
    BY <1>t, <1>12, NoVolumeTyped
    DEF DeleteTarget, Steps, Goto, Finish, Done, Retry, DoneOrRequeue, WorkerTyped,
        spaces, worker
  <2>3. PlanTyped'
    BY <1>t, <1>12, NoPlanTyped
    DEF DeleteTarget, Goto, Finish, Done, Retry, DoneOrRequeue, PlanTyped, worker
  <2>4. SourceTyped' /\ AccessTyped' /\ Counted'
    BY <1>t, <1>12
    DEF DeleteTarget, Goto, SourceTyped, sources, AccessTyped, access, Counted,
        targets
  <2> QED BY <2>1, <2>2, <2>3, <2>4 DEF TypeOK
<1>13. CASE RemoveFinalizer
  <2>1. SourceTyped'
    BY <1>t, <1>13, VolumeSet, WriteTyped DEF RemoveFinalizer, SourceTyped, sources
  <2>2. WorkerTyped'
    BY <1>t, <1>13, NoVolumeTyped
    DEF RemoveFinalizer, Steps, Goto, Finish, Done, Retry, DoneOrRequeue,
        WorkerTyped, spaces, worker
  <2>3. PlanTyped'
    BY <1>t, <1>13, NoPlanTyped
    DEF RemoveFinalizer, Goto, Finish, Done, Retry, DoneOrRequeue, PlanTyped, worker
  <2>4. TargetTyped' /\ AccessTyped' /\ Counted'
    BY <1>t, <1>13
    DEF RemoveFinalizer, Goto, TargetTyped, targets, AccessTyped, access, Counted
  <2> QED BY <2>1, <2>2, <2>3, <2>4 DEF TypeOK
<1> QED
  BY <1>1, <1>2, <1>3, <1>4, <1>5, <1>6, <1>7, <1>8, <1>9, <1>10, <1>11, <1>12, <1>13 DEF Work

\* A failed call and a restart keep the types.
LEMMA TypeFaults == TypeOK /\ (PruneFails \/ CallFails \/ Restart) => TypeOK'
<1> SUFFICES ASSUME TypeOK, (PruneFails \/ CallFails \/ Restart) PROVE TypeOK'
  OBVIOUS
<1>t. SourceTyped /\ TargetTyped /\ AccessTyped /\ WorkerTyped /\ PlanTyped /\ Counted
  BY DEF TypeOK
<1>1. CASE PruneFails
  <2>1. AccessTyped'
    BY <1>t, <1>1 DEF PruneFails, AccessTyped, access
  <2>2. WorkerTyped'
    BY <1>t, <1>1, NoVolumeTyped
    DEF PruneFails, Pruning, Steps, Goto, Finish, Done, Retry, DoneOrRequeue, WorkerTyped,
        spaces, worker
  <2>3. Counted'
    BY <1>t, <1>1, Bounds DEF PruneFails, Fault, Counted, targets, access
  <2>4. SourceTyped' /\ TargetTyped' /\ PlanTyped'
    BY <1>t, <1>1
    DEF PruneFails, SourceTyped, sources, TargetTyped, targets, PlanTyped, worker
  <2> QED BY <2>1, <2>2, <2>3, <2>4 DEF TypeOK
<1>2. CASE CallFails
  <2>1. WorkerTyped'
    BY <1>t, <1>2, NoVolumeTyped
    DEF CallFails, Steps, Goto, Finish, Done, Retry, DoneOrRequeue, WorkerTyped,
        spaces, worker
  <2>2. PlanTyped'
    BY <1>t, <1>2, NoPlanTyped
    DEF CallFails, Goto, Finish, Done, Retry, DoneOrRequeue, PlanTyped, worker
  <2>3. Counted'
    BY <1>t, <1>2, Bounds DEF CallFails, Fault, Counted, targets, access
  <2>4. SourceTyped' /\ TargetTyped' /\ AccessTyped'
    BY <1>t, <1>2
    DEF CallFails, SourceTyped, sources, TargetTyped, targets, AccessTyped, access
  <2> QED BY <2>1, <2>2, <2>3, <2>4 DEF TypeOK
<1>3. CASE Restart
  <2>1. SourceTyped'
    BY <1>t, <1>3 DEF Restart, SourceTyped, sources
  <2>2. TargetTyped'
    BY <1>t, <1>3 DEF Restart, TargetTyped, targets
  <2>3. AccessTyped'
    BY <1>t, <1>3 DEF Restart, AccessTyped, access
  <2>4. WorkerTyped'
    BY <1>t, <1>3, NoVolumeTyped
    DEF Restart, Steps, Goto, Finish, Done, Retry, DoneOrRequeue, WorkerTyped,
        spaces, worker
  <2>5. PlanTyped'
    BY <1>t, <1>3, NoPlanTyped
    DEF Restart, Goto, Finish, Done, Retry, DoneOrRequeue, PlanTyped, worker
  <2>6. Counted'
    BY <1>t, <1>3, Bounds DEF Restart, Fault, Counted, targets, access
  <2> QED BY <2>1, <2>2, <2>3, <2>4, <2>5, <2>6 DEF TypeOK
<1> QED
  BY <1>1, <1>2, <1>3

\* Every event keeps the types.
LEMMA TypeInformers == TypeOK /\ Informers => TypeOK'
<1> SUFFICES ASSUME TypeOK, Informers PROVE TypeOK'
  OBVIOUS
<1>t. SourceTyped /\ TargetTyped /\ AccessTyped /\ WorkerTyped /\ PlanTyped /\ Counted
  BY DEF TypeOK
<1>1. CASE ObserveVolume
  <2>1. SourceTyped'
    BY <1>t, <1>1 DEF ObserveVolume, SourceTyped, sources
  <2>2. WorkerTyped'
    BY <1>t, <1>1 DEF ObserveVolume, WorkerTyped, spaces, worker
  <2>3. TargetTyped' /\ AccessTyped' /\ PlanTyped' /\ Counted'
    BY <1>t, <1>1
    DEF ObserveVolume, TargetTyped, targets, AccessTyped, access, PlanTyped, worker,
        Counted
  <2> QED BY <2>1, <2>2, <2>3 DEF TypeOK
<1>2. CASE ObserveMachine
  <2>1. SourceTyped'
    BY <1>t, <1>2 DEF ObserveMachine, SourceTyped, sources
  <2>2. WorkerTyped'
    BY <1>t, <1>2 DEF ObserveMachine, WorkerTyped, spaces, worker
  <2>3. TargetTyped' /\ AccessTyped' /\ PlanTyped' /\ Counted'
    BY <1>t, <1>2
    DEF ObserveMachine, TargetTyped, targets, AccessTyped, access, PlanTyped,
        worker, Counted
  <2> QED BY <2>1, <2>2, <2>3 DEF TypeOK
<1>3. CASE ObserveTarget
  <2>1. TargetTyped'
    BY <1>t, <1>3 DEF ObserveTarget, TargetTyped, targets
  <2>2. WorkerTyped'
    BY <1>t, <1>3 DEF ObserveTarget, WorkerTyped, spaces, worker
  <2>3. SourceTyped' /\ AccessTyped' /\ PlanTyped' /\ Counted'
    BY <1>t, <1>3
    DEF ObserveTarget, SourceTyped, sources, AccessTyped, access, PlanTyped, worker,
        Counted, targets
  <2> QED BY <2>1, <2>2, <2>3 DEF TypeOK
<1>4. CASE ObserveCredential
  <2>1. TargetTyped'
    BY <1>t, <1>4 DEF ObserveCredential, TargetTyped, targets
  <2>2. WorkerTyped'
    BY <1>t, <1>4 DEF ObserveCredential, WorkerTyped, spaces, worker
  <2>3. Counted'
    BY <1>t, <1>4, Bounds DEF ObserveCredential, Counted, targets, access
  <2>4. SourceTyped' /\ AccessTyped' /\ PlanTyped'
    BY <1>t, <1>4
    DEF ObserveCredential, SourceTyped, sources, AccessTyped, access, PlanTyped,
        worker
  <2> QED BY <2>1, <2>2, <2>3, <2>4 DEF TypeOK
<1>5. CASE ObserveSecret
  <2>1. AccessTyped'
    BY <1>t, <1>5 DEF ObserveSecret, AccessTyped, access
  <2>2. WorkerTyped'
    BY <1>t, <1>5 DEF ObserveSecret, WorkerTyped, spaces, worker
  <2>3. SourceTyped' /\ TargetTyped' /\ PlanTyped' /\ Counted'
    BY <1>t, <1>5
    DEF ObserveSecret, SourceTyped, sources, TargetTyped, targets, PlanTyped,
        worker, Counted, access
  <2> QED BY <2>1, <2>2, <2>3 DEF TypeOK
<1>6. CASE ObserveSpaceCreated
  <2>1. WorkerTyped'
    BY <1>t, <1>6 DEF ObserveSpaceCreated, WorkerTyped, spaces, worker
  <2>2. SourceTyped' /\ TargetTyped' /\ AccessTyped' /\ PlanTyped' /\ Counted'
    BY <1>t, <1>6
    DEF ObserveSpaceCreated, SourceTyped, sources, TargetTyped, targets,
        AccessTyped, access, PlanTyped, worker, Counted
  <2> QED BY <2>1, <2>2 DEF TypeOK
<1> QED
  BY <1>1, <1>2, <1>3, <1>4, <1>5, <1>6 DEF Informers

\* Every step of the source cluster keeps the types.
LEMMA TypeSource == TypeOK /\ SourceCluster => TypeOK'
<1> SUFFICES ASSUME TypeOK, SourceCluster PROVE TypeOK'
  OBVIOUS
<1>t. SourceTyped /\ TargetTyped /\ AccessTyped /\ WorkerTyped /\ PlanTyped /\ Counted
  BY DEF TypeOK
<1>1. CASE Assign
  <2>1. SourceTyped'
    BY <1>t, <1>1, VolumeSet, WriteTyped DEF Assign, Change, Pools, SourceTyped, sources
  <2>2. TargetTyped' /\ AccessTyped' /\ WorkerTyped' /\ PlanTyped' /\ Counted'
    BY <1>t, <1>1
    DEF Assign, Change, TargetTyped, targets, AccessTyped, access, WorkerTyped,
        spaces, worker, PlanTyped, Counted
  <2> QED BY <2>1, <2>2 DEF TypeOK
<1>2. CASE ListVolume
  <2>1. SourceTyped'
    BY <1>t, <1>2 DEF ListVolume, SourceTyped, sources
  <2>2. TargetTyped'
    BY <1>t, <1>2 DEF ListVolume, TargetTyped, targets
  <2>3. Counted'
    BY <1>t, <1>2, Bounds DEF ListVolume, Counted, targets, access
  <2>4. AccessTyped' /\ WorkerTyped' /\ PlanTyped'
    BY <1>t, <1>2
    DEF ListVolume, AccessTyped, access, WorkerTyped, spaces, worker, PlanTyped
  <2> QED BY <2>1, <2>2, <2>3, <2>4 DEF TypeOK
<1>3. CASE Claim
  <2>1. SourceTyped'
    BY <1>t, <1>3, VolumeSet, WriteTyped DEF Claim, Change, SourceTyped, sources
  <2>2. TargetTyped' /\ AccessTyped' /\ WorkerTyped' /\ PlanTyped' /\ Counted'
    BY <1>t, <1>3
    DEF Claim, Change, TargetTyped, targets, AccessTyped, access, WorkerTyped,
        spaces, worker, PlanTyped, Counted
  <2> QED BY <2>1, <2>2 DEF TypeOK
<1>4. CASE Unclaim
  <2>1. SourceTyped'
    BY <1>t, <1>4, VolumeSet, WriteTyped DEF Unclaim, Change, SourceTyped, sources
  <2>2. TargetTyped' /\ AccessTyped' /\ WorkerTyped' /\ PlanTyped' /\ Counted'
    BY <1>t, <1>4
    DEF Unclaim, Change, TargetTyped, targets, AccessTyped, access, WorkerTyped,
        spaces, worker, PlanTyped, Counted
  <2> QED BY <2>1, <2>2 DEF TypeOK
<1>5. CASE Resize
  <2>1. SourceTyped'
    <3>1. src \in Volume /\ src.spec \in 0..MaxVersion
      BY <1>t, VolumeSet DEF SourceTyped
    <3>2. src.spec + 1 \in 0..MaxVersion
      BY <1>5, <3>1, Bounds DEF Resize
    <3>3. [src EXCEPT !.spec = src.spec + 1] \in Volume
      BY <3>1, <3>2, VolumeSet
    <3>4. src' \in Volume
      BY <1>5, <3>3, WriteTyped DEF Resize, Change
    <3> QED BY <1>t, <1>5, <3>4 DEF Resize, Change, SourceTyped
  <2>2. TargetTyped' /\ AccessTyped' /\ WorkerTyped' /\ PlanTyped' /\ Counted'
    BY <1>t, <1>5
    DEF Resize, Change, TargetTyped, targets, AccessTyped, access, WorkerTyped,
        spaces, worker, PlanTyped, Counted
  <2> QED BY <2>1, <2>2 DEF TypeOK
<1>6. CASE DeleteVolume
  <2>1. SourceTyped'
    BY <1>t, <1>6, VolumeSet, WriteTyped, NoVolumeTyped
    DEF DeleteVolume, Change, SourceTyped, sources
  <2>2. TargetTyped' /\ AccessTyped' /\ WorkerTyped' /\ PlanTyped' /\ Counted'
    BY <1>t, <1>6
    DEF DeleteVolume, Change, TargetTyped, targets, AccessTyped, access,
        WorkerTyped, spaces, worker, PlanTyped, Counted
  <2> QED BY <2>1, <2>2 DEF TypeOK
<1>7. CASE CollectSecrets
  <2>1. AccessTyped'
    BY <1>t, <1>7 DEF CollectSecrets, Owns, AccessTyped, access
  <2>2. SourceTyped' /\ TargetTyped' /\ WorkerTyped' /\ PlanTyped' /\ Counted'
    BY <1>t, <1>7
    DEF CollectSecrets, SourceTyped, sources, TargetTyped, targets, WorkerTyped,
        spaces, worker, PlanTyped, Counted, access
  <2> QED BY <2>1, <2>2 DEF TypeOK
<1>8. CASE Tamper
  <2>1. AccessTyped'
    BY <1>t, <1>8, Bounds DEF Tamper, Owns, AccessTyped, access
  <2>2. Counted'
    BY <1>t, <1>8, Bounds DEF Tamper, Fault, Counted, targets, access
  <2>3. SourceTyped' /\ TargetTyped' /\ WorkerTyped' /\ PlanTyped'
    BY <1>t, <1>8
    DEF Tamper, SourceTyped, sources, TargetTyped, targets, WorkerTyped, spaces,
        worker, PlanTyped
  <2> QED BY <2>1, <2>2, <2>3 DEF TypeOK
<1> QED
  BY <1>1, <1>2, <1>3, <1>4, <1>5, <1>6, <1>7, <1>8 DEF SourceCluster

\* Every step of the target cluster keeps the types.
LEMMA TypeTarget == TypeOK /\ TargetCluster => TypeOK'
<1> SUFFICES ASSUME TypeOK, TargetCluster PROVE TypeOK'
  OBVIOUS
<1>t. SourceTyped /\ TargetTyped /\ AccessTyped /\ WorkerTyped /\ PlanTyped /\ Counted
  BY DEF TypeOK
<1>1. CASE Report
  <2>1. TargetTyped'
    BY <1>t, <1>1, TargetSet, WriteTargetTyped DEF Report, Replace, TargetTyped, targets
  <2>2. Counted'
    BY <1>t, <1>1, Bounds DEF Report, Replace, Counted, targets, access
  <2>3. SourceTyped' /\ AccessTyped' /\ WorkerTyped' /\ PlanTyped'
    BY <1>t, <1>1
    DEF Report, Replace, SourceTyped, sources, AccessTyped, access, WorkerTyped,
        spaces, worker, PlanTyped
  <2> QED BY <2>1, <2>2, <2>3 DEF TypeOK
<1>2. CASE Issue
  <2>1. TargetTyped'
    BY <1>t, <1>2, WriteTargetTyped DEF Issue, Replace, TargetTyped, targets
  <2>2. Counted'
    BY <1>t, <1>2, Bounds DEF Issue, Replace, Counted, targets, access
  <2>3. SourceTyped' /\ AccessTyped' /\ WorkerTyped' /\ PlanTyped'
    BY <1>t, <1>2
    DEF Issue, Replace, SourceTyped, sources, AccessTyped, access, WorkerTyped,
        spaces, worker, PlanTyped
  <2> QED BY <2>1, <2>2, <2>3 DEF TypeOK
<1>3. CASE SyncPullSecret
  <2>1. TargetTyped'
    BY <1>t, <1>3 DEF SyncPullSecret, TargetTyped, targets
  <2>2. SourceTyped' /\ AccessTyped' /\ WorkerTyped' /\ PlanTyped' /\ Counted'
    BY <1>t, <1>3
    DEF SyncPullSecret, SourceTyped, sources, AccessTyped, access, WorkerTyped,
        spaces, worker, PlanTyped, Counted, targets
  <2> QED BY <2>1, <2>2 DEF TypeOK
<1>4. CASE TargetVanishes
  <2>1. TargetTyped'
    BY <1>t, <1>4, WriteTargetTyped, NoTargetTyped
    DEF TargetVanishes, Replace, TargetTyped, targets
  <2>2. SourceTyped' /\ AccessTyped' /\ WorkerTyped' /\ PlanTyped' /\ Counted'
    BY <1>t, <1>4
    DEF TargetVanishes, Replace, SourceTyped, sources, AccessTyped, access,
        WorkerTyped, spaces, worker, PlanTyped, Counted, targets
  <2> QED BY <2>1, <2>2 DEF TypeOK
<1>5. CASE EvictTarget
  <2>1. TargetTyped'
    BY <1>t, <1>5, WriteTargetTyped, NoTargetTyped
    DEF EvictTarget, Replace, TargetTyped, targets
  <2>2. Counted'
    BY <1>t, <1>5, Bounds DEF EvictTarget, Replace, Fault, Counted, targets, access
  <2>3. SourceTyped' /\ AccessTyped' /\ WorkerTyped' /\ PlanTyped'
    BY <1>t, <1>5
    DEF EvictTarget, Replace, SourceTyped, sources, AccessTyped, access,
        WorkerTyped, spaces, worker, PlanTyped
  <2> QED BY <2>1, <2>2, <2>3 DEF TypeOK
<1>6. CASE SpaceIsProvided
  <2>1. WorkerTyped'
    BY <1>t, <1>6 DEF SpaceIsProvided, WorkerTyped, spaces, worker
  <2>2. SourceTyped' /\ TargetTyped' /\ AccessTyped' /\ PlanTyped' /\ Counted'
    BY <1>t, <1>6
    DEF SpaceIsProvided, SourceTyped, sources, TargetTyped, targets, AccessTyped,
        access, PlanTyped, worker, Counted
  <2> QED BY <2>1, <2>2 DEF TypeOK
<1>7. CASE SpaceIsLost
  <2>1. TargetTyped'
    BY <1>t, <1>7, WriteTargetTyped, NoTargetTyped DEF SpaceIsLost, TargetTyped, targets
  <2>2. WorkerTyped'
    BY <1>t, <1>7 DEF SpaceIsLost, WorkerTyped, spaces, worker
  <2>3. Counted'
    BY <1>t, <1>7, Bounds DEF SpaceIsLost, Fault, Counted, targets, access
  <2>4. SourceTyped' /\ AccessTyped' /\ PlanTyped'
    BY <1>t, <1>7
    DEF SpaceIsLost, SourceTyped, sources, AccessTyped, access, PlanTyped, worker
  <2> QED BY <2>1, <2>2, <2>3, <2>4 DEF TypeOK
<1> QED
  BY <1>1, <1>2, <1>3, <1>4, <1>5, <1>6, <1>7 DEF TargetCluster

\* A step that changes nothing keeps the types.
LEMMA TypeStutter == TypeOK /\ UNCHANGED vars => TypeOK'
BY DEF TypeOK, SourceTyped, TargetTyped, AccessTyped, WorkerTyped, PlanTyped, Counted, vars

\* TypeOK: in every state of every instance the variables have their types, the
\* worker has a Volume whenever it is at work, and it copies a credential only for
\* a target that reports one.
THEOREM TypeCorrect == Spec => []TypeOK
<1>1. TypeOK /\ [Next]_vars => TypeOK'
  BY TypeWork, TypeFaults, TypeInformers, TypeSource, TypeTarget, TypeStutter DEF Next
<1> QED
  BY TypeInit, <1>1, PTL DEF Spec

(***************************************************************************)
(* OneAccessSecret.  The worker generates a Secret only after a live list  *)
(* that found none, and nobody else makes one in between.                  *)
(***************************************************************************)
OneInv ==
  /\ secrets = {} \/ \E s \in secrets : secrets = {s}
  /\ pc = "generate" => secrets = {}

(***************************************************************************)
(* NoOrphan.  A Volume of the pool is let go of in a pass that read it     *)
(* with a deletion timestamp.  From then on the cache never shows it       *)
(* without one, so no later pass takes it for a live one; and the pass of  *)
(* the release found the target gone.  A pass that applies the target      *)
(* began with a live Volume with the finalizer, which nobody else removes. *)
(***************************************************************************)
Applying == {"resolve", "create", "patch", "list", "prune", "generate", "update", "status"}

Held == src.phase # "absent" /\ src.fin

HeldInv ==
  /\ src.phase # "absent" => src.pool = "ours"
  /\ seen.phase # "absent" => seen.pool = "ours"
  /\ src.phase = "terminating" => src.fin
  /\ seen.phase = "terminating" => src.phase # "live"
  /\ seen.phase = "live" /\ seen.fin => Held
  /\ pc \in Applying => Held
  /\ pc \in {"delete", "release"} => src.phase # "live" /\ seen.phase # "live"
  /\ pc # "live"
  /\ pc = "release" \/ ~space => ~target.there
  /\ target.there => Held

HoldInv == world.pool = "ours" => HeldInv

\* Only ListSecrets goes on to generate a Secret.
LEMMA OthersFind ==
  ASSUME OneInv, secrets' = secrets, pc' # "generate" \/ pc' = pc
  PROVE  OneInv'
BY DEF OneInv

LEMMA OneStep == OneInv /\ [Next]_vars => OneInv'
<1> SUFFICES ASSUME OneInv, [Next]_vars PROVE OneInv'
  OBVIOUS
<1> USE DEF Goto, Finish, Done, Retry, DoneOrRequeue, access, worker
<1>1. CASE Work
  <2>1. CASE ListSecrets
    <3>1. pc' = "generate" => Cardinality(secrets) = 0
      BY <2>1 DEF ListSecrets
    <3>2. IsFiniteSet(secrets)
      <4>1. CASE secrets = {}
        BY <4>1, FS_EmptySet
      <4>2. CASE \E s \in secrets : secrets = {s}
        BY <4>2, FS_Singleton
      <4> QED BY <4>1, <4>2 DEF OneInv
    <3>3. pc' = "generate" => secrets = {}
      BY <3>1, <3>2, FS_EmptySet
    <3> QED BY <2>1, <3>3 DEF ListSecrets, OneInv
  <2>2. CASE GenerateSecret
    BY <2>2 DEF GenerateSecret, OneInv
  <2>3. CASE UpdateSecret
    BY <2>3 DEF UpdateSecret, OneInv
  <2>4. CASE PruneSecret
    BY <2>4 DEF PruneSecret, OneInv
  <2>5. CASE Begin \/ CheckLive
    BY <2>5, OthersFind DEF Begin, CheckLive, First
  <2>6. CASE EnsureFinalizer \/ Resolve \/ CreateTarget
    BY <2>6, OthersFind DEF EnsureFinalizer, Resolve, CreateTarget, Applied
  <2>7. CASE PatchTarget \/ PatchVolumeStatus
    BY <2>7, OthersFind DEF PatchTarget, Applied, PatchVolumeStatus
  <2>8. CASE DeleteTarget \/ RemoveFinalizer
    BY <2>8, OthersFind DEF DeleteTarget, RemoveFinalizer
  <2> QED BY <1>1, <2>1, <2>2, <2>3, <2>4, <2>5, <2>6, <2>7, <2>8 DEF Work
<1>2. CASE PruneFails \/ CallFails \/ Restart
  BY <1>2, OthersFind DEF PruneFails, CallFails, Restart
<1>3. CASE Informers
  BY <1>3, OthersFind DEF Informers, ObserveVolume, ObserveMachine, ObserveTarget,
       ObserveCredential, ObserveSecret, ObserveSpaceCreated
<1>4. CASE SourceCluster
  <2>1. CASE CollectSecrets
    BY <2>1 DEF CollectSecrets, OneInv
  <2>2. CASE Tamper
    <3>1. PICK s \in secrets :
            secrets' \in {secrets \ {s}, (secrets \ {s}) \cup {[s EXCEPT !.data = 0]}}
      BY <2>2 DEF Tamper
    <3>2. secrets = {s}
      BY <3>1 DEF OneInv
    <3>3. secrets' = {} \/ secrets' = {[s EXCEPT !.data = 0]}
      BY <3>1, <3>2
    <3>4. pc' = pc /\ pc # "generate"
      BY <2>2, <3>1 DEF Tamper, OneInv
    <3> QED BY <3>3, <3>4 DEF OneInv
  <2>3. CASE Assign \/ ListVolume \/ Claim \/ Unclaim \/ Resize \/ DeleteVolume
    BY <2>3, OthersFind DEF Assign, ListVolume, Claim, Unclaim, Resize, DeleteVolume, Change
  <2> QED BY <1>4, <2>1, <2>2, <2>3 DEF SourceCluster
<1>5. CASE TargetCluster
  BY <1>5, OthersFind DEF TargetCluster, Report, Issue, SyncPullSecret, TargetVanishes,
       EvictTarget, SpaceIsProvided, SpaceIsLost, Replace
<1>6. CASE UNCHANGED vars
  BY <1>6, OthersFind DEF vars
<1> QED
  BY <1>1, <1>2, <1>3, <1>4, <1>5, <1>6 DEF Next

\* OneAccessSecret: there is never a second access Secret of one Volume, whatever
\* the number of changes, failures, restarts and tamperings.
THEOREM OneAccessSecretHolds == Spec => []OneAccessSecret
<1>1. Init => OneInv
  BY DEF Init, OneInv
<1>2. OneInv => OneAccessSecret
  <2> SUFFICES ASSUME OneInv PROVE Cardinality(secrets) <= 1
    BY DEF OneAccessSecret
  <2>1. CASE secrets = {}
    BY <2>1, FS_EmptySet
  <2>2. CASE \E s \in secrets : secrets = {s}
    BY <2>2, FS_Singleton
  <2> QED BY <2>1, <2>2 DEF OneInv
<1> QED
  BY <1>1, <1>2, OneStep, PTL DEF Spec

\* A Volume that is written is the one that was to be written, or is gone.
LEMMA WriteEffect ==
  ASSUME NEW volume, Write(volume)
  PROVE  \/ src' = volume /\ (volume.phase = "terminating" => volume.fin)
         \/ volume.phase = "terminating" /\ ~volume.fin /\ src' = NoVolume
BY DEF Write

\* How fields other than the one that is set are kept.
LEMMA VolumeKeeps ==
  ASSUME NEW v \in Volume
  PROVE  /\ \A b \in BOOLEAN :
              /\ [v EXCEPT !.fin = b].phase = v.phase /\ [v EXCEPT !.fin = b].pool = v.pool
              /\ [v EXCEPT !.fin = b].fin = b
              /\ [v EXCEPT !.claimed = b].phase = v.phase /\ [v EXCEPT !.claimed = b].pool = v.pool
              /\ [v EXCEPT !.claimed = b].fin = v.fin
         /\ [v EXCEPT !.phase = "terminating"].phase = "terminating"
         /\ [v EXCEPT !.phase = "terminating"].pool = v.pool
         /\ [v EXCEPT !.phase = "terminating"].fin = v.fin
<1>1. ASSUME NEW b \in BOOLEAN
      PROVE  /\ [v EXCEPT !.fin = b].phase = v.phase /\ [v EXCEPT !.fin = b].pool = v.pool
             /\ [v EXCEPT !.fin = b].fin = b
             /\ [v EXCEPT !.claimed = b].phase = v.phase /\ [v EXCEPT !.claimed = b].pool = v.pool
             /\ [v EXCEPT !.claimed = b].fin = v.fin
  BY DEF Volume
<1>2. /\ [v EXCEPT !.phase = "terminating"].phase = "terminating"
      /\ [v EXCEPT !.phase = "terminating"].pool = v.pool
      /\ [v EXCEPT !.phase = "terminating"].fin = v.fin
  BY DEF Volume
<1> QED
  BY <1>1, <1>2

\* What the target cluster does leaves the Volume and the worker alone, and makes
\* no target.
LEMMA HeldElsewhere ==
  ASSUME HeldInv, src' = src, seen' = seen, pc' = pc,
         target'.there => target.there, space' \/ ~target'.there
  PROVE  HeldInv'
BY DEF HeldInv, Held, Applying

\* Work that writes neither the Volume nor the target.
LEMMA HeldWork ==
  ASSUME HeldInv, src' = src, seen' = seen, target' = target, space' = space,
         pc' \in {"idle", "finalize"} \/ (pc \in Applying /\ pc' \in Applying)
  PROVE  HeldInv'
BY DEF HeldInv, Held, Applying

LEMMA HeldByWork ==
  ASSUME TypeOK, HeldInv, Work
  PROVE  HeldInv'
<1>t. src \in Volume /\ seen \in Volume /\ target \in Target
  BY DEF TypeOK, SourceTyped, TargetTyped
<1>p. pc \in Applying => src.phase # "absent" /\ src.fin
  BY DEF HeldInv, Held
<1> USE DEF Goto, Finish, Done, Retry, DoneOrRequeue, sources, targets, access, spaces
<1>1. CASE Begin
  <2>0. src' = src /\ seen' = seen /\ target' = target /\ space' = space
    BY <1>1 DEF Begin
  <2>1. CASE pc' = pc
    BY <2>0, <2>1 DEF HeldInv, Held
  <2>2. CASE pc' = "delete" /\ seen.phase = "terminating"
    BY <2>0, <2>2 DEF HeldInv, Held, Applying
  <2>3. CASE pc' = First(seen) /\ seen.phase = "live"
    BY <2>0, <2>3 DEF HeldInv, Held, Applying, First
  <2>4. ~(seen.phase = "live" /\ ~Managed(seen))
    BY DEF HeldInv, Managed
  <2> QED BY <1>1, <2>1, <2>2, <2>3, <2>4 DEF Begin
<1>2. CASE CheckLive
  BY <1>2 DEF CheckLive, HeldInv
<1>3. CASE EnsureFinalizer
  <2>1. CASE src' = src
    BY <1>3, <2>1, HeldWork DEF EnsureFinalizer
  <2>2. CASE src' # src
    <3>1. src.phase = "live" /\ Write([src EXCEPT !.fin = TRUE]) /\ pc' = "idle"
      BY <1>3, <2>2 DEF EnsureFinalizer
    <3>2. src'.phase = "live" /\ src'.pool = src.pool /\ src'.fin
      <4> DEFINE v == [src EXCEPT !.fin = TRUE]
      <4>1. v.phase = src.phase /\ v.pool = src.pool /\ v.fin
        BY <1>t, VolumeKeeps
      <4>2. Write(v)
        BY <3>1
      <4> HIDE DEF v
      <4> QED BY <3>1, <4>1, <4>2, WriteEffect
    <3>3. seen' = seen /\ target' = target /\ space' = space
      BY <1>3 DEF EnsureFinalizer
    <3> QED BY <3>1, <3>2, <3>3 DEF HeldInv, Held, Applying
  <2> QED BY <2>1, <2>2
<1>4. CASE Resolve
  <2>1. pc \in Applying /\ pc' \in Applying \cup {"idle"}
    BY <1>4 DEF Resolve, Applied, Applying
  <2> QED BY <1>4, <2>1, HeldWork DEF Resolve
<1>5. CASE CreateTarget
  <2>1. pc = "create" /\ pc' \in Applying \cup {"idle"}
    BY <1>5 DEF CreateTarget, Applied, Applying
  <2>2. src' = src /\ seen' = seen /\ space' = space /\ (space \/ target' = target)
    BY <1>5 DEF CreateTarget
  <2>3. Held
    BY <2>1 DEF HeldInv, Applying
  <2> QED BY <2>1, <2>2, <2>3 DEF HeldInv, Held, Applying
<1>6. CASE PatchTarget
  <2>1. pc = "patch" /\ pc' \in Applying \cup {"idle"}
    BY <1>6 DEF PatchTarget, Applied, Applying
  <2>2. src' = src /\ seen' = seen /\ space' = space /\ (target.there \/ target' = target)
    BY <1>6 DEF PatchTarget
  <2>3. Held
    BY <2>1 DEF HeldInv, Applying
  <2> QED BY <2>1, <2>2, <2>3 DEF HeldInv, Held, Applying
<1>7. CASE ListSecrets \/ GenerateSecret \/ UpdateSecret \/ PruneSecret
  <2>1. pc \in Applying /\ pc' \in Applying \cup {"idle"}
    BY <1>7 DEF ListSecrets, GenerateSecret, UpdateSecret, PruneSecret, Applying
  <2>2. src' = src /\ seen' = seen /\ target' = target /\ space' = space
    BY <1>7 DEF ListSecrets, GenerateSecret, UpdateSecret, PruneSecret
  <2> QED BY <2>1, <2>2, HeldWork
<1>8. CASE PatchVolumeStatus
  <2>1. src'.phase = src.phase /\ src'.pool = src.pool /\ src'.fin = src.fin
    BY <1>t, <1>8 DEF PatchVolumeStatus, Volume
  <2>2. seen' = seen /\ target' = target /\ space' = space /\ pc' = "idle"
    BY <1>8 DEF PatchVolumeStatus
  <2> QED BY <2>1, <2>2 DEF HeldInv, Held, Applying
<1>9. CASE DeleteTarget
  <2>1. pc = "delete" /\ src' = src /\ seen' = seen /\ space' = space
    BY <1>9 DEF DeleteTarget
  <2>2. CASE pc' = "release" /\ target' = target /\ (~space \/ ~target.there)
    BY <2>1, <2>2 DEF HeldInv, Held, Applying
  <2>3. CASE pc' = "idle" /\ space /\ target.there
    BY <2>1, <2>3 DEF HeldInv, Held, Applying
  <2> QED BY <1>9, <2>2, <2>3 DEF DeleteTarget
<1>10. CASE RemoveFinalizer
  <2>1. pc = "release" /\ pc' = "idle" /\ seen' = seen /\ target' = target /\ space' = space
    BY <1>10 DEF RemoveFinalizer
  <2>2. src.phase # "live" /\ seen.phase # "live" /\ ~target.there
    BY <2>1 DEF HeldInv
  <2>3. src' = src \/ src'.phase = "absent"
    BY <1>t, <1>10, <2>2, WriteEffect, VolumeKeeps, NoVolumeTyped DEF RemoveFinalizer, Volume
  <2> QED BY <2>1, <2>2, <2>3 DEF HeldInv, Held, Applying
<1> QED
  BY <1>1, <1>2, <1>3, <1>4, <1>5, <1>6, <1>7, <1>8, <1>9, <1>10 DEF Work

LEMMA HeldBySource ==
  ASSUME TypeOK, HeldInv, SourceCluster
  PROVE  HeldInv'
<1>t. src \in Volume
  BY DEF TypeOK, SourceTyped
<1>u. seen' = seen /\ target' = target /\ space' = space /\ pc' = pc
  BY DEF SourceCluster, Assign, ListVolume, Claim, Unclaim, Resize, DeleteVolume,
         CollectSecrets, Tamper, Change, sources, targets, spaces, worker
<1>1. CASE src' = src
  BY <1>1, <1>u, HeldElsewhere DEF HeldInv
<1>2. CASE Assign
  BY <1>2 DEF Assign, HeldInv
<1>3. CASE Claim \/ Unclaim \/ Resize
  <2>1. PICK volume : /\ Write(volume)
                      /\ volume.phase = src.phase /\ volume.pool = src.pool /\ volume.fin = src.fin
    <3>1. CASE Claim
      <4> DEFINE v == [src EXCEPT !.claimed = TRUE]
      <4>1. v.phase = src.phase /\ v.pool = src.pool /\ v.fin = src.fin
        BY <1>t, VolumeKeeps
      <4>2. Write(v)
        BY <3>1 DEF Claim, Change
      <4> HIDE DEF v
      <4> QED BY <4>1, <4>2
    <3>2. CASE Unclaim
      <4> DEFINE v == [src EXCEPT !.claimed = FALSE]
      <4>1. v.phase = src.phase /\ v.pool = src.pool /\ v.fin = src.fin
        BY <1>t, VolumeKeeps
      <4>2. Write(v)
        BY <3>2 DEF Unclaim, Change
      <4> HIDE DEF v
      <4> QED BY <4>1, <4>2
    <3>3. CASE Resize
      <4>1. PICK n : n = src.spec + 1
        OBVIOUS
      <4> DEFINE v == [src EXCEPT !.spec = n]
      <4>2. v.phase = src.phase /\ v.pool = src.pool /\ v.fin = src.fin
        BY <1>t DEF Volume
      <4>3. Write(v)
        BY <3>3, <4>1 DEF Resize, Change
      <4> HIDE DEF v
      <4> QED BY <4>2, <4>3
    <3> QED BY <1>3, <3>1, <3>2, <3>3
  <2>2. src'.phase = src.phase /\ src'.pool = src.pool /\ src'.fin = src.fin
    BY <2>1, WriteEffect DEF HeldInv
  <2> QED BY <1>u, <2>2 DEF HeldInv, Held
<1>4. CASE DeleteVolume
  <2>1. src.phase = "live"
    BY <1>4 DEF DeleteVolume
  <2>2. CASE src.fin
    <3>1. Write([src EXCEPT !.phase = "terminating"])
      BY <1>4, <2>2 DEF DeleteVolume, Change
    <3>2. src'.phase = "terminating" /\ src'.pool = src.pool /\ src'.fin
      <4> DEFINE v == [src EXCEPT !.phase = "terminating"]
      <4>1. v.phase = "terminating" /\ v.pool = src.pool /\ v.fin = src.fin
        BY <1>t, VolumeKeeps
      <4> HIDE DEF v
      <4>2. Write(v)
        BY <3>1 DEF v
      <4> QED BY <2>2, <4>1, <4>2, WriteEffect
    <3> QED BY <1>u, <2>1, <2>2, <3>2 DEF HeldInv, Held, Applying
  <2>3. CASE ~src.fin
    <3>1. src'.phase = "absent"
      BY <1>4, <2>3, WriteEffect, NoVolumeTyped DEF DeleteVolume, Change
    <3> QED BY <1>u, <2>1, <2>3, <3>1 DEF HeldInv, Held, Applying
  <2> QED BY <2>2, <2>3
<1> QED
  BY <1>1, <1>2, <1>3, <1>4
     DEF SourceCluster, ListVolume, CollectSecrets, Tamper, sources

LEMMA HeldByTarget ==
  ASSUME TypeOK, HeldInv, TargetCluster
  PROVE  HeldInv'
<1>1. src' = src /\ seen' = seen /\ pc' = pc
  BY DEF TargetCluster, Report, Issue, SyncPullSecret, TargetVanishes, EvictTarget,
         SpaceIsProvided, SpaceIsLost, Replace, sources, worker
<1>2. target'.there => target.there
  <2>1. \A state : [target EXCEPT !.state = state].there = target.there
    BY DEF TypeOK, TargetTyped, Target
  <2>2. CASE Report
    <3>1. PICK state : target' = [target EXCEPT !.state = state]
      BY <2>2 DEF Report, Replace, WriteTarget
    <3> QED BY <2>1, <3>1
  <2>3. CASE TargetVanishes \/ EvictTarget \/ SpaceIsLost
    BY <2>3, NoTargetTyped DEF TargetVanishes, EvictTarget, SpaceIsLost, Replace, WriteTarget
  <2>4. CASE Issue \/ SyncPullSecret \/ SpaceIsProvided
    BY <2>4 DEF Issue, SyncPullSecret, SpaceIsProvided, Replace, WriteTarget, targets
  <2> QED BY <2>2, <2>3, <2>4 DEF TargetCluster
<1>3. space' \/ ~target'.there
  <2>1. space' = space \/ space' \/ target' = NoTarget
    BY DEF TargetCluster, Report, Issue, SyncPullSecret, TargetVanishes, EvictTarget,
           SpaceIsProvided, SpaceIsLost, Replace, WriteTarget, spaces
  <2> QED BY <1>2, <2>1, NoTargetTyped DEF HeldInv
<1> QED
  BY <1>1, <1>2, <1>3, HeldElsewhere

LEMMA HoldStep == TypeOK /\ HoldInv /\ [Next]_vars => HoldInv'
<1> SUFFICES ASSUME TypeOK, HoldInv, [Next]_vars, world'.pool = "ours" PROVE HeldInv'
  BY DEF HoldInv
<1>w. world' = world
  BY DEF Next, Work, Begin, CheckLive, EnsureFinalizer, Resolve, CreateTarget, PatchTarget,
         ListSecrets, GenerateSecret, UpdateSecret, PruneSecret, PatchVolumeStatus,
         DeleteTarget, RemoveFinalizer, PruneFails, CallFails, Restart, Informers,
         ObserveVolume, ObserveMachine, ObserveTarget, ObserveCredential, ObserveSecret,
         ObserveSpaceCreated, SourceCluster, Assign, ListVolume, Claim, Unclaim, Resize,
         DeleteVolume, CollectSecrets, Tamper, Change, TargetCluster, Report, Issue,
         SyncPullSecret, TargetVanishes, EvictTarget, SpaceIsProvided, SpaceIsLost,
         Replace, vars
<1>h. HeldInv
  BY <1>w DEF HoldInv
<1> USE DEF Finish, Done, Retry, Goto, sources, targets, spaces, worker
<1>1. CASE Work
  BY <1>1, <1>h, HeldByWork
<1>2. CASE PruneFails
  BY <1>2, <1>h, HeldWork DEF PruneFails, Pruning, Applying
<1>3. CASE CallFails
  BY <1>3, <1>h, HeldWork DEF CallFails
<1>4. CASE Restart
  BY <1>4, <1>h DEF Restart, HeldInv, Held, Applying
<1>5. CASE ObserveVolume
  BY <1>5, <1>h DEF ObserveVolume, HeldInv, Held, Applying
<1>6. CASE Informers /\ ~ObserveVolume
  <2>1. src' = src /\ seen' = seen /\ target' = target /\ space' = space /\ pc' = pc
    BY <1>6 DEF Informers, ObserveMachine, ObserveTarget, ObserveCredential, ObserveSecret,
                ObserveSpaceCreated
  <2> QED BY <1>h, <2>1, HeldElsewhere DEF HeldInv
<1>7. CASE SourceCluster
  BY <1>7, <1>h, HeldBySource
<1>8. CASE TargetCluster
  BY <1>8, <1>h, HeldByTarget
<1>9. CASE UNCHANGED vars
  BY <1>9, <1>h DEF vars, HeldInv, Held
<1> QED
  BY <1>1, <1>2, <1>3, <1>4, <1>5, <1>6, <1>7, <1>8, <1>9 DEF Next, Informers

\* NoOrphan: the target of a Volume of the pool never outlives the finalizer that
\* brings about its deletion, for any sequence of events and faults.
THEOREM NoOrphanHolds == Spec => []NoOrphan
<1>1. Init => HoldInv
  <2> SUFFICES ASSUME Init, world.pool = "ours" PROVE HeldInv
    BY DEF HoldInv
  <2>1. src.phase = "live" /\ src.pool = "ours"
    BY NoVolumeTyped DEF Init, Volume
  <2>2. seen.phase = "absent" /\ pc = "idle" /\ ~target.there
    BY NoVolumeTyped, NoTargetTyped DEF Init
  <2> QED BY <2>1, <2>2 DEF HeldInv, Held, Applying
<1>2. HoldInv => NoOrphan
  BY DEF HoldInv, HeldInv, Held, NoOrphan
<1> QED
  BY <1>1, <1>2, HoldStep, TypeCorrect, PTL DEF Spec

===============================================================================
