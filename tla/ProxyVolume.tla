----------------------------- MODULE ProxyVolume -----------------------------
(***************************************************************************)
(* Volumes that are themselves targets of another brokerlet, served by     *)
(* proxyvolumebrokerlet (ProxyVolumeReconciler, ProxyVolumeApplier).       *)
(*                                                                         *)
(* The Volumes have one broker controller, so they share one target.  Each *)
(* registers itself among the owners in the annotation of the target,      *)
(* which other processes write as well; a patch made of a cached copy      *)
(* replaces the whole annotation.                                          *)
(*                                                                         *)
(* The Volumes are in one source Namespace, Home.  Their events are        *)
(* dropped while Home is not cached; the creation of the target Namespace  *)
(* of Home enqueues them all.                                              *)
(***************************************************************************)
EXTENDS Naturals, FiniteSets

CONSTANTS
  Worlds,      \* what may happen in a behaviour
  Volumes,     \* the Volumes of the pool, in the source cluster
  Other,       \* an owner that somebody else registers
  None,
  MaxChanges,  \* bound: what others do to the target, and its states
  MaxFaults    \* bound: failed calls, restarts

Events == {"home", "late", "evict", "report", "other", "delete", "fail", "restart"}

ASSUME ProxyAssumption ==
  /\ Worlds \subseteq SUBSET Events
  /\ Other \notin Volumes /\ None \notin Volumes /\ MaxChanges \in Nat /\ MaxFaults \in Nat

VARIABLES
  world,
  src,       \* the Volumes in the source cluster
  seen,      \* the same in the cache
  target,    \* the Volume they stand for
  tseen,     \* the same in the cache
  events,    \* the owners before and after the changes that have yet to be reported
  tevent,    \* there are such changes
  ocopy,     \* the annotation that the other process read last
  space,       \* Home has a target Namespace
  spaceEvent,  \* its creation has yet to be reported
  homeSeen,    \* Home is in the cache of Namespaces
  queue, pc, cur, copy,
  base,      \* the target the worker read
  changes, faults

sources == <<src, seen>>
targets == <<target, tseen, events, tevent, ocopy>>
spaces  == <<space, spaceEvent, homeSeen>>
worker  == <<pc, cur, copy, base>>
vars    == <<world, src, seen, target, tseen, events, tevent, ocopy, space, spaceEvent, homeSeen,
             queue, pc, cur, copy, base, changes, faults>>

Owners == Volumes \cup {Other}

Volume   == [phase : {"absent", "live", "terminating"}, fin : BOOLEAN, state : 0..1]
NoVolume == [phase |-> "absent", fin |-> FALSE, state |-> 0]

Target   == [there : BOOLEAN, owners : SUBSET Owners, state : 0..1]
NoTarget == [there |-> FALSE, owners |-> {}, state |-> 0]

TypeOK ==
  /\ world \in Worlds
  /\ src \in [Volumes -> Volume] /\ seen \in [Volumes -> Volume]
  /\ target \in Target /\ tseen \in Target
  /\ target.there \/ target = NoTarget
  /\ events \subseteq Volumes /\ tevent \in BOOLEAN
  /\ ocopy \subseteq Owners
  /\ space \in BOOLEAN /\ spaceEvent \in BOOLEAN /\ homeSeen \in BOOLEAN
  /\ queue \subseteq Volumes
  /\ pc \in {"idle", "finalize", "own", "disown", "status", "release"}
  /\ IF pc = "idle" THEN cur = None ELSE cur \in Volumes
  /\ copy \in Volume /\ base \in Target
  /\ pc \in {"own", "disown"} => base.there
  /\ changes \in 0..MaxChanges /\ faults \in 0..MaxFaults

May(event) == event \in world

\* Unless Home is new or the target comes late, the target and the target Namespace
\* are there, and the Volumes have the finalizer.
Init ==
  /\ world \in Worlds
  /\ src = [v \in Volumes |-> [NoVolume EXCEPT !.phase = "live", !.fin = ~(May("late") \/ May("home"))]]
  /\ seen = [v \in Volumes |-> NoVolume]
  /\ target = [NoTarget EXCEPT !.there = ~May("late")] /\ tseen = target
  /\ events = {} /\ tevent = FALSE /\ ocopy = {}
  /\ space = ~May("home") /\ spaceEvent = FALSE /\ homeSeen = space
  /\ queue = {} /\ pc = "idle" /\ cur = None /\ copy = NoVolume /\ base = NoTarget
  /\ changes = 0 /\ faults = 0

\* A terminating object vanishes with its last finalizer.
Write(v, volume) ==
  src' = [src EXCEPT ![v] = IF volume.phase = "terminating" /\ ~volume.fin THEN NoVolume ELSE volume]

\* Watch events carry the object before and after each change.
WriteTarget(t) ==
  /\ target' = t
  /\ events' = events \cup ((target.owners \cup t.owners) \cap Volumes)
  /\ tevent' = (tevent \/ t # target)

(***************************************************************************)
(* The worker.                                                             *)
(***************************************************************************)
Finish   == pc' = "idle" /\ cur' = None /\ copy' = NoVolume /\ base' = NoTarget
Done     == Finish /\ queue' = queue
Retry    == Finish /\ queue' = queue \cup {cur}
Goto(step) == pc' = step /\ UNCHANGED <<queue, cur, copy, base>>

\* Reconcile up to the first write, all reads from the caches.  A deletion has
\* nothing to do to a target that is not there; ApplyTarget fails without it.
Begin(v) ==
  LET volume == seen[v]
      Turn(step) == /\ pc' = step /\ cur' = v /\ copy' = volume /\ base' = tseen
                    /\ queue' = queue \ {v}
  IN
  /\ v \in queue /\ pc = "idle"
  /\ \/ /\ volume.phase = "absent" \/ (volume.phase = "terminating" /\ ~volume.fin)
        /\ queue' = queue \ {v}
        /\ UNCHANGED worker
     \/ volume.phase = "terminating" /\ volume.fin /\ tseen.there /\ Turn("disown")
     \/ volume.phase = "terminating" /\ volume.fin /\ ~tseen.there /\ Turn("release")
     \/ volume.phase = "live" /\ ~volume.fin /\ Turn("finalize")
     \/ volume.phase = "live" /\ volume.fin /\ tseen.there /\ Turn("own")
     \/ volume.phase = "live" /\ volume.fin /\ ~tseen.there /\ UNCHANGED <<queue, worker>>
  /\ UNCHANGED <<world, spaces, sources, targets, changes, faults>>

\* A finalizer that was added wakes the worker by its event.
EnsureFinalizer ==
  /\ pc = "finalize"
  /\ \/ src[cur].phase = "live" /\ Write(cur, [src[cur] EXCEPT !.fin = TRUE]) /\ Done
     \/ src[cur].phase # "live" /\ Retry /\ UNCHANGED src
  /\ UNCHANGED <<world, spaces, seen, targets, changes, faults>>

\* An annotation that is to be changed is replaced as a whole, one that is not is
\* left as it is.  The reply brings the target up to date.
Annotate(owners) ==
  WriteTarget(IF owners = base.owners THEN target ELSE [target EXCEPT !.owners = owners])

\* Mutant: the patch of a target that is gone is taken for done.
ApplyTargetUnchecked ==
  /\ pc = "own"
  /\ Annotate(base.owners \cup {cur})
  /\ pc' = "status" /\ base' = target' /\ UNCHANGED <<queue, cur, copy>>
  /\ UNCHANGED <<world, spaces, sources, tseen, ocopy, changes, faults>>

ApplyTarget ==
  /\ pc = "own"
  /\ \/ /\ target.there
        /\ Annotate(base.owners \cup {cur})
        /\ pc' = "status" /\ base' = target' /\ UNCHANGED <<queue, cur, copy>>
     \/ ~target.there /\ Retry /\ UNCHANGED <<target, events, tevent>>
  /\ UNCHANGED <<world, spaces, sources, tseen, ocopy, changes, faults>>

\* Mutant: the target is waited for, which may be gone already.
DeleteTargetFails ==
  /\ pc = "disown"
  /\ \/ /\ target.there
        /\ Annotate(base.owners \ {cur})
        /\ Goto("release")
     \/ ~target.there /\ Done /\ UNCHANGED <<target, events, tevent>>
  /\ UNCHANGED <<world, spaces, sources, tseen, ocopy, changes, faults>>

DeleteTarget ==
  /\ pc = "disown"
  /\ \/ target.there /\ Annotate(base.owners \ {cur})
     \/ ~target.there /\ UNCHANGED <<target, events, tevent>>
  /\ Goto("release")
  /\ UNCHANGED <<world, spaces, sources, tseen, ocopy, changes, faults>>

\* Mutant: the status is patched with what the Volume has already.
PatchStatusOld ==
  /\ pc = "status"
  /\ Done
  /\ UNCHANGED <<world, spaces, sources, targets, changes, faults>>

\* A merge patch: what the copy has already is not sent.  The finalizer, which only
\* the worker removes, keeps the Volume there.
PatchStatus ==
  /\ pc = "status"
  /\ src' = [src EXCEPT ![cur].state = IF base.state = copy.state THEN @ ELSE base.state]
  /\ Done
  /\ UNCHANGED <<world, spaces, seen, targets, changes, faults>>

RemoveFinalizer ==
  /\ pc = "release"
  /\ \/ src[cur].phase # "absent" /\ Write(cur, [src[cur] EXCEPT !.fin = FALSE]) /\ Done
     \/ src[cur].phase = "absent" /\ Retry /\ UNCHANGED src
  /\ UNCHANGED <<world, spaces, seen, targets, changes, faults>>

Work ==
  \/ \E v \in Volumes : Begin(v)
  \/ EnsureFinalizer \/ ApplyTarget \/ DeleteTarget \/ PatchStatus \/ RemoveFinalizer

CallFails ==
  /\ May("fail") /\ pc # "idle" /\ faults < MaxFaults /\ faults' = faults + 1
  /\ Retry
  /\ UNCHANGED <<world, spaces, sources, targets, changes>>

\* The first look-up of a Namespace waits until all are listed.
Restart ==
  /\ May("restart") /\ faults < MaxFaults /\ faults' = faults + 1
  /\ seen' = src /\ tseen' = target /\ events' = {} /\ tevent' = FALSE
  /\ homeSeen' = TRUE /\ spaceEvent' = FALSE
  /\ Finish /\ queue' = {v \in Volumes : src[v].phase # "absent"}
  /\ UNCHANGED <<world, src, target, ocopy, space, changes>>

(***************************************************************************)
(* The informers and their event handlers.                                 *)
(***************************************************************************)
\* FilterNoTargetNamespacePredicate drops what it cannot look up the Namespace of.
ObserveVolume(v) ==
  /\ seen[v] # src[v]
  /\ seen' = [seen EXCEPT ![v] = src[v]]
  /\ queue' = IF homeSeen THEN queue \cup {v} ELSE queue
  /\ UNCHANGED <<world, spaces, src, targets, worker, changes, faults>>

\* Mutant: the owners that are left are enqueued, and no others.
ObserveTargetNew ==
  /\ tevent
  /\ tseen' = target /\ tevent' = FALSE /\ events' = {}
  /\ queue' = queue \cup (target.owners \cap Volumes)
  /\ UNCHANGED <<world, spaces, sources, target, ocopy, worker, changes, faults>>

\* The owners before a change are enqueued with those after it.
ObserveTarget ==
  /\ tevent
  /\ tseen' = target /\ tevent' = FALSE /\ events' = {}
  /\ queue' = queue \cup events
  /\ UNCHANGED <<world, spaces, sources, target, ocopy, worker, changes, faults>>

ObserveHome ==
  /\ ~homeSeen
  /\ homeSeen' = TRUE
  /\ UNCHANGED <<world, sources, targets, space, spaceEvent, queue, worker, changes, faults>>

\* Mutant: the creation of target Namespaces is not watched.
SpaceUnwatched ==
  /\ spaceEvent
  /\ spaceEvent' = FALSE
  /\ UNCHANGED <<world, sources, targets, space, homeSeen, queue, worker, changes, faults>>

\* All Volumes of Home that are cached are enqueued.
ObserveSpaceCreated ==
  /\ spaceEvent
  /\ spaceEvent' = FALSE
  /\ queue' = queue \cup {v \in Volumes : seen[v].phase # "absent"}
  /\ UNCHANGED <<world, sources, targets, space, homeSeen, worker, changes, faults>>

Informers ==
  \/ ObserveTarget \/ ObserveHome \/ ObserveSpaceCreated
  \/ \E v \in Volumes : ObserveVolume(v)

(***************************************************************************)
(* The clusters.                                                           *)
(***************************************************************************)
DeleteVolume(v) ==
  /\ May("delete") /\ src[v].phase = "live"
  /\ Write(v, IF src[v].fin THEN [src[v] EXCEPT !.phase = "terminating"] ELSE NoVolume)
  /\ UNCHANGED <<world, spaces, seen, targets, queue, worker, changes, faults>>

ChangeTarget(t) ==
  /\ changes < MaxChanges /\ changes' = changes + 1
  /\ WriteTarget(t)
  /\ UNCHANGED <<world, spaces, sources, tseen, queue, worker, faults>>

\* The Volume of the other brokerlet's making comes and goes with its owners.
ProvideTarget == ~target.there /\ ChangeTarget([NoTarget EXCEPT !.there = TRUE]) /\ UNCHANGED ocopy
EvictTarget   == May("evict") /\ target.there /\ ChangeTarget(NoTarget) /\ UNCHANGED ocopy

Report == May("report") /\ target.there /\ ChangeTarget([target EXCEPT !.state = 1 - @]) /\ UNCHANGED ocopy

\* The Namespace reconciler reads Home from the cache first.
SpaceIsProvided ==
  /\ homeSeen /\ ~space
  /\ space' = TRUE /\ spaceEvent' = TRUE
  /\ UNCHANGED <<world, sources, targets, homeSeen, queue, worker, changes, faults>>

OtherReads ==
  /\ May("other")
  /\ target.there /\ ocopy # target.owners
  /\ ocopy' = target.owners
  /\ UNCHANGED <<world, spaces, sources, target, tseen, events, tevent, queue, worker, changes, faults>>

OtherWrites ==
  /\ May("other")
  /\ target.there
  /\ \E owners \in {ocopy \cup {Other}, ocopy \ {Other}} \ {ocopy} :
       ChangeTarget([target EXCEPT !.owners = owners]) /\ ocopy' = owners

Clusters ==
  \/ \E v \in Volumes : DeleteVolume(v)
  \/ ProvideTarget \/ EvictTarget \/ Report \/ SpaceIsProvided \/ OtherReads \/ OtherWrites

Next == Work \/ CallFails \/ Restart \/ Informers \/ Clusters

Spec == Init /\ [][Next]_vars

\* The worker runs and the informers deliver; the clusters owe nothing.
Fairness == WF_vars(Work) /\ SF_vars(\E v \in Volumes : Begin(v)) /\ WF_vars(Informers)

FairSpec == Spec /\ Fairness

(***************************************************************************)
(* Properties.                                                             *)
(***************************************************************************)
\* No Volume is forgotten: one that is not among the owners of the target, or does
\* not have its state, is with the worker, in the queue, or about to be put there
\* by an informer.  ApplyTarget sends nothing for a Volume that its stale copy has
\* among the owners, and asks for no other pass: what keeps that Volume from being
\* lost is the handler, which enqueues the owners of the old object with those of
\* the new one.  And FilterNoTargetNamespacePredicate drops the event of a Volume
\* whose Namespace is not cached: such a Volume waits for the target Namespace, and
\* is enqueued by its creation, which nothing may overtake.
NeverForgotten ==
  \A v \in Volumes : src[v].phase = "live" =>
    \/ v \in target.owners /\ src[v].state = target.state
    \/ cur = v
    \/ v \in queue
    \/ tevent /\ v \in events
    \/ seen[v] # src[v]
    \/ ~space \/ spaceEvent

\* Each Volume that stays is among the owners of the target in the end, though
\* the patches of other Volumes and processes overwrite its entry: an event has
\* the owners before the change, and the one who lost its entry adds it again.
\* One whose first event was dropped needs the target Namespace of Home.
Recorded ==
  \A v \in Volumes :
    <>[](src[v].phase = "live" /\ target.there /\ space) => <>[](v \in target.owners)

\* What the shared target reports reaches each of them, once Home has its target
\* Namespace.
StatusFollows ==
  \A v \in Volumes :
    <>[](src[v].phase = "live" /\ target.there /\ space) => <>[](src[v].state = target.state)

\* A Volume that was deleted goes, with or without a target or target Namespace.
DeletedGoes == \A v \in Volumes : []<>(src[v].phase # "terminating")
===============================================================================
