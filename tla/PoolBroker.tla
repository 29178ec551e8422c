------------------------------ MODULE PoolBroker ------------------------------
(***************************************************************************)
(* A pool of the source cluster that stands for pools of the target        *)
(* cluster: MachinePoolReconciler and VolumePoolReconciler                 *)
(* (broker/controllers/compute/machinepool_controller.go,                  *)
(* broker/controllers/storage/volumepool_controller.go).                   *)
(*                                                                         *)
(* The pool offers the classes, and a VolumePool the capacity, of the      *)
(* target pools it selects by name or by labels.  A pool that is deleted   *)
(* takes the objects with it that are assigned to it, if somebody gave it  *)
(* the finalizer, which no code of the repository does.                    *)
(***************************************************************************)
EXTENDS Naturals, FiniteSets, Functions

CONSTANTS
  Worlds,       \* what may happen
  Objects,      \* Machines, or Volumes
  TargetPools,
  Classes,
  MaxCapacity,
  MaxChanges,   \* bound: changes of target pools
  MaxFaults     \* bound: failed calls, restarts

Events == {"finalizer", "assign", "delete", "offer", "relabel", "fail", "restart"}

ASSUME PoolAssumption ==
  /\ Worlds \subseteq SUBSET Events
  /\ IsFiniteSet(TargetPools)
  /\ MaxCapacity \in Nat /\ MaxChanges \in Nat /\ MaxFaults \in Nat

VARIABLES
  world,
  pool,       \* the pool in the source cluster
  seen,       \* the same in the cache
  objects,    \* the objects that may be assigned to it
  oseen,      \* the same in the cache
  targets,    \* the target pools
  tseen,      \* the same in the cache
  queue,      \* a request is in the workqueue; whichever it is, the pool is meant
  pc, copy, plan,
  todo,       \* the objects left to delete in this pass
  missed,     \* objects whose deletion failed and was not tried again
  changes, faults

clusters == <<pool, seen, objects, oseen, targets, tseen>>
worker   == <<pc, copy, plan, todo>>
vars     == <<world, pool, seen, objects, oseen, targets, tseen, queue, pc, copy, plan, todo,
              missed, changes, faults>>

Total == MaxCapacity * Cardinality(TargetPools)

Offer   == [classes : SUBSET Classes, available : 0..Total]
Nothing == [classes |-> {}, available |-> 0]

Pool   == [phase : {"absent", "live", "terminating"}, fin : BOOLEAN, offer : Offer]
NoPool == [phase |-> "absent", fin |-> FALSE, offer |-> Nothing]

TargetPool   == [there : BOOLEAN, matches : BOOLEAN, classes : SUBSET Classes, available : 0..MaxCapacity]
NoTargetPool == [there |-> FALSE, matches |-> FALSE, classes |-> {}, available |-> 0]

ObjectStates == {"absent", "unassigned", "assigned", "terminating"}

TypeOK ==
  /\ world \in Worlds
  /\ pool \in Pool /\ seen \in Pool /\ copy \in Pool
  /\ objects \in [Objects -> ObjectStates] /\ oseen \in [Objects -> ObjectStates]
  /\ targets \in [TargetPools -> TargetPool] /\ tseen \in [TargetPools -> TargetPool]
  /\ queue \in BOOLEAN
  /\ pc \in {"start", "idle", "status", "drain", "release"}
  /\ plan \in Offer
  /\ todo \subseteq Objects /\ (todo # {}) = (pc = "drain")
  /\ missed \subseteq Objects
  /\ changes \in 0..MaxChanges /\ faults \in 0..MaxFaults

May(event)   == event \in world
Fault(event) == May(event) /\ faults < MaxFaults /\ faults' = faults + 1

Init ==
  /\ world \in Worlds
  /\ pool = NoPool /\ seen = NoPool
  /\ objects = [o \in Objects |-> "unassigned"] /\ oseen = objects
  /\ targets = [t \in TargetPools |-> NoTargetPool] /\ tseen = targets
  /\ queue = FALSE /\ pc = "start" /\ copy = NoPool /\ plan = Nothing /\ todo = {}
  /\ missed = {} /\ changes = 0 /\ faults = 0

\* A terminating object vanishes with its last finalizer.
Write(p) == pool' = IF p.phase = "terminating" /\ ~p.fin THEN NoPool ELSE p

(***************************************************************************)
(* What the target pools offer together.                                   *)
(***************************************************************************)
Selected(pools) == {t \in TargetPools : pools[t].there /\ pools[t].matches}

Accumulate(pools) ==
  [classes   |-> UNION {pools[t].classes : t \in Selected(pools)},
   available |-> SumFunction([t \in Selected(pools) |-> pools[t].available])]

(***************************************************************************)
(* The worker.                                                             *)
(***************************************************************************)
Finish == pc' = "idle" /\ copy' = NoPool /\ plan' = Nothing /\ todo' = {}
Done   == Finish /\ queue' = queue
Retry  == Finish /\ queue' = TRUE

Assigned(o, view) == view[o] \in {"assigned", "terminating"}

\* SetupWithManager applies the pool before the controller starts; the first list
\* of the informers then enqueues what is there.
Initialize ==
  /\ pc = "start"
  /\ pool' = IF pool.phase = "absent" THEN [NoPool EXCEPT !.phase = "live"] ELSE pool
  /\ seen' = pool'
  /\ oseen' = objects /\ tseen' = targets
  /\ queue' = TRUE /\ pc' = "idle"
  /\ UNCHANGED <<world, objects, targets, copy, plan, todo, missed, changes, faults>>

\* Reconcile, reads of the caches only: what the pool is to offer, or what is left
\* of a pool that is deleted.
Begin ==
  LET left == {o \in Objects : Assigned(o, oseen)} IN
  /\ queue /\ pc = "idle"
  /\ queue' = FALSE
  /\ \/ /\ seen.phase = "absent" \/ (seen.phase = "terminating" /\ ~seen.fin)
        /\ UNCHANGED worker
     \/ /\ seen.phase = "live"
        /\ pc' = "status" /\ copy' = seen /\ plan' = Accumulate(tseen) /\ UNCHANGED todo
     \/ /\ seen.phase = "terminating" /\ seen.fin
        /\ pc' = (IF left = {} THEN "release" ELSE "drain")
        /\ copy' = seen /\ todo' = left /\ UNCHANGED plan
  /\ UNCHANGED <<world, clusters, missed, changes, faults>>

\* Mutant: each pass adds to what the pool offers.
PatchStatusAdds ==
  /\ pc = "status"
  /\ \/ /\ pool.phase # "absent"
        /\ pool' = [pool EXCEPT !.offer.classes = @ \cup plan.classes,
                                !.offer.available = @ + plan.available]
        /\ Done
     \/ pool.phase = "absent" /\ Retry /\ UNCHANGED pool
  /\ UNCHANGED <<world, seen, objects, oseen, targets, tseen, missed, changes, faults>>

\* A merge patch: what the copy has already is not sent.
PatchStatus ==
  /\ pc = "status"
  /\ \/ /\ pool.phase # "absent"
        /\ pool' = [pool EXCEPT !.offer =
             [classes   |-> IF plan.classes = copy.offer.classes THEN @.classes ELSE plan.classes,
              available |-> IF plan.available = copy.offer.available THEN @.available
                            ELSE plan.available]]
        /\ Done
     \/ pool.phase = "absent" /\ Retry /\ UNCHANGED pool
  /\ UNCHANGED <<world, seen, objects, oseen, targets, tseen, missed, changes, faults>>

\* When the last call is made the pass ends: the events of the objects begin the next.
NextObject(o) ==
  IF todo = {o} THEN Done
  ELSE todo' = todo \ {o} /\ UNCHANGED <<queue, pc, copy, plan>>

DeleteObject(o) ==
  /\ pc = "drain" /\ o \in todo
  /\ objects' = [objects EXCEPT ![o] = IF @ = "absent" THEN @ ELSE "terminating"]
  /\ missed' = missed \ {o}
  /\ NextObject(o)
  /\ UNCHANGED <<world, pool, seen, oseen, targets, tseen, changes, faults>>

\* "Error deleting machine" is logged, and the pass goes on.
DeleteObjectFails(o) ==
  /\ pc = "drain" /\ o \in todo
  /\ Fault("fail")
  /\ missed' = missed \cup {o}
  /\ NextObject(o)
  /\ UNCHANGED <<world, clusters, changes>>

RemoveFinalizer ==
  /\ pc = "release"
  /\ \/ pool.phase # "absent" /\ Write([pool EXCEPT !.fin = FALSE]) /\ Done
     \/ pool.phase = "absent" /\ Retry /\ UNCHANGED pool
  /\ UNCHANGED <<world, seen, objects, oseen, targets, tseen, missed, changes, faults>>

Work ==
  \/ Initialize \/ Begin \/ PatchStatus \/ RemoveFinalizer
  \/ \E o \in Objects : DeleteObject(o)

CallFails ==
  /\ pc \in {"status", "release"}
  /\ Fault("fail")
  /\ Retry
  /\ UNCHANGED <<world, clusters, missed, changes>>

\* Also when Initialize fails: the process exits.
Restart ==
  /\ Fault("restart")
  /\ pc' = "start" /\ queue' = FALSE
  /\ copy' = NoPool /\ plan' = Nothing /\ todo' = {}
  /\ UNCHANGED <<world, clusters, missed, changes>>

(***************************************************************************)
(* The informers, once the controller has started, and their predicates.   *)
(***************************************************************************)
ObservePool ==
  /\ pc # "start" /\ seen # pool
  /\ seen' = pool /\ queue' = TRUE
  /\ UNCHANGED <<world, pool, objects, oseen, targets, tseen, worker, missed, changes, faults>>

\* Mutant: the end of an object is not reported.
ObserveObjectThere(o) ==
  /\ pc # "start" /\ oseen[o] # objects[o]
  /\ oseen' = [oseen EXCEPT ![o] = objects[o]]
  /\ queue' = (queue \/ Assigned(o, objects))
  /\ UNCHANGED <<world, pool, seen, objects, targets, tseen, worker, missed, changes, faults>>

\* The predicate asks the new object, or the one that is gone, for its pool.
ObserveObject(o) ==
  /\ pc # "start" /\ oseen[o] # objects[o]
  /\ oseen' = [oseen EXCEPT ![o] = objects[o]]
  /\ queue' = (queue \/ Assigned(o, IF objects[o] = "absent" THEN oseen ELSE objects))
  /\ UNCHANGED <<world, pool, seen, objects, targets, tseen, worker, missed, changes, faults>>

\* Mutant: pools that are gone are not asked for.
ObserveTargetPoolThere(t) ==
  /\ pc # "start" /\ tseen[t] # targets[t]
  /\ tseen' = [tseen EXCEPT ![t] = targets[t]]
  /\ queue' = (queue \/ t \in Selected(targets))
  /\ UNCHANGED <<world, pool, seen, objects, oseen, targets, worker, missed, changes, faults>>

\* NameLabelsPredicate asks the new object as well: a pool that no longer matches
\* wakes nobody.
ObserveTargetPool(t) ==
  /\ pc # "start" /\ tseen[t] # targets[t]
  /\ tseen' = [tseen EXCEPT ![t] = targets[t]]
  /\ queue' = (queue \/ t \in Selected(IF targets[t].there THEN targets ELSE tseen))
  /\ UNCHANGED <<world, pool, seen, objects, oseen, targets, worker, missed, changes, faults>>

Informers ==
  \/ ObservePool
  \/ \E o \in Objects : ObserveObject(o)
  \/ \E t \in TargetPools : ObserveTargetPool(t)

(***************************************************************************)
(* The clusters.                                                           *)
(***************************************************************************)
ChangePool(p) ==
  /\ Write(p)
  /\ UNCHANGED <<world, seen, objects, oseen, targets, tseen, queue, worker, missed, changes, faults>>

GiveFinalizer ==
  May("finalizer") /\ pool.phase = "live" /\ ~pool.fin /\ ChangePool([pool EXCEPT !.fin = TRUE])

DeletePool ==
  /\ May("delete") /\ pool.phase = "live"
  /\ ChangePool(IF pool.fin THEN [pool EXCEPT !.phase = "terminating"] ELSE NoPool)

ChangeObject(o, state) ==
  /\ objects' = [objects EXCEPT ![o] = state]
  /\ UNCHANGED <<world, pool, seen, oseen, targets, tseen, queue, worker, missed, changes, faults>>

\* The scheduler assigns to pools that are there.
Assign(o) ==
  /\ May("assign") /\ pool.phase = "live" /\ objects[o] = "unassigned"
  /\ ChangeObject(o, "assigned")

ObjectVanishes(o) == objects[o] = "terminating" /\ ChangeObject(o, "absent")

ChangeTarget(t, p) ==
  /\ May("offer") /\ changes < MaxChanges /\ p # targets[t]
  /\ changes' = changes + 1
  /\ targets' = [targets EXCEPT ![t] = p]
  /\ UNCHANGED <<world, pool, seen, objects, oseen, tseen, queue, worker, missed, faults>>

\* The watch reports the end of a target pool before another takes its name.
AddTargetPool(t) ==
  /\ ~targets[t].there /\ (pc = "start" \/ ~tseen[t].there)
  /\ \E matches \in BOOLEAN : ChangeTarget(t, [NoTargetPool EXCEPT !.there = TRUE, !.matches = matches])

ReportTargetPool(t) ==
  /\ targets[t].there
  /\ \E classes \in SUBSET Classes : \E available \in 0..MaxCapacity :
       ChangeTarget(t, [targets[t] EXCEPT !.classes = classes, !.available = available])

\* Labels are given; only where the world has it are they taken.
Relabel(t) ==
  /\ targets[t].there /\ (targets[t].matches => May("relabel"))
  /\ ChangeTarget(t, [targets[t] EXCEPT !.matches = ~@])

DropTargetPool(t) == targets[t].there /\ ChangeTarget(t, NoTargetPool)

Clusters ==
  \/ GiveFinalizer \/ DeletePool
  \/ \E o \in Objects : Assign(o) \/ ObjectVanishes(o)
  \/ \E t \in TargetPools :
       AddTargetPool(t) \/ ReportTargetPool(t) \/ Relabel(t) \/ DropTargetPool(t)

Next ==
  \/ Work \/ CallFails \/ Restart \/ Informers \/ Clusters
  \/ \E o \in Objects : DeleteObjectFails(o)

Spec == Init /\ [][Next]_vars

(***************************************************************************)
(* Fairness: the worker runs, the informers deliver, and what is deleted   *)
(* vanishes.                                                               *)
(***************************************************************************)
Fairness ==
  /\ WF_vars(Work) /\ WF_vars(Informers)
  /\ WF_vars(\E o \in Objects : ObjectVanishes(o))

FairSpec == Spec /\ Fairness

(***************************************************************************)
(* Properties.                                                             *)
(***************************************************************************)
\* No event is lost that matters: while no request is queued, no pass runs and the
\* caches are as the clusters are, a live pool offers what its target pools do, and a
\* deleted one waits for objects that are on their way out, or whose deletion failed
\* ("error deleting machine" is only logged).  Labels taken away are the exception.
AtRest == pc = "idle" /\ ~queue /\ seen = pool /\ oseen = objects /\ tseen = targets

NothingLeft ==
  AtRest =>
    /\ pool.phase = "live" /\ ~May("relabel") => pool.offer = Accumulate(targets)
    /\ pool.phase = "terminating" =>
         \E o \in Objects : objects[o] = "terminating" \/ (o \in missed /\ Assigned(o, objects))

\* While the pool lives it offers in the end what the selected target pools do,
\* though target pools come, go and start to match and each patch is made of a
\* copy ("waiting for the machine classes to be empty again").  A target pool that
\* ceases to match is not reported, and left out.
StatusFollows ==
  <>[](pool.phase = "live") => <>[](pool.offer = Accumulate(targets))

\* A pool that is deleted goes, with the objects assigned to it: each event of an
\* object begins the pass that looks for the rest.  A deletion that failed is not
\* tried again by itself.
PoolGoes == <>[](missed = {}) => []<>(pool.phase # "terminating")

\* "All machines are gone, removing finalizer": a pool goes after the objects that
\* are assigned to it.
PoolDrained ==
  [][pool.phase # "absent" /\ pool'.phase = "absent" =>
       \A o \in Objects : ~Assigned(o, objects)]_vars
===============================================================================
