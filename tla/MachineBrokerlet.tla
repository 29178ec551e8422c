--------------------------- MODULE MachineBrokerlet ---------------------------
(***************************************************************************)
(* The reconcilers of a machine brokerlet that depend on each other:       *)
(* Machine (broker/controllers/compute/machine_controller.go), Volume      *)
(* (machinebrokerlet/controllers/storage/onewaysyncvolume_controller.go    *)
(* with SyncVolumeApplier), Network, NetworkInterface, VirtualIP and       *)
(* AliasPrefix (broker/controllers/networking).                            *)
(*                                                                         *)
(* There is one object of each kind, all in one source Namespace, Home.    *)
(* Each reconciler has a worker of its own.  They meet in the objects: the *)
(* target of one is made of the targets of others, looked up in the caches *)
(* through the Provider.                                                   *)
(*                                                                         *)
(* One action is one call of a worker to an API server, with the cached    *)
(* reads up to the next one.  A cache catches up with the latest version   *)
(* of an object in one step.                                               *)
(***************************************************************************)
EXTENDS Naturals, FiniteSets

CONSTANTS
  Worlds,      \* what a behaviour has: which kinds, and what may happen
  Evictable,   \* kinds whose targets somebody else may delete
  MaxUid,      \* bound: targets of one kind, one after the other
  MaxFaults    \* bound: failed calls, restarts, evictions, lost target Namespaces

Kinds    == {"machine", "volume", "secret", "network", "nic", "vip", "alias"}
Attached == {"volume", "nic"}
Steps    == {"idle", "live", "resolve", "finalize", "create", "patch", "status",
             "route", "delete", "release"}

Events   == {"unlist", "run", "fail", "restart", "evict", "lose"}

\* Kinds that are brokered, kinds whose targets somebody else takes care of,
\* kinds that are there when the brokerlet starts, kinds that may be deleted, and
\* what else may happen.
ASSUME BrokerletAssumption ==
  /\ Worlds \subseteq [brokered : SUBSET Kinds, given : SUBSET Kinds,
                       early : SUBSET Kinds, goes : SUBSET Kinds, may : SUBSET Events]
  /\ \A w \in Worlds : w.brokered \cap w.given = {} /\ "secret" \notin w.brokered
  /\ Evictable \subseteq Kinds
  /\ MaxUid \in Nat \ {0} /\ MaxFaults \in Nat

VARIABLES
  world,       \* the kinds of this behaviour
  src,         \* the objects in the source cluster
  seen,        \* the same in the informer caches
  target,      \* their targets
  tseen,       \* the same in the caches of the target cluster
  gens,        \* per kind, the number of targets so far
  route,       \* the AliasPrefixRouting, in the source, its cache and the target
  space,       \* the target Namespace of Home is there
  spaceEvent,  \* its creation has yet to be reported
  homeSeen,    \* Home is in the cache of Namespaces
  homonym,     \* the target cluster has a Namespace of the name of Home
  queue,       \* kinds whose object is in the workqueue of its controller
  pc,          \* per kind, the next call of the worker
  copy,        \* per kind, the object the worker read
  plan,        \* per kind, the change of the target the worker is about to make
  faults

sources == <<src, seen, route>>
targets == <<target, tseen, gens>>
spaces  == <<space, spaceEvent, homeSeen>>
worker  == <<pc, copy, plan>>
vars    == <<world, src, seen, target, tseen, gens, route, space, spaceEvent, homeSeen,
             homonym, queue, pc, copy, plan, faults>>

(***************************************************************************)
(* link is the reference that is set late: of a Machine its pool, of a     *)
(* Volume or NetworkInterface the Machine, of a VirtualIP the              *)
(* NetworkInterface.  up is what is reported late: that the Machine runs,  *)
(* that a NetworkInterface has its IPs, an AliasPrefix its prefix.         *)
(***************************************************************************)
Object ==
  [phase : {"absent", "live", "terminating"}, fin : BOOLEAN, link : BOOLEAN,
   lists : SUBSET Attached, bound : SUBSET Attached, up : BOOLEAN]
NoObject == [phase |-> "absent", fin |-> FALSE, link |-> FALSE,
             lists |-> {}, bound |-> {}, up |-> FALSE]

\* A target refers by name to those it holds, and by UID to link.
Target == [uid : 1..MaxUid, link : 0..MaxUid, holds : SUBSET Kinds, up : BOOLEAN, deleted : BOOLEAN]
NoTarget == [uid |-> 0, link |-> 0, holds |-> {}, up |-> FALSE, deleted |-> FALSE]

Keep   == MaxUid + 1
Plan   == [add : SUBSET Kinds, drop : SUBSET Kinds, link : 0..Keep, partial : BOOLEAN, up : BOOLEAN]
NoPlan == [add |-> {}, drop |-> {}, link |-> Keep, partial |-> FALSE, up |-> FALSE]

SourceTyped ==
  /\ src \in [Kinds -> Object] /\ seen \in [Kinds -> Object]
  /\ route \in [src : BOOLEAN, seen : BOOLEAN, target : {{}} \cup {{u} : u \in 0..MaxUid}]

TargetTyped ==
  /\ target \in [Kinds -> Target \cup {NoTarget}]
  /\ tseen \in [Kinds -> Target \cup {NoTarget}]
  /\ gens \in [Kinds -> 0..MaxUid]

SpaceTyped ==
  /\ space \in BOOLEAN /\ spaceEvent \in BOOLEAN /\ homeSeen \in BOOLEAN /\ homonym \in BOOLEAN
  /\ faults \in 0..MaxFaults

\* Only brokered kinds are worked on, and a worker has the object it works on.
WorkerTyped ==
  /\ queue \subseteq world.brokered
  /\ pc \in [Kinds -> Steps]
  /\ copy \in [Kinds -> Object]
  /\ \A k \in Kinds : pc[k] # "idle" => k \in world.brokered /\ copy[k].phase # "absent"

\* A target that is to be created refers to one that is there, or to none.
PlanTyped ==
  /\ plan \in [Kinds -> Plan]
  /\ \A k \in Kinds : pc[k] = "create" => plan[k].link # Keep

TypeOK ==
  /\ world \in Worlds
  /\ SourceTyped /\ TargetTyped /\ SpaceTyped /\ WorkerTyped /\ PlanTyped

All == world.brokered \cup world.given

May(event)   == event \in world.may
Fault(event) == May(event) /\ faults < MaxFaults /\ faults' = faults + 1

Init ==
  /\ world \in Worlds
  /\ src = [k \in Kinds |->
       IF k \notin All THEN NoObject
       ELSE [NoObject EXCEPT !.phase = "live",
                             !.link = k \in world.early,
                             !.up = k \in world.early \cap {"nic", "alias"},
                             !.lists = IF k = "machine" THEN Attached \cap All ELSE {},
                             !.bound = IF k = "machine" /\ k \in world.early
                                       THEN Attached \cap world.early ELSE {}]]
  /\ seen = [k \in Kinds |-> IF k \in world.early THEN src[k] ELSE NoObject]
  /\ target = [k \in Kinds |-> IF k \in world.early \cap world.given
                              THEN [NoTarget EXCEPT !.uid = 1] ELSE NoTarget]
  /\ tseen = target
  /\ gens = [k \in Kinds |-> target[k].uid]
  /\ route = [src |-> FALSE, seen |-> FALSE, target |-> {}]
  /\ space = (world.early # {}) /\ spaceEvent = FALSE /\ homeSeen = space
  /\ homonym \in IF "alias" \in All THEN BOOLEAN ELSE {FALSE}
  /\ queue = world.brokered \cap world.early
  /\ pc = [k \in Kinds |-> "idle"]
  /\ copy = [k \in Kinds |-> NoObject]
  /\ plan = [k \in Kinds |-> NoPlan]
  /\ faults = 0

\* A terminating object vanishes with its last finalizer.
Write(k, object) ==
  src' = [src EXCEPT ![k] = IF object.phase = "terminating" /\ ~object.fin THEN NoObject ELSE object]

(***************************************************************************)
(* Which objects are used by the Machine of the pool, in a view of the     *)
(* source cluster: the caches or the API server.                           *)
(***************************************************************************)
VolumeUsed(volume, view) ==
  /\ volume.link
  /\ view["machine"].phase # "absent" /\ view["machine"].link
  /\ "volume" \in view["machine"].lists

NicUsed(nic, view) ==
  /\ nic.phase # "absent" /\ nic.link
  /\ view["machine"].phase # "absent" /\ view["machine"].link
  /\ "nic" \in view["machine"].lists

NetworkUsed(view)       == NicUsed(view["nic"], view)
VipUsed(vip, view)      == vip.link /\ NicUsed(view["nic"], view)
AliasUsed(routed, view) == routed /\ NicUsed(view["nic"], view)

Used(k, object, routed, view) ==
  \/ k = "volume"  /\ VolumeUsed(object, view)
  \/ k = "nic"     /\ NicUsed(object, view)
  \/ k = "network" /\ NetworkUsed(view)
  \/ k = "vip"     /\ VipUsed(object, view)
  \/ k = "alias"   /\ AliasUsed(routed, view)

(***************************************************************************)
(* The Provider: the target of another object, from the caches.            *)
(***************************************************************************)
Synced(d) == seen[d].phase # "absent" /\ space /\ tseen[d] # NoTarget

\* It errs on a Machine that is not in the pool.
MachineErrs == seen["machine"].phase # "absent" /\ ~seen["machine"].link

LinkTo(k, d) == IF copy[k].link /\ Synced(d) THEN tseen[d].uid ELSE 0

(***************************************************************************)
(* What a reconciler makes of a target, base being the one in the cache.   *)
(* partial says that something of it is not ready.                         *)
(***************************************************************************)
SecretReady == "secret" \in All /\ Synced("secret")
VolumeReady == "volume" \in copy["machine"].bound /\ Synced("volume")
NicReady    == "nic" \in copy["machine"].bound /\ Synced("nic")

Listed == copy["machine"].lists \cup ({"secret"} \cap All)
Ready  == {d \in Listed : (d = "secret" /\ SecretReady)
                         \/ (d = "volume" /\ VolumeReady)
                         \/ (d = "nic" /\ NicReady)}

\* Mutant: of the lists only what is ready is kept.
MachineForgets(base) == [holds |-> Ready, link |-> 0, partial |-> Ready # Listed]

\* Mutant: the entries that are there are all kept.
MachineKeeps(base) == [holds |-> Ready \cup base.holds, link |-> 0, partial |-> Ready # Listed]

\* Entries that are listed and not ready stay as they are.
MachineMutation(base) ==
  [holds |-> Ready \cup (base.holds \cap Listed), link |-> 0, partial |-> Ready # Listed]

VolumeMutation == [holds |-> {}, link |-> LinkTo("volume", "machine"), partial |-> FALSE]

NicMutation(base) ==
  LET ready == {d \in {"network", "vip"} \cap All : Synced(d)}
  IN [holds |-> ready \cup base.holds, link |-> LinkTo("nic", "machine"),
      partial |-> (ready # {"network", "vip"} \cap All) \/ ~copy["nic"].up]

\* Mutant: the NetworkInterface is waited for.
VipWaits == [holds |-> {}, link |-> LinkTo("vip", "nic"), partial |-> copy["vip"].link /\ ~Synced("nic")]

VipMutation == [holds |-> {}, link |-> LinkTo("vip", "nic"), partial |-> FALSE]

AliasMutation(base) ==
  LET ready == {d \in {"network"} \cap All : Synced(d)}
  IN [holds |-> ready \cup base.holds, link |-> 0,
      partial |-> (ready # {"network"} \cap All) \/ ~copy["alias"].up]

Mutation(k, base) ==
  CASE k = "machine" -> MachineMutation(base)
    [] k = "volume"  -> VolumeMutation
    [] k = "nic"     -> NicMutation(base)
    [] k = "vip"     -> VipMutation
    [] k = "alias"   -> AliasMutation(base)
    [] OTHER         -> [holds |-> {}, link |-> 0, partial |-> FALSE]

(***************************************************************************)
(* The workers.                                                            *)
(***************************************************************************)
Goto(k, step) == pc' = [pc EXCEPT ![k] = step] /\ UNCHANGED <<copy, queue>>

Finish(k) ==
  /\ pc' = [pc EXCEPT ![k] = "idle"]
  /\ copy' = [copy EXCEPT ![k] = NoObject]
  /\ plan' = [plan EXCEPT ![k] = NoPlan]

Done(k)  == Finish(k) /\ queue' = queue
Retry(k) == Finish(k) /\ queue' = queue \cup {k}

\* Reconcile, and the cached half of the question whether the object is used.
Begin(k) ==
  LET object == seen[k]
      ours   == k = "machine" => object.link
  IN
  /\ k \in queue /\ pc[k] = "idle"
  /\ queue' = queue \ {k}
  /\ \/ /\ object.phase = "absent" \/ ~ours \/ (object.phase = "terminating" /\ ~object.fin)
        /\ UNCHANGED <<pc, copy>>
     \/ /\ \/ /\ object.phase = "terminating" /\ ours /\ object.fin
              /\ pc' = [pc EXCEPT ![k] = "delete"]
           \/ /\ object.phase = "live" /\ ours
              /\ pc' = [pc EXCEPT ![k] =
                   IF k = "machine" \/ Used(k, object, route.seen, seen) THEN "resolve" ELSE "live"]
        /\ copy' = [copy EXCEPT ![k] = object]
  /\ UNCHANGED <<world, sources, targets, spaces, homonym, plan, faults>>

CheckLive(k) ==
  LET used == Used(k, copy[k], route.src, src) IN
  /\ pc[k] = "live"
  /\ \/ used /\ Goto(k, "resolve") /\ UNCHANGED plan
     \/ ~used /\ copy[k].fin /\ Goto(k, "delete") /\ UNCHANGED plan
     \/ ~used /\ ~copy[k].fin /\ Done(k)
  /\ UNCHANGED <<world, sources, targets, spaces, homonym, faults>>

\* What follows a target that was created, patched or found right.
Applied(k, partial, up) ==
  \/ /\ k \in {"machine", "alias"}
     /\ Goto(k, IF k = "machine" THEN "status" ELSE "route")
     /\ plan' = [plan EXCEPT ![k] = [NoPlan EXCEPT !.partial = partial, !.up = up]]
  \/ k \notin {"machine", "alias"} /\ ~partial /\ Done(k)
  \/ k \notin {"machine", "alias"} /\ partial /\ Retry(k)

\* TargetNamespaceFor, then the mutations and the cached half of CreateOrPatch.
\* A Volume is given the finalizer before the target Namespace is asked for.
Resolve(k) ==
  LET base == tseen[k]
      new  == Mutation(k, base)
      diff == [add |-> new.holds \ base.holds, drop |-> base.holds \ new.holds,
               link |-> IF new.link = base.link THEN Keep ELSE new.link,
               partial |-> new.partial, up |-> FALSE]
      errs == k \in Attached /\ copy[k].link /\ MachineErrs
  IN
  /\ pc[k] = "resolve"
  /\ \/ ~copy[k].fin /\ (space \/ k = "volume") /\ Goto(k, "finalize") /\ UNCHANGED plan
     \/ ~space /\ k # "volume" /\ Done(k)
     \/ ~space /\ k = "volume" /\ copy[k].fin /\ Retry(k)
     \/ /\ space /\ copy[k].fin
        /\ \/ errs /\ Retry(k)
           \/ ~errs /\ base = NoTarget /\ new.partial /\ Retry(k)
           \/ /\ ~errs /\ base = NoTarget /\ ~new.partial
              /\ Goto(k, "create")
              /\ plan' = [plan EXCEPT ![k] = [diff EXCEPT !.link = new.link]]
           \/ /\ ~errs /\ base # NoTarget /\ diff # [NoPlan EXCEPT !.partial = new.partial]
              /\ Goto(k, "patch")
              /\ plan' = [plan EXCEPT ![k] = diff]
           \/ /\ ~errs /\ base # NoTarget /\ diff = [NoPlan EXCEPT !.partial = new.partial]
              /\ Applied(k, new.partial, base.up)
  /\ UNCHANGED <<world, sources, targets, spaces, homonym, faults>>

\* A finalizer that was added wakes the worker by its event.
EnsureFinalizer(k) ==
  /\ pc[k] = "finalize"
  /\ \/ src[k].phase = "live" /\ Write(k, [src[k] EXCEPT !.fin = TRUE]) /\ Done(k)
     \/ src[k].phase = "terminating" /\ src[k].fin /\ Done(k) /\ UNCHANGED src
     \/ ~src[k].fin /\ src[k].phase # "live" /\ Retry(k) /\ UNCHANGED src
  /\ UNCHANGED <<world, seen, route, targets, spaces, homonym, faults>>

CreateTarget(k) ==
  LET fits == space /\ target[k] = NoTarget /\ gens[k] < MaxUid IN
  /\ pc[k] = "create"
  /\ \/ /\ fits
        /\ target' = [target EXCEPT ![k] =
             [NoTarget EXCEPT !.uid = gens[k] + 1, !.holds = plan[k].add, !.link = plan[k].link]]
        /\ gens' = [gens EXCEPT ![k] = @ + 1]
        /\ Applied(k, FALSE, FALSE)
     \/ ~fits /\ Retry(k) /\ UNCHANGED <<target, gens>>
  /\ UNCHANGED <<world, sources, tseen, spaces, homonym, faults>>

PatchTarget(k) ==
  LET p == plan[k]
      t == target[k]
  IN
  /\ pc[k] = "patch"
  /\ \/ /\ t # NoTarget
        /\ target' = [target EXCEPT ![k] =
             [t EXCEPT !.holds = (@ \ p.drop) \cup p.add,
                       !.link = IF p.link = Keep THEN @ ELSE p.link]]
        /\ Applied(k, p.partial, t.up)
     \/ t = NoTarget /\ Retry(k) /\ UNCHANGED target
  /\ UNCHANGED <<world, sources, tseen, gens, spaces, homonym, faults>>

\* The patch holds the state only if it differs from the one that was read.
PatchStatus ==
  LET p == plan["machine"]
      m == src["machine"]
  IN
  /\ pc["machine"] = "status"
  /\ \/ /\ m.phase # "absent"
        /\ Write("machine", [m EXCEPT !.up = IF copy["machine"].up = p.up THEN @ ELSE p.up])
        /\ \/ p.partial /\ Retry("machine")
           \/ ~p.partial /\ Done("machine")
     \/ m.phase = "absent" /\ Retry("machine") /\ UNCHANGED src
  /\ UNCHANGED <<world, seen, route, targets, spaces, homonym, faults>>

(***************************************************************************)
(* The routing of an AliasPrefix, as it is written down: it goes to the    *)
(* Namespace of the source object, and the destinations it has are those   *)
(* whose Machine has the UID of the NetworkInterface and runs elsewhere.   *)
(***************************************************************************)
SourceUid(k) == k

Destinations ==
  {tseen[d].uid : d \in {n \in {"nic"} :
     /\ seen[n].phase # "absent" /\ seen[n].link
     /\ seen["machine"].phase # "absent"
     /\ SourceUid("machine") = SourceUid(n) /\ ~seen["machine"].link
     /\ Synced(n)}}

ApplyRouting ==
  LET partial == plan["alias"].partial IN
  /\ pc["alias"] = "route"
  /\ \/ ~route.seen /\ partial /\ Retry("alias") /\ UNCHANGED route
     \/ ~route.seen /\ ~partial /\ Done("alias") /\ UNCHANGED route
     \/ route.seen /\ ~homonym /\ Retry("alias") /\ UNCHANGED route
     \/ /\ route.seen /\ homonym
        /\ route' = [route EXCEPT !.target = Destinations]
        /\ \/ partial /\ Retry("alias")
           \/ ~partial /\ Done("alias")
  /\ UNCHANGED <<world, src, seen, targets, spaces, homonym, faults>>

\* Mutant: the deletion is not waited for.
DeleteWithoutWaiting(k) ==
  /\ pc[k] = "delete"
  /\ space
  /\ target' = [target EXCEPT ![k].deleted = target[k] # NoTarget]
  /\ Goto(k, "release") /\ UNCHANGED plan
  /\ UNCHANGED <<world, sources, tseen, gens, spaces, homonym, faults>>

\* delete: without a target Namespace a Volume is let go of, a NetworkInterface
\* fails and the others stay as they are.
DeleteTarget(k) ==
  /\ pc[k] = "delete"
  /\ \/ ~space /\ k = "volume" /\ Goto(k, "release") /\ UNCHANGED <<plan, target>>
     \/ ~space /\ k = "nic" /\ Retry(k) /\ UNCHANGED target
     \/ ~space /\ k \notin Attached /\ Done(k) /\ UNCHANGED target
     \/ space /\ target[k] = NoTarget /\ Goto(k, "release") /\ UNCHANGED <<plan, target>>
     \/ /\ space /\ target[k] # NoTarget
        /\ target' \in {[target EXCEPT ![k].deleted = TRUE], [target EXCEPT ![k] = NoTarget]}
        /\ Retry(k)
  /\ UNCHANGED <<world, sources, tseen, gens, spaces, homonym, faults>>

RemoveFinalizer(k) ==
  /\ pc[k] = "release"
  /\ \/ src[k].phase # "absent" /\ Write(k, [src[k] EXCEPT !.fin = FALSE]) /\ Done(k)
     \/ src[k].phase = "absent" /\ Retry(k) /\ UNCHANGED src
  /\ UNCHANGED <<world, seen, route, targets, spaces, homonym, faults>>

Deletes(k) == CheckLive(k) \/ DeleteTarget(k) \/ RemoveFinalizer(k)
Applies(k) == Resolve(k) \/ EnsureFinalizer(k) \/ CreateTarget(k) \/ PatchTarget(k)

MachineDelete          == Deletes("machine")
MachineReconcile       == Applies("machine") \/ PatchStatus
VolumeDelete           == Deletes("volume")
VolumeReconcile        == Applies("volume")
NetworkDelete          == Deletes("network")
NetworkReconcile       == Applies("network")
NetworkInterfaceDelete == Deletes("nic")
NetworkInterfaceReconcile == Applies("nic")
VirtualIPDelete        == Deletes("vip")
VirtualIPReconcile     == Applies("vip")
AliasPrefixDelete      == Deletes("alias")
AliasPrefixReconcile   == Applies("alias") \/ ApplyRouting

Worker(k) ==
  \/ Begin(k) \/ Deletes(k) \/ Applies(k)
  \/ k = "machine" /\ PatchStatus
  \/ k = "alias" /\ ApplyRouting

Workers ==
  \/ \E k \in world.brokered : Begin(k)
  \/ MachineDelete \/ MachineReconcile \/ VolumeDelete \/ VolumeReconcile
  \/ NetworkDelete \/ NetworkReconcile \/ NetworkInterfaceDelete \/ NetworkInterfaceReconcile
  \/ VirtualIPDelete \/ VirtualIPReconcile \/ AliasPrefixDelete \/ AliasPrefixReconcile

\* Mutant: an error is logged and swallowed.
FailureSwallowed(k) ==
  /\ pc[k] # "idle"
  /\ Fault("fail")
  /\ Done(k)
  /\ UNCHANGED <<world, sources, targets, spaces, homonym>>

CallFails(k) ==
  /\ pc[k] # "idle"
  /\ Fault("fail")
  /\ Retry(k)
  /\ UNCHANGED <<world, sources, targets, spaces, homonym>>

Restart ==
  /\ Fault("restart")
  /\ homeSeen' = TRUE /\ spaceEvent' = FALSE
  /\ seen' = src /\ tseen' = target
  /\ route' = [route EXCEPT !.seen = route.src]
  /\ queue' = {k \in world.brokered : src[k].phase # "absent"}
  /\ pc' = [k \in Kinds |-> "idle"]
  /\ copy' = [k \in Kinds |-> NoObject]
  /\ plan' = [k \in Kinds |-> NoPlan]
  /\ UNCHANGED <<world, src, target, gens, space, homonym>>

(***************************************************************************)
(* The informers and their event handlers.                                 *)
(***************************************************************************)
\* What is enqueued when the source object k changes, controller by controller.
MachineWatches(k) ==
  \/ k = "machine"
  \/ k = "secret" /\ seen["machine"].phase # "absent"
  \/ k = "nic" /\ "nic" \in seen["machine"].lists

\* A Machine that runs in the pool lists or listed d.
MachineNames(k, old, new, d) ==
  /\ k = "machine"
  /\ IF new.phase = "absent" THEN old.link ELSE new.link
  /\ d \in old.lists \cup new.lists

\* Mutant: Machines are not watched.
VolumeWatchesItself(k, old, new) == k = "volume"

VolumeWatches(k, old, new) == k = "volume" \/ MachineNames(k, old, new, "volume")

\* A VirtualIP enqueues the NetworkInterface of its own name: none.
NetworkInterfaceWatches(k, old, new) == k = "nic" \/ MachineNames(k, old, new, "nic")

NetworkWatches(k) == k \in {"network", "nic"}

VirtualIPWatches(k) == k = "vip" \/ (k = "nic" /\ seen["vip"].link)

AliasPrefixWatches(k) == k = "alias"

Woken(k, old, new) ==
  {c \in world.brokered :
     \/ c = "machine" /\ MachineWatches(k)
     \/ c = "volume"  /\ VolumeWatches(k, old, new)
     \/ c = "nic"     /\ NetworkInterfaceWatches(k, old, new)
     \/ c = "network" /\ NetworkWatches(k)
     \/ c = "vip"     /\ VirtualIPWatches(k)
     \/ c = "alias"   /\ AliasPrefixWatches(k)}

\* FilterNoTargetNamespacePredicate drops what it cannot look up the Namespace of.
ObserveSource(k) ==
  /\ seen[k] # src[k]
  /\ seen' = [seen EXCEPT ![k] = src[k]]
  /\ queue' = IF homeSeen THEN queue \cup Woken(k, seen[k], src[k]) ELSE queue
  /\ UNCHANGED <<world, src, route, targets, spaces, homonym, worker, faults>>

\* Mutant: the cluster and kind of the owner are not looked at.
WakesAnyOwner(k) ==
  /\ tseen[k] # target[k]
  /\ tseen' = [tseen EXCEPT ![k] = target[k]]
  /\ queue' = queue \cup {k}
  /\ UNCHANGED <<world, sources, target, gens, spaces, homonym, worker, faults>>

\* The owner of the target, and the Machine whose target refers to it.
ObserveTarget(k) ==
  /\ tseen[k] # target[k]
  /\ tseen' = [tseen EXCEPT ![k] = target[k]]
  /\ queue' = queue \cup (world.brokered \cap
       ({k} \cup {m \in {"machine"} : k \in tseen[m].holds \cap {"secret", "nic"}}))
  /\ UNCHANGED <<world, sources, target, gens, spaces, homonym, worker, faults>>

ObserveRouting ==
  /\ route.seen # route.src
  /\ route' = [route EXCEPT !.seen = route.src]
  /\ queue' = IF homeSeen THEN queue \cup ({"alias"} \cap world.brokered) ELSE queue
  /\ UNCHANGED <<world, src, seen, targets, spaces, homonym, worker, faults>>

ObserveHome ==
  /\ ~homeSeen
  /\ homeSeen' = TRUE
  /\ UNCHANGED <<world, sources, targets, space, spaceEvent, homonym, queue, worker, faults>>

\* Mutant: the creation of target Namespaces is not watched.
SpaceUnwatched ==
  /\ spaceEvent
  /\ spaceEvent' = FALSE
  /\ UNCHANGED <<world, sources, targets, space, homeSeen, homonym, queue, worker, faults>>

ObserveSpaceCreated ==
  /\ spaceEvent
  /\ spaceEvent' = FALSE
  /\ queue' = queue \cup {k \in world.brokered : seen[k].phase # "absent"}
  /\ UNCHANGED <<world, sources, targets, space, homeSeen, homonym, worker, faults>>

Informers ==
  \/ \E k \in Kinds : ObserveSource(k) \/ ObserveTarget(k)
  \/ ObserveRouting \/ ObserveHome \/ ObserveSpaceCreated

(***************************************************************************)
(* The source cluster: its users, scheduler and controllers.               *)
(***************************************************************************)
Change(k, object) ==
  /\ Write(k, object)
  /\ UNCHANGED <<world, seen, route, targets, spaces, homonym, queue, worker, faults>>

Link(k) ==
  /\ src[k].phase = "live" /\ ~src[k].link
  /\ \/ k = "machine"
     \/ k \in src["machine"].lists
     \/ k = "vip" /\ src["nic"].phase # "absent"
  /\ Change(k, [src[k] EXCEPT !.link = TRUE])

\* A Machine that is gone, or no longer lists it, claims nothing.
Unlink(k) ==
  /\ k \in Attached \ src["machine"].lists /\ src[k].link
  /\ Change(k, [src[k] EXCEPT !.link = FALSE])

ReportBound(d) ==
  /\ src["machine"].phase = "live" /\ d \notin src["machine"].bound
  /\ d \in src["machine"].lists /\ src[d].link
  /\ Change("machine", [src["machine"] EXCEPT !.bound = @ \cup {d}])

Prepare(k) ==
  /\ k \in {"nic", "alias"}
  /\ src[k].phase = "live" /\ ~src[k].up
  /\ Change(k, [src[k] EXCEPT !.up = TRUE])

Unlist(d) ==
  /\ May("unlist") /\ d \in src["machine"].lists
  /\ Change("machine", [src["machine"] EXCEPT !.lists = @ \ {d}, !.bound = @ \ {d}])

DeleteSource(k) ==
  /\ k \in world.goes /\ src[k].phase = "live"
  /\ Change(k, IF src[k].fin THEN [src[k] EXCEPT !.phase = "terminating"] ELSE NoObject)

\* A destination need not be a NetworkInterface that a Machine of the pool has, nor
\* be there at all.
Route ==
  /\ src["alias"].phase = "live" /\ ~route.src
  /\ route' = [route EXCEPT !.src = TRUE]
  /\ UNCHANGED <<world, src, seen, targets, spaces, homonym, queue, worker, faults>>

SourceCluster ==
  \/ \E k \in All : Link(k) \/ Unlink(k) \/ ReportBound(k) \/ Prepare(k) \/ Unlist(k) \/ DeleteSource(k)
  \/ Route

(***************************************************************************)
(* The target cluster, and the brokers of the kinds that are given.        *)
(***************************************************************************)
Replace(k, t) ==
  /\ target' = [target EXCEPT ![k] = t]
  /\ UNCHANGED <<world, sources, tseen, spaces, homonym, queue, worker>>

Provide(k) ==
  /\ k \in world.given /\ space /\ src[k].phase = "live"
  /\ target[k] = NoTarget /\ gens[k] < MaxUid
  /\ gens' = [gens EXCEPT ![k] = @ + 1]
  /\ Replace(k, [NoTarget EXCEPT !.uid = gens[k] + 1]) /\ UNCHANGED faults

TargetVanishes(k) ==
  /\ target[k].deleted \/ (k \in world.given /\ target[k] # NoTarget /\ src[k].phase = "absent")
  /\ Replace(k, NoTarget) /\ UNCHANGED <<gens, faults>>

TargetRuns ==
  /\ May("run") /\ target["machine"] # NoTarget /\ ~target["machine"].up
  /\ Replace("machine", [target["machine"] EXCEPT !.up = TRUE]) /\ UNCHANGED <<gens, faults>>

\* An informer reports a target before it reports that it is gone, which a cache
\* that catches up in one step would skip.
EvictTarget(k) ==
  /\ k \in Evictable /\ target[k] # NoTarget /\ tseen[k].uid = target[k].uid
  /\ Fault("evict")
  /\ Replace(k, NoTarget) /\ UNCHANGED gens

SpaceIsProvided ==
  /\ homeSeen /\ ~space
  /\ space' = TRUE /\ spaceEvent' = TRUE
  /\ UNCHANGED <<world, sources, targets, homeSeen, homonym, queue, worker, faults>>

\* The target Namespace goes with everything in it.
SpaceIsLost ==
  /\ space
  /\ Fault("lose")
  /\ space' = FALSE
  /\ target' = [k \in Kinds |-> NoTarget]
  /\ UNCHANGED <<world, sources, tseen, gens, spaceEvent, homeSeen, homonym, queue, worker>>

TargetCluster ==
  \/ \E k \in All : Provide(k) \/ TargetVanishes(k) \/ EvictTarget(k)
  \/ TargetRuns \/ SpaceIsProvided \/ SpaceIsLost

Next ==
  \/ Workers \/ \E k \in world.brokered : CallFails(k)
  \/ Restart \/ Informers \/ SourceCluster \/ TargetCluster

Spec == Init /\ [][Next]_vars

(***************************************************************************)
(* Fairness: the workers run and the informers deliver.  The source        *)
(* cluster takes back the claims of a Machine that is gone; deleted        *)
(* targets vanish, and those of the given kinds are provided.  Nothing     *)
(* else is owed.                                                           *)
(***************************************************************************)
Fairness ==
  /\ \A k \in Kinds \ {"secret"} : WF_vars(k \in world.brokered /\ Worker(k))
  /\ WF_vars(Informers)
  /\ WF_vars(\E k \in Kinds : Unlink(k) \/ TargetVanishes(k) \/ Provide(k))

FairSpec == Spec /\ Fairness

(***************************************************************************)
(* Properties.                                                             *)
(***************************************************************************)
\* The finalizer is taken from an object only when its target is gone, whatever
\* was cached ("Target already gone, removing finalizer").
ReleasedLast == [][\A k \in world.brokered :
  src[k].fin /\ ~src'[k].fin => target[k] = NoTarget]_vars

\* A target is complete from its creation on: sync.go's errNoPartialCreate lets
\* none be created in part, and no patch takes out an entry that the Machine
\* lists because what it refers to is out of sync for a while
\* (machine_controller.go: "In these cases, we want to keep any value that is there").
NeverInPart ==
  /\ target["machine"] # NoTarget /\ "machine" \in world.brokered =>
       src["machine"].lists \cup ({"secret"} \cap All) \subseteq target["machine"].holds
  /\ target["nic"] # NoTarget /\ "nic" \in world.brokered => {"network", "vip"} \cap All \subseteq target["nic"].holds
  /\ target["alias"] # NoTarget /\ "alias" \in world.brokered => {"network"} \cap All \subseteq target["alias"].holds

\* Everything is asked for, for good.
Settled ==
  /\ space
  /\ \A k \in All : src[k].phase = "live"
  /\ \A k \in All \cap {"machine", "vip"} : src[k].link
  /\ \A k \in All \cap {"nic", "alias"} : src[k].up
  /\ "alias" \in All => route.src
  /\ \A d \in src["machine"].lists : src[d].link /\ d \in src["machine"].bound

\* Of the reconcilers that wait for each other's targets, the Machine for Volume
\* and NetworkInterface, the NetworkInterface for Network and VirtualIP, none
\* waits for ever: once the Machine of the pool asks for everything, every object
\* it uses has its target in the end, though some of them depend on each other
\* both ways.  Excepted is an AliasPrefix whose NetworkInterface begins to be used
\* when the brokerlet knows of the routing to it already: AliasPrefixReconciler
\* watches neither Machines nor NetworkInterfaces, so that nothing wakes it.
InSync(k) == target[k] # NoTarget /\ ~target[k].deleted

EverythingSynced ==
  <>[]Settled =>
    /\ <>[](\A k \in world.brokered \ {"alias"} :
              (k \in Attached => k \in src["machine"].lists) => InSync(k))
    /\ "alias" \in world.brokered /\ [](route.seen => NicUsed(src["nic"], src)) => <>[]InSync("alias")

\* What the Machine lists no longer, its target has no longer in the end.
ListsFollow ==
  <>[](Settled /\ "machine" \in world.brokered) =>
    <>[](target["machine"].holds = src["machine"].lists \cup ({"secret"} \cap All))

\* The targets of Volume and NetworkInterface were made before the Machine's, and
\* without its UID; once it runs they have it.
ClaimsFollow ==
  <>[](Settled /\ target["machine"].up) =>
    <>[](\A d \in src["machine"].lists \cap world.brokered : target[d].link = target["machine"].uid)

\* Once the Machine is gone, nothing it used is held on to: the finalizers of its
\* Volumes and NetworkInterfaces, and along them of Networks and VirtualIPs, go,
\* though the caches still showed the Machine when each was looked at.
UnusedReleased ==
  <>[](space /\ src["machine"].phase = "absent") =>
    <>[](\A k \in world.brokered \ {"alias"} : ~src[k].fin)

\* An object that was deleted goes, if there is a target Namespace to look in.
DeletedGoes == <>[]space => []<>(\A k \in Kinds : src[k].phase # "terminating")

\* "Applying target routing": the routing in the target Namespace of Home names
\* the NetworkInterfaces that the routing in Home does.
RoutingFollows ==
  <>[](Settled /\ "alias" \in All) => <>[](route.target = {target["nic"].uid})

===============================================================================
