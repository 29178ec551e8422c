----------------------------- MODULE VolumeBroker -----------------------------
(***************************************************************************)
(* A Volume of a pool that is served by volumebrokerlet (VolumeReconciler) *)
(* or by partitionlet (MixedVolumeReconciler), with SyncVolumeApplier,     *)
(* AccessApplier and PatchVolumeStatus (broker/controllers/storage) and    *)
(* the list helpers of client/client.go.                                   *)
(*                                                                         *)
(* The target Volume reports a state and, once it can be accessed, how:    *)
(* with a Secret or without.  The Secret is copied into the source cluster *)
(* under a generated name that is found again by a label.                  *)
(*                                                                         *)
(* One action is one call of the worker to an API server, with the cached  *)
(* reads up to the next one.                                               *)
(***************************************************************************)
EXTENDS Naturals, FiniteSets

CONSTANTS
  Worlds,      \* what a behaviour has, and what may happen in it
  MaxSecrets,  \* bound: access Secrets generated
  MaxVersion,  \* bound: versions of the credential, and of the Volume's spec
  MaxChanges,  \* bound: changes of the target's status, and of what the Machine lists
  MaxFaults    \* bound: failed calls, restarts, evictions, tampering

Controllers == {"volumebrokerlet", "partitionlet"}
Pools       == {"none", "ours", "theirs"}
States      == {"pending", "bare", "secret"}
Events      ==
  {"assign", "claim", "resize", "delete", "fail", "restart", "evict", "lose", "tamper",
   "report"}

ASSUME VolumeAssumption ==
  /\ Worlds \subseteq [controller : Controllers, pool : Pools, fallback : BOOLEAN,
                       pull : BOOLEAN, may : SUBSET Events]
  /\ MaxSecrets \in Nat \ {0} /\ MaxVersion \in Nat \ {0}
  /\ MaxChanges \in Nat /\ MaxFaults \in Nat

VARIABLES
  world,       \* the world of this behaviour
  src,         \* the Volume in the source cluster
  seen,        \* the same in the cache
  machine,     \* a Machine of the pool of the Machines lists the Volume
  mseen,       \* the same in the cache
  target,      \* the Volume in the target cluster
  tseen,       \* the same in the cache
  targetEvent, \* a change of it has yet to be reported
  cred,        \* the version of the target's access Secret, 0 without one
  cseen,       \* the same in the cache
  pull,        \* the image pull Secret is synced
  secrets,     \* the access Secrets in the source cluster
  made,        \* how many there have been
  secretEvent, \* a change of theirs has yet to be reported
  space,       \* the target Namespace is there
  spaceEvent,  \* its creation has yet to be reported
  queue,       \* the Volume is in the workqueue
  pc,          \* the next call of the worker
  copy,        \* the Volume the worker read
  plan,        \* what it is about to write
  unpruned,    \* an access Secret could not be pruned, and that was not tried again
  changes, faults

sources == <<src, seen, machine, mseen>>
targets == <<target, tseen, targetEvent, cred, cseen, pull, changes>>
access  == <<secrets, made, secretEvent, unpruned>>
spaces  == <<space, spaceEvent>>
worker  == <<pc, copy, plan>>
vars    == <<world, src, seen, machine, mseen, target, tseen, targetEvent, cred, cseen, pull, secrets,
             made, secretEvent, space, spaceEvent, queue, pc, copy, plan, unpruned, changes, faults>>

Volume ==
  [phase : {"absent", "live", "terminating"}, fin : BOOLEAN, pool : Pools, claimed : BOOLEAN,
   spec : 0..MaxVersion, state : States, secret : 0..MaxSecrets]
NoVolume == [phase |-> "absent", fin |-> FALSE, pool |-> "none", claimed |-> FALSE,
             spec |-> 0, state |-> "pending", secret |-> 0]

Target   == [there : BOOLEAN, deleted : BOOLEAN, spec : 0..MaxVersion, state : States]
NoTarget == [there |-> FALSE, deleted |-> FALSE, spec |-> 0, state |-> "pending"]

Plan   == [partial : BOOLEAN, state : States, data : 0..MaxVersion, secret : 0..MaxSecrets]
NoPlan == [partial |-> FALSE, state |-> "pending", data |-> 0, secret |-> 0]

Steps == {"idle", "live", "finalize", "resolve", "create", "patch", "list", "prune",
          "generate", "update", "status", "delete", "release"}

SourceTyped ==
  /\ world \in Worlds
  /\ src \in Volume /\ seen \in Volume
  /\ machine \in BOOLEAN /\ mseen \in BOOLEAN

TargetTyped ==
  /\ target \in Target /\ tseen \in Target
  /\ targetEvent \in BOOLEAN /\ pull \in BOOLEAN

AccessTyped ==
  /\ secrets \subseteq [id : 1..MaxSecrets, data : 0..MaxVersion]
  /\ secretEvent \in BOOLEAN /\ unpruned \in BOOLEAN

WorkerTyped ==
  /\ space \in BOOLEAN /\ spaceEvent \in BOOLEAN /\ queue \in BOOLEAN
  /\ pc \in Steps /\ copy \in Volume /\ (pc = "idle" <=> copy = NoVolume)

PlanTyped == plan \in Plan /\ (plan.data > 0 => plan.state = "secret")

Counted ==
  /\ cred \in 0..MaxVersion /\ cseen \in 0..cred
  /\ made \in 0..MaxSecrets /\ changes \in 0..MaxChanges /\ faults \in 0..MaxFaults

TypeOK ==
  SourceTyped /\ TargetTyped /\ AccessTyped /\ WorkerTyped /\ PlanTyped /\ Counted

May(event)   == event \in world.may
Fault(event) == May(event) /\ faults < MaxFaults /\ faults' = faults + 1

Init ==
  /\ world \in Worlds
  /\ src = [NoVolume EXCEPT !.phase = "live", !.pool = world.pool, !.spec = 1]
  /\ seen = NoVolume
  /\ machine = FALSE /\ mseen = FALSE
  /\ target = NoTarget /\ tseen = NoTarget /\ targetEvent = FALSE
  /\ cred = 0 /\ cseen = 0
  /\ pull = FALSE
  /\ secrets = {} /\ made = 0 /\ secretEvent = FALSE /\ unpruned = FALSE
  /\ space = FALSE /\ spaceEvent = FALSE
  /\ queue = FALSE
  /\ pc = "idle" /\ copy = NoVolume /\ plan = NoPlan
  /\ changes = 0 /\ faults = 0

\* A terminating object vanishes with its last finalizer.
Write(volume) ==
  src' = IF volume.phase = "terminating" /\ ~volume.fin THEN NoVolume ELSE volume

(***************************************************************************)
(* Which Volumes are the brokerlet's, and who takes care of them.          *)
(***************************************************************************)
Managed(volume) == volume.pool = "ours"

\* volumebrokerlet leaves the Volumes of other pools alone; partitionlet also
\* takes those that the Machines of its pool use.
Concerned(volume) == Managed(volume) \/ world.controller = "partitionlet"

IsUsed(volume, listed) == volume.claimed /\ listed

\* applierFor errs on a Volume of another pool if no fallback pool is given.
HasApplier(volume) == Managed(volume) \/ world.fallback

(***************************************************************************)
(* The worker.                                                             *)
(***************************************************************************)
Goto(step) == pc' = step /\ UNCHANGED <<copy, queue>>

Finish   == pc' = "idle" /\ copy' = NoVolume /\ plan' = NoPlan
Done     == Finish /\ queue' = queue
Retry    == Finish /\ queue' = TRUE
DoneOrRequeue(partial) == (partial /\ Retry) \/ (~partial /\ Done)

\* An event reports each change of the target, even one that is undone before the
\* cache shows it.
WriteTarget(t) == target' = t /\ targetEvent' = (targetEvent \/ t # target)

First(volume) == IF volume.fin THEN "resolve" ELSE "finalize"

\* Reconcile up to the first call: the finalizer's, the target Namespace's or the
\* live question whether the Volume is used.
Begin ==
  LET gone   == seen.phase = "terminating"
      needed == Managed(seen) \/ IsUsed(seen, mseen)
  IN
  /\ queue /\ pc = "idle"
  /\ \/ /\ seen.phase = "absent" \/ ~Concerned(seen) \/ (gone /\ ~seen.fin)
        /\ queue' = FALSE
        /\ UNCHANGED <<pc, copy>>
     \/ /\ gone /\ Concerned(seen) /\ seen.fin /\ ~HasApplier(seen)
        /\ UNCHANGED <<queue, pc, copy>>
     \/ /\ gone /\ Concerned(seen) /\ seen.fin /\ HasApplier(seen)
        /\ queue' = FALSE /\ pc' = "delete" /\ copy' = seen
     \/ /\ seen.phase = "live" /\ Concerned(seen)
        /\ queue' = FALSE /\ copy' = seen
        /\ pc' = IF needed THEN First(seen) ELSE "live"
  /\ UNCHANGED <<world, sources, targets, access, spaces, plan, faults>>

CheckLive ==
  LET used == IsUsed(copy, machine) IN
  /\ pc = "live"
  /\ \/ used /\ Goto(First(copy)) /\ UNCHANGED plan
     \/ ~used /\ ~copy.fin /\ Done
     \/ ~used /\ copy.fin /\ ~HasApplier(copy) /\ Retry
     \/ ~used /\ copy.fin /\ HasApplier(copy) /\ Goto("delete") /\ UNCHANGED plan
  /\ UNCHANGED <<world, sources, targets, access, spaces, faults>>

\* Mutant: the pass goes on without the finalizer.
EnsureFinalizerLater ==
  /\ pc = "finalize"
  /\ Goto("resolve") /\ UNCHANGED <<plan, src>>
  /\ UNCHANGED <<world, seen, machine, mseen, targets, access, spaces, faults>>

\* A finalizer that was added wakes the worker by its event.
EnsureFinalizer ==
  /\ pc = "finalize"
  /\ \/ src.phase = "live" /\ Write([src EXCEPT !.fin = TRUE]) /\ Done
     \/ src.phase # "live" /\ src.fin /\ Done /\ UNCHANGED src
     \/ src.phase # "live" /\ ~src.fin /\ Retry /\ UNCHANGED src
  /\ UNCHANGED <<world, seen, machine, mseen, targets, access, spaces, faults>>

\* Mutant: a Secret is copied whether or not the target's status names it.
AppliedAnyway(t, partial) ==
  \/ ~Managed(copy) /\ DoneOrRequeue(partial)
  \/ /\ Managed(copy)
     /\ Goto("list")
     /\ plan' = [NoPlan EXCEPT !.partial = partial, !.state = t.state, !.data = cseen]

\* With the target at hand: a Volume of the pool is given access to it and its
\* state; the access Secret is read from the cache of the target cluster.
Applied(t, partial) ==
  \/ ~Managed(copy) /\ DoneOrRequeue(partial)
  \/ Managed(copy) /\ t.state = "secret" /\ cseen = 0 /\ Retry
  \/ /\ Managed(copy) /\ (t.state = "secret" => cseen > 0)
     /\ Goto("list")
     /\ plan' = [NoPlan EXCEPT !.partial = partial, !.state = t.state,
                               !.data = IF t.state = "secret" THEN cseen ELSE 0]

\* ApplyTarget up to the write: the target Namespace is asked for live, the
\* image pull Secret and the target are looked up in the caches.
Resolve ==
  LET partial == world.pull /\ ~pull
      needed  == HasApplier(copy) /\ space
  IN
  /\ pc = "resolve"
  /\ \/ ~needed /\ Retry
     \/ needed /\ ~tseen.there /\ partial /\ Retry
     \/ needed /\ ~tseen.there /\ ~partial /\ Goto("create") /\ UNCHANGED plan
     \/ /\ needed /\ tseen.there /\ tseen.spec # copy.spec
        /\ Goto("patch")
        /\ plan' = [NoPlan EXCEPT !.partial = partial]
     \/ needed /\ tseen.there /\ tseen.spec = copy.spec /\ Applied(tseen, partial)
  /\ UNCHANGED <<world, sources, targets, access, spaces, faults>>

CreateTarget ==
  /\ pc = "create"
  /\ \/ /\ space /\ ~target.there
        /\ WriteTarget([NoTarget EXCEPT !.there = TRUE, !.spec = copy.spec])
        /\ Applied(target', FALSE)
     \/ ~(space /\ ~target.there) /\ Retry /\ UNCHANGED <<target, targetEvent>>
  /\ UNCHANGED <<world, sources, tseen, cred, cseen, pull, changes, access, spaces, faults>>

\* The reply brings the status of the target up to date.
PatchTarget ==
  /\ pc = "patch"
  /\ \/ /\ target.there
        /\ WriteTarget([target EXCEPT !.spec = copy.spec])
        /\ Applied(target', plan.partial)
     \/ ~target.there /\ Retry /\ UNCHANGED <<target, targetEvent>>
  /\ UNCHANGED <<world, sources, tseen, cred, cseen, pull, changes, access, spaces, faults>>

\* Mutant: the list is taken from a cache that does not show the Secret yet.
ListCached ==
  /\ pc = "list"
  /\ \/ plan.data = 0 /\ Goto("status") /\ UNCHANGED plan
     \/ plan.data > 0 /\ Goto("generate") /\ UNCHANGED plan
  /\ UNCHANGED <<world, sources, targets, access, spaces, faults>>

\* ListSingle, by the label of the Volume's UID; more than one is an error, which
\* is only logged if the Secret was to be deleted.
ListSecrets ==
  LET n    == Cardinality(secrets)
      Found(step) == /\ Goto(step)
                     /\ plan' = [plan EXCEPT !.secret = (CHOOSE s \in secrets : TRUE).id]
  IN
  /\ pc = "list"
  /\ \/ plan.data = 0 /\ n = 1 /\ Found("prune")
     \/ plan.data = 0 /\ n # 1 /\ Goto("status") /\ UNCHANGED plan
     \/ plan.data > 0 /\ n = 0 /\ Goto("generate") /\ UNCHANGED plan
     \/ plan.data > 0 /\ n = 1 /\ Found("update")
     \/ plan.data > 0 /\ n > 1 /\ Retry
  /\ UNCHANGED <<world, sources, targets, access, spaces, faults>>

Owns == world.controller = "volumebrokerlet"

GenerateSecret ==
  /\ pc = "generate" /\ made < MaxSecrets
  /\ made' = made + 1
  /\ secrets' = secrets \cup {[id |-> made', data |-> plan.data]}
  /\ secretEvent' = Owns
  /\ Goto("status") /\ plan' = [plan EXCEPT !.secret = made']
  /\ UNCHANGED <<world, sources, targets, unpruned, spaces, faults>>

\* Mutant: a Secret that is found is left as it is.
KeepSecret ==
  /\ pc = "update"
  /\ Goto("status") /\ UNCHANGED plan
  /\ UNCHANGED <<world, sources, targets, access, spaces, faults>>

UpdateSecret ==
  LET found == {s \in secrets : s.id = plan.secret} IN
  /\ pc = "update"
  /\ \/ /\ found # {}
        /\ secrets' = (secrets \ found) \cup {[id |-> plan.secret, data |-> plan.data]}
        /\ secretEvent' = (secretEvent \/ (Owns /\ secrets' # secrets))
        /\ Goto("status") /\ UNCHANGED plan
     \/ found = {} /\ Retry /\ UNCHANGED <<secrets, secretEvent>>
  /\ UNCHANGED <<world, sources, targets, made, unpruned, spaces, faults>>

PruneSecret ==
  /\ pc = "prune"
  /\ secrets' = {s \in secrets : s.id # plan.secret}
  /\ secretEvent' = (secretEvent \/ (Owns /\ secrets' # secrets)) /\ unpruned' = FALSE
  /\ Goto("status") /\ UNCHANGED plan
  /\ UNCHANGED <<world, sources, targets, made, spaces, faults>>

\* The access Secret is to go: it is listed and, if there is one, deleted.
Pruning == pc = "prune" \/ (pc = "list" /\ plan.data = 0)

\* "Error pruning access secret" is logged, be it the list or the deletion that
\* failed, and the pass goes on.
PruneFails ==
  /\ Pruning
  /\ Fault("fail")
  /\ unpruned' = (unpruned \/ secrets # {})
  /\ Goto("status") /\ UNCHANGED plan
  /\ UNCHANGED <<world, sources, targets, secrets, made, secretEvent, spaces>>

\* A merge patch: what the copy has already is not sent.
PatchVolumeStatus ==
  LET secret == IF plan.data > 0 THEN plan.secret ELSE 0 IN
  /\ pc = "status"
  /\ \/ /\ src.phase # "absent"
        /\ src' = [src EXCEPT !.state  = IF plan.state = copy.state THEN @ ELSE plan.state,
                              !.secret = IF secret = copy.secret THEN @ ELSE secret]
        /\ DoneOrRequeue(plan.partial)
     \/ src.phase = "absent" /\ Retry /\ UNCHANGED src
  /\ UNCHANGED <<world, seen, machine, mseen, targets, access, spaces, faults>>

\* volumebrokerlet waits for the event of the target's end, partitionlet asks again.
DeleteTarget ==
  /\ pc = "delete"
  /\ \/ /\ ~space \/ ~target.there
        /\ Goto("release") /\ UNCHANGED <<plan, target, targetEvent>>
     \/ /\ space /\ target.there
        /\ \E t \in {[target EXCEPT !.deleted = TRUE], NoTarget} : WriteTarget(t)
        /\ IF world.controller = "partitionlet" THEN Retry ELSE Done
  /\ UNCHANGED <<world, sources, tseen, cred, cseen, pull, changes, access, spaces, faults>>

RemoveFinalizer ==
  /\ pc = "release"
  /\ \/ src.phase # "absent" /\ Write([src EXCEPT !.fin = FALSE]) /\ Done
     \/ src.phase = "absent" /\ Retry /\ UNCHANGED src
  /\ UNCHANGED <<world, seen, machine, mseen, targets, access, spaces, faults>>

Work ==
  \/ Begin \/ CheckLive \/ EnsureFinalizer \/ Resolve \/ CreateTarget \/ PatchTarget
  \/ ListSecrets \/ GenerateSecret \/ UpdateSecret \/ PruneSecret
  \/ PatchVolumeStatus \/ DeleteTarget \/ RemoveFinalizer

\* Mutant: an error is logged and swallowed.
FailureSwallowed ==
  /\ pc # "idle" /\ ~Pruning
  /\ Fault("fail")
  /\ Done
  /\ UNCHANGED <<world, sources, targets, access, spaces>>

CallFails ==
  /\ pc # "idle" /\ ~Pruning
  /\ Fault("fail")
  /\ Retry
  /\ UNCHANGED <<world, sources, targets, access, spaces>>

Restart ==
  /\ Fault("restart")
  /\ seen' = src /\ mseen' = machine /\ tseen' = target /\ targetEvent' = FALSE /\ cseen' = cred
  /\ secretEvent' = FALSE /\ spaceEvent' = FALSE
  /\ Finish /\ queue' = TRUE
  /\ UNCHANGED <<world, src, machine, target, cred, pull, changes, secrets, made, unpruned, space>>

(***************************************************************************)
(* The informers and their event handlers.                                 *)
(***************************************************************************)
\* Mutant: only changes of the spec are watched.
ObserveSpecOnly ==
  /\ seen # src
  /\ seen' = src
  /\ queue' = (queue \/ [src EXCEPT !.state = seen.state, !.secret = seen.secret] # seen)
  /\ UNCHANGED <<world, src, machine, mseen, targets, access, spaces, worker, faults>>

ObserveVolume ==
  /\ seen # src
  /\ seen' = src
  /\ queue' = TRUE
  /\ UNCHANGED <<world, src, machine, mseen, targets, access, spaces, worker, faults>>

\* A Machine that lists the Volume, or did, enqueues it.
ObserveMachine ==
  /\ world.controller = "partitionlet" /\ mseen # machine
  /\ mseen' = machine
  /\ queue' = TRUE
  /\ UNCHANGED <<world, src, seen, machine, targets, access, spaces, worker, faults>>

ObserveTarget ==
  /\ targetEvent
  /\ tseen' = target /\ targetEvent' = FALSE
  /\ queue' = TRUE
  /\ UNCHANGED <<world, sources, target, cred, cseen, pull, changes, access, spaces, worker, faults>>

\* Mutant: Secrets of the target cluster are not watched.
CredentialUnwatched ==
  /\ cseen # cred
  /\ cseen' = cred
  /\ UNCHANGED <<world, sources, target, tseen, targetEvent, cred, pull, changes>>
  /\ UNCHANGED <<access, spaces, queue, worker, faults>>

\* The Secret enqueues the owner of the target whose status, in the cache, names it.
ObserveCredential ==
  /\ cseen # cred
  /\ cseen' = cred
  /\ queue' = (queue \/ tseen.state = "secret")
  /\ UNCHANGED <<world, sources, target, tseen, targetEvent, cred, pull, changes>>
  /\ UNCHANGED <<access, spaces, worker, faults>>

ObserveSecret ==
  /\ secretEvent
  /\ secretEvent' = FALSE
  /\ queue' = TRUE
  /\ UNCHANGED <<world, sources, targets, secrets, made, unpruned, spaces, worker, faults>>

ObserveSpaceCreated ==
  /\ spaceEvent
  /\ spaceEvent' = FALSE
  /\ queue' = (queue \/ seen.phase # "absent")
  /\ UNCHANGED <<world, sources, targets, access, space, worker, faults>>

Informers ==
  \/ ObserveVolume \/ ObserveMachine \/ ObserveTarget \/ ObserveCredential
  \/ ObserveSecret \/ ObserveSpaceCreated

(***************************************************************************)
(* The source cluster.                                                     *)
(***************************************************************************)
Change(volume) ==
  /\ Write(volume)
  /\ UNCHANGED <<world, seen, machine, mseen, targets, access, spaces, queue, worker, faults>>

Assign ==
  /\ May("assign") /\ src.phase = "live" /\ src.pool = "none"
  /\ \E pool \in {"ours", "theirs"} : Change([src EXCEPT !.pool = pool])

\* A Machine of the pool lists the Volume, claims it, and lets go of it again.
ListVolume ==
  /\ May("claim") /\ changes < MaxChanges
  /\ changes' = changes + 1
  /\ machine' = ~machine
  /\ UNCHANGED <<world, src, seen, mseen, target, tseen, targetEvent, cred, cseen, pull>>
  /\ UNCHANGED <<access, spaces, queue, worker, faults>>

Claim   == machine /\ src.phase = "live" /\ ~src.claimed /\ Change([src EXCEPT !.claimed = TRUE])
Unclaim == ~machine /\ src.claimed /\ Change([src EXCEPT !.claimed = FALSE])

Resize ==
  /\ May("resize") /\ src.phase = "live" /\ src.spec < MaxVersion
  /\ Change([src EXCEPT !.spec = @ + 1])

DeleteVolume ==
  /\ May("delete") /\ src.phase = "live"
  /\ Change(IF src.fin THEN [src EXCEPT !.phase = "terminating"] ELSE NoVolume)

\* Access Secrets go with the Volume that controls them, or by hand.
CollectSecrets ==
  /\ src.phase = "absent" /\ secrets # {}
  /\ secrets' = {} /\ secretEvent' = Owns
  /\ UNCHANGED <<world, sources, targets, made, unpruned, spaces, queue, worker, faults>>

Tamper ==
  /\ Fault("tamper")
  /\ \E s \in secrets : secrets' \in {secrets \ {s}, (secrets \ {s}) \cup {[s EXCEPT !.data = 0]}}
  /\ secretEvent' = Owns
  /\ UNCHANGED <<world, sources, targets, made, unpruned, spaces, queue, worker>>

SourceCluster ==
  \/ Assign \/ ListVolume \/ Claim \/ Unclaim \/ Resize \/ DeleteVolume
  \/ CollectSecrets \/ Tamper

(***************************************************************************)
(* The target cluster.                                                     *)
(***************************************************************************)
Replace(t) ==
  /\ WriteTarget(t)
  /\ UNCHANGED <<world, sources, tseen, cseen, pull, access, spaces, queue, worker>>

\* The status moves freely; a Secret it names is there.
Report ==
  /\ May("report") /\ target.there /\ changes < MaxChanges
  /\ changes' = changes + 1
  /\ \E state \in States \ {target.state} :
       /\ state = "secret" => cred > 0
       /\ Replace([target EXCEPT !.state = state])
  /\ UNCHANGED <<cred, faults>>

Issue ==
  /\ May("report") /\ target.there /\ cred < MaxVersion
  /\ cred' = cred + 1
  /\ Replace(target) /\ UNCHANGED <<changes, faults>>

SyncPullSecret ==
  /\ world.pull /\ ~pull
  /\ pull' = TRUE
  /\ UNCHANGED <<world, sources, target, tseen, targetEvent, cred, cseen, changes>>
  /\ UNCHANGED <<access, spaces, queue, worker, faults>>

TargetVanishes == target.deleted /\ Replace(NoTarget) /\ UNCHANGED <<cred, changes, faults>>

EvictTarget ==
  /\ target.there
  /\ Fault("evict")
  /\ Replace(NoTarget) /\ UNCHANGED <<cred, changes>>

SpaceIsProvided ==
  /\ ~space
  /\ space' = TRUE /\ spaceEvent' = TRUE
  /\ UNCHANGED <<world, sources, targets, access, queue, worker, faults>>

SpaceIsLost ==
  /\ space
  /\ Fault("lose")
  /\ space' = FALSE /\ WriteTarget(NoTarget)
  /\ UNCHANGED <<world, sources, tseen, cred, cseen, pull, changes, access, spaceEvent, queue, worker>>

TargetCluster ==
  \/ Report \/ Issue \/ SyncPullSecret \/ TargetVanishes \/ EvictTarget
  \/ SpaceIsProvided \/ SpaceIsLost

Next == Work \/ PruneFails \/ CallFails \/ Restart \/ Informers \/ SourceCluster \/ TargetCluster

Spec == Init /\ [][Next]_vars

(***************************************************************************)
(* Fairness: the worker runs, the informers deliver, deleted targets       *)
(* vanish and the claim of a Machine that no longer lists the Volume is    *)
(* taken back.  Nothing else is owed.                                      *)
(***************************************************************************)
Fairness == WF_vars(Work) /\ WF_vars(Informers) /\ WF_vars(TargetVanishes \/ Unclaim)

FairSpec == Spec /\ Fairness

(***************************************************************************)
(* Properties.                                                             *)
(***************************************************************************)
\* The list of access Secrets is read live because "cached List calls may not
\* yield objects created in previous invocations" (client/client.go): there are
\* never two of one Volume, after failures, restarts and changes of the status.
OneAccessSecret == Cardinality(secrets) <= 1

\* A target of a Volume of the pool is never left without a finalizer that
\* brings about its deletion, though the finalizer is looked for in a stale copy.
NoOrphan == target.there /\ world.pool = "ours" => src.phase # "absent" /\ src.fin

\* A Volume of the pool that stays, with all it depends on.
Stays == src.phase = "live" /\ Managed(src) /\ space /\ (world.pull => pull)

\* What is asked of the Volume reaches the target, and what the target reports
\* comes back, though each is patched with a copy that may be stale and a merge
\* patch leaves out what the copy has already.
StatusFollows ==
  <>[]Stays =>
    <>[](target.there /\ ~target.deleted /\ target.spec = src.spec /\ src.state = target.state)

\* partitionlet does not own the access Secret: one that somebody altered or deleted
\* may stay so until something else begins a pass.
Tampered == ~Owns /\ May("tamper") /\ secrets \subseteq {[id |-> src.secret, data |-> 0]}

\* The source has the latest credential, under the name its status gives, and none
\* once the target gives none, except one that could not be pruned and, with
\* partitionlet, one that was tampered with.
AccessFollows ==
  <>[]Stays =>
    <>[]IF target.state = "secret"
        THEN secrets = {[id |-> src.secret, data |-> cred]} \/ Tampered
        ELSE src.secret = 0 /\ (secrets = {} \/ unpruned)

\* A Volume that was deleted goes, if there is a target Namespace to look in and
\* an applier; volumebrokerlet relies on the event of the target's end for it.
DeletedGoes ==
  <>[](space /\ HasApplier(src)) => []<>(src.phase # "terminating")

\* A Volume of another pool is let go of once no Machine of the pool uses it.
UnusedReleased ==
  <>[](space /\ HasApplier(src) /\ ~Managed(src) /\ ~machine) => <>[]~src.fin
===============================================================================
