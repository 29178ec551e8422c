-------------------------- MODULE NamespaceBroker --------------------------
(***************************************************************************)
(* The Namespace reconciler of a brokerlet                                 *)
(* (broker/controllers/core/namespace_controller.go).                      *)
(*                                                                         *)
(* A brokerlet gives every source Namespace that its pool uses a target    *)
(* Namespace with a generated name, found again by a label holding the     *)
(* UID of the source Namespace.  It reads the source cluster through an    *)
(* informer cache that lags behind, it lists the target cluster live, and  *)
(* it writes to both API servers.  A finalizer on the source Namespace is  *)
(* to keep it from vanishing before its target Namespace has.              *)
(*                                                                         *)
(* One action is one call the reconciler makes to an API server, with the  *)
(* code up to the next call; the two clusters, the informers and the other *)
(* users of the API servers move between any two of them.                  *)
(***************************************************************************)
EXTENDS Naturals

CONSTANTS
  Names,         \* names of source Namespaces
  Machines,      \* Machines that may live in a source Namespace
  Volumes,       \* Volumes that may live in a source Namespace
  TargetNames,   \* names the target API server may generate
  SameNamed,     \* source names that an unrelated target Namespace bears too
  MaxUid,        \* bound: incarnations of one source Namespace
  MaxFaults,     \* bound: failed calls, lost replies, restarts, evictions
  Mishaps,       \* "late": a Create may be served after its caller gave up;
                 \* "strip": somebody may take the finalizer away
  None           \* no Namespace

ASSUME ConstantsAssumption ==
  /\ MaxUid \in Nat
  /\ MaxFaults \in Nat
  /\ Mishaps \subseteq {"late", "strip"}
  /\ SameNamed \subseteq Names
  /\ None \notin Names
  /\ None \notin TargetNames

VARIABLES
  src,       \* the source Namespaces, as the source API server has them
  feed,      \* per name, the versions the informer has not delivered yet
  seen,      \* per name, the version the informer cache has
  refs,      \* per name, the Machines and Volumes in it (live)
  seenRefs,  \* the same in the informer caches
  target,    \* the target Namespaces brokered so far, by generated name
  tEvents,   \* names whose target Namespace has an undelivered event
  late,      \* Creates still under way though their caller gave up
  queue,     \* the workqueue of the controller
  pc,        \* the next API call of the worker
  cur,       \* the request the worker processes
  copy,      \* the Namespace object the worker read
  found,     \* the target Namespace the worker listed
  faults     \* faults so far

source    == <<src, feed, seen>>
referents == <<refs, seenRefs>>
targets   == <<target, tEvents, late>>
worker    == <<pc, cur, copy, found>>
vars      == <<src, feed, seen, refs, seenRefs, target, tEvents, late, queue,
               pc, cur, copy, found, faults>>

Referents == Machines \cup Volumes

(***************************************************************************)
(* Values.  A version of a source Namespace carries the number of its      *)
(* incarnation (its UID), its phase, whether it holds the brokerlet's      *)
(* finalizer, and its resourceVersion.                                     *)
(***************************************************************************)
Version ==
  {v \in [uid : 0..MaxUid, phase : {"absent", "live", "terminating"},
          fin : BOOLEAN, rv : Nat] : v.phase # "absent" => v.uid # 0}
NoVersion == [uid |-> 0, phase |-> "absent", fin |-> FALSE, rv |-> 0]

\* A target Namespace carries the UID label of its source (uid) and the name in
\* its controller reference.  It is present, or terminating because the
\* brokerlet deleted it or because somebody else evicted it.
Target   == [name : Names, uid : 1..MaxUid, life : {"present", "deleted", "evicted"}]
NoTarget == [name |-> None, uid |-> 0, life |-> "absent"]

\* A referent is absent, assigned to another pool or none, or to this pool.
Assignment == {"none", "foreign", "ours"}

ReconcileSteps == {"list", "refs", "unbroker", "ensure", "create", "keep"}
DeleteSteps    == {"dlist", "ddelete", "release"}

TypeOK ==
  /\ src \in [Names -> Version]
  /\ feed \in [Names -> SUBSET Version]
  /\ seen \in [Names -> Version]
  /\ refs \in [Names -> [Referents -> Assignment]]
  /\ seenRefs \in [Names -> [Referents -> Assignment]]
  /\ target \in [TargetNames -> Target \cup {NoTarget}]
  /\ tEvents \subseteq Names
  /\ late \subseteq Names \X (1..MaxUid)
  /\ queue \subseteq Names
  /\ pc \in {"idle"} \cup ReconcileSteps \cup DeleteSteps
  /\ cur \in Names \cup {None}
  /\ copy \in Version
  /\ found \in TargetNames \cup {None}
  /\ pc # "idle" => cur # None /\ copy.phase # "absent"
  /\ pc = "ddelete" => found # None
  /\ faults \in 0..MaxFaults

Init ==
  /\ src = [n \in Names |-> NoVersion]
  /\ feed = [n \in Names |-> {}]
  /\ seen = [n \in Names |-> NoVersion]
  /\ refs = [n \in Names |-> [r \in Referents |-> "none"]]
  /\ seenRefs = refs
  /\ target = [t \in TargetNames |-> NoTarget]
  /\ tEvents = {}
  /\ late = {}
  /\ queue = {}
  /\ pc = "idle"
  /\ cur = None
  /\ copy = NoVersion
  /\ found = None
  /\ faults = 0

(***************************************************************************)
(* API servers.  Every change of an object is a new version the informer   *)
(* has yet to deliver; a patch that changes nothing makes no version.      *)
(***************************************************************************)
WriteSource(n, uid, phase, fin) ==
  LET v == [uid |-> uid, phase |-> phase, fin |-> fin, rv |-> src[n].rv + 1]
  IN  /\ src' = [src EXCEPT ![n] = v]
      /\ feed' = [feed EXCEPT ![n] = @ \cup {v}]
      /\ seen' = seen

\* A merge patch of the finalizers carries no UID and no resourceVersion: it
\* reaches whatever object has the name.  No finalizer may be added to an
\* object that is terminating.
Accepts(n, fin) ==
  /\ src[n].phase # "absent"
  /\ fin /\ ~src[n].fin => src[n].phase = "live"

PatchFinalizer(n, fin) ==
  IF src[n].fin = fin
  THEN UNCHANGED source
  ELSE WriteSource(n, src[n].uid, src[n].phase, fin)

\* Mutant: terminating target Namespaces are left out of the list.
MatchingPresent(n, u) ==
  {t \in TargetNames : target[t].name = n /\ target[t].uid = u /\ target[t].life = "present"}

\* Target Namespaces with the label targetSourceUIDLabel() of incarnation u.
Matching(n, u) == {t \in TargetNames : target[t].name = n /\ target[t].uid = u}

Generate(n, u) ==
  \E t \in TargetNames :
    /\ target[t] = NoTarget
    /\ target' = [target EXCEPT ![t] = [name |-> n, uid |-> u, life |-> "present"]]
    /\ tEvents' = tEvents \cup {n}

(***************************************************************************)
(* The worker of the controller.  A result without error or Requeue leaves *)
(* the request to the next event; any other puts it back into the queue.   *)
(***************************************************************************)
Goto(step) ==
  /\ pc' = step
  /\ UNCHANGED <<cur, copy, queue>>

Finish ==
  /\ pc' = "idle"
  /\ cur' = None
  /\ copy' = NoVersion
  /\ found' = None

Done  == Finish /\ queue' = queue
Retry == Finish /\ queue' = queue \cup {cur}

\* The reply of a call that took effect may be lost: the caller sees an error.
Fault == faults < MaxFaults /\ faults' = faults + 1

DoneOrReplyLost ==
  \/ Done /\ UNCHANGED faults
  \/ Retry /\ Fault

\* IsReferenced.  The first list reads the cache and keeps the objects of the
\* pool; the second, meant to be live, reads the same cache without the pool
\* filter.  Both miss only if the cache holds no Machine and no Volume of n.
IsReferenced(n) == \E r \in Referents : seenRefs[n][r] # "none"

\* Mutant: a Namespace that lost its last user is brokered no longer.
BeginUnbrokers(n) ==
  /\ pc = "idle" /\ n \in queue /\ queue' = queue \ {n}
  /\ cur' = n /\ copy' = seen[n] /\ found' = None
  /\ \/ seen[n].phase = "live" /\ IsReferenced(n) /\ pc' = "list"
     \/ seen[n].phase = "live" /\ ~IsReferenced(n) /\ pc' = "dlist"
     \/ seen[n].phase = "terminating" /\ seen[n].fin /\ pc' = "dlist"
  /\ UNCHANGED <<source, referents, targets, faults>>

\* Reconcile: read the Namespace from the cache and branch on its deletion.
Begin(n) ==
  /\ pc = "idle"
  /\ n \in queue
  /\ queue' = queue \ {n}
  /\ \/ /\ \/ seen[n].phase = "absent"
           \/ seen[n].phase = "terminating" /\ ~seen[n].fin
        /\ UNCHANGED worker
     \/ /\ \/ seen[n].phase = "live" /\ pc' = "list"
           \/ seen[n].phase = "terminating" /\ seen[n].fin /\ pc' = "dlist"
        /\ cur' = n
        /\ copy' = seen[n]
        /\ found' = None
  /\ UNCHANGED <<source, referents, targets, faults>>

\* reconcile: list the target Namespaces of this incarnation (live).
List ==
  /\ pc = "list"
  /\ LET m == Matching(cur, copy.uid) IN
     \/ m = {} /\ Goto("refs")
     \/ (\E t \in m : m = {t}) /\ Goto("keep")
     \/ (\E s, t \in m : s # t) /\ Retry
  /\ found' = None
  /\ UNCHANGED <<source, referents, targets, faults>>

CheckReferenced ==
  /\ pc = "refs"
  /\ \/ IsReferenced(cur) /\ Goto("ensure")
     \/ ~IsReferenced(cur) /\ Goto("unbroker")
  /\ found' = None
  /\ UNCHANGED <<source, referents, targets, faults>>

\* Not used, no target: the patch that is to remove the finalizer goes to the
\* target cluster, where an unrelated Namespace may bear the name.
EnsureNoFinalizer ==
  /\ pc = "unbroker"
  /\ \/ (copy.fin => cur \in SameNamed)
        /\ Done
     \/ copy.fin /\ cur \notin SameNamed
        /\ Retry
  /\ UNCHANGED <<source, referents, targets, faults>>

\* Mutant: the finalizer is left to the pass after the Create.
EnsureFinalizerLater ==
  /\ pc = "ensure"
  /\ Goto("create") /\ found' = None
  /\ UNCHANGED <<source, referents, targets, faults>>

\* Used, no target: the finalizer comes first, and a patch ends the pass.
EnsureFinalizer ==
  /\ pc = "ensure"
  /\ \/ copy.fin /\ Goto("create") /\ found' = None /\ UNCHANGED source
     \/ ~copy.fin /\ Accepts(cur, TRUE) /\ PatchFinalizer(cur, TRUE) /\ Retry
     \/ ~copy.fin /\ ~Accepts(cur, TRUE) /\ Retry /\ UNCHANGED source
  /\ UNCHANGED <<referents, targets, faults>>

CreateTarget ==
  /\ pc = "create"
  /\ Generate(cur, copy.uid)
  /\ DoneOrReplyLost
  /\ UNCHANGED <<source, referents, late>>

\* A generated name that is taken makes the Create fail.
NameTaken ==
  /\ pc = "create"
  /\ \A t \in TargetNames : target[t] # NoTarget
  /\ Retry
  /\ UNCHANGED <<source, referents, targets, faults>>

\* The caller times out, or its process ends, before the Create is served.
CreateTimesOut ==
  /\ "late" \in Mishaps
  /\ pc = "create"
  /\ late' = late \cup {<<cur, copy.uid>>}
  /\ Fault
  /\ Retry
  /\ UNCHANGED <<source, referents, target, tEvents>>

\* Mutant: a target Namespace that exists is taken to be protected.
KeepNothing ==
  /\ pc = "keep"
  /\ Done
  /\ UNCHANGED <<source, referents, targets, faults>>

\* Target found: the finalizer is restored should it be missing.
KeepFinalizer ==
  /\ pc = "keep"
  /\ \/ copy.fin /\ Done /\ UNCHANGED <<source, faults>>
     \/ ~copy.fin /\ Accepts(cur, TRUE)
        /\ PatchFinalizer(cur, TRUE) /\ DoneOrReplyLost
     \/ ~copy.fin /\ ~Accepts(cur, TRUE) /\ Retry /\ UNCHANGED <<source, faults>>
  /\ UNCHANGED <<referents, targets>>

\* Mutant: the object that was listed is not the one that is deleted.
ListForDeleteForgets ==
  /\ pc = "dlist"
  /\ IF Matching(cur, copy.uid) = {} THEN Goto("release") ELSE Goto("ddelete")
  /\ found' = None
  /\ UNCHANGED <<source, referents, targets, faults>>

\* delete: list the target Namespaces (live) and delete the single one found.
ListForDelete ==
  /\ pc = "dlist"
  /\ LET m == Matching(cur, copy.uid) IN
     \/ m = {} /\ Goto("release") /\ found' = None
     \/ \E t \in m : m = {t} /\ Goto("ddelete") /\ found' = t
     \/ (\E s, t \in m : s # t) /\ Retry
  /\ UNCHANGED <<source, referents, targets, faults>>

\* Mutant: the finalizer goes as soon as the deletion is accepted.
DeleteWithoutWaiting ==
  /\ pc = "ddelete"
  /\ \/ target[found].life # "present" /\ UNCHANGED <<target, tEvents>>
     \/ /\ target[found].life = "present"
        /\ target' = [target EXCEPT ![found].life = "deleted"]
        /\ tEvents' = tEvents \cup {target[found].name}
  /\ Goto("release") /\ found' = None
  /\ UNCHANGED <<source, referents, late, faults>>

\* A Namespace that is gone by now answers NotFound, which leads to release.
DeleteTarget ==
  /\ pc = "ddelete"
  /\ \/ /\ target[found] = NoTarget
        /\ Goto("release") /\ found' = None
        /\ UNCHANGED <<target, tEvents>>
     \/ /\ target[found].life = "present"
        /\ target' = [target EXCEPT ![found].life = "deleted"]
        /\ tEvents' = tEvents \cup {target[found].name}
        /\ Retry
     \/ /\ target[found].life \in {"deleted", "evicted"}
        /\ Retry
        /\ UNCHANGED <<target, tEvents>>
  /\ UNCHANGED <<source, referents, late, faults>>

RemoveFinalizer ==
  /\ pc = "release"
  /\ \/ Accepts(cur, FALSE) /\ PatchFinalizer(cur, FALSE) /\ DoneOrReplyLost
     \/ ~Accepts(cur, FALSE) /\ Retry /\ UNCHANGED <<source, faults>>
  /\ UNCHANGED <<referents, targets>>

\* Mutant: an error is logged and swallowed.
FailureSwallowed ==
  /\ pc \notin {"idle", "refs"}
  /\ Fault
  /\ Done
  /\ UNCHANGED <<source, referents, targets>>

\* Any call to an API server may fail without effect.
CallFails ==
  /\ pc \notin {"idle", "refs"}
  /\ Fault
  /\ Retry
  /\ UNCHANGED <<source, referents, targets>>

\* The process restarts (or another replica takes the lead): the informers
\* list everything anew and report each object as created.
Restart ==
  /\ Fault
  /\ Finish
  /\ seen' = src
  /\ feed' = [n \in Names |-> {}]
  /\ seenRefs' = refs
  /\ queue' = {n \in Names : src[n].phase # "absent"}
                \cup {target[t].name : t \in {s \in TargetNames : target[s] # NoTarget}}
  /\ tEvents' = {}
  /\ UNCHANGED <<src, refs, target, late>>

(***************************************************************************)
(* The informers and their event handlers.                                 *)
(***************************************************************************)
\* The cache moves on to a later version; the handler enqueues the Namespace.
ObserveSource(n) ==
  \E v \in feed[n] :
    /\ seen' = [seen EXCEPT ![n] = v]
    /\ feed' = [feed EXCEPT ![n] = {w \in @ : w.rv > v.rv}]
    /\ queue' = queue \cup {n}
    /\ UNCHANGED <<src, referents, targets, worker, faults>>

\* Events of Machines of other pools are filtered, those of Volumes are not.
Reported(r, old, new) ==
  \/ r \in Volumes
  \/ new = "ours"
  \/ new = "none" /\ old = "ours"

ObserveReferent(n, r) ==
  /\ seenRefs[n][r] # refs[n][r]
  /\ seenRefs' = [seenRefs EXCEPT ![n][r] = refs[n][r]]
  /\ queue' = IF Reported(r, seenRefs[n][r], refs[n][r]) THEN queue \cup {n} ELSE queue
  /\ UNCHANGED <<source, refs, targets, worker, faults>>

\* Mutant: target Namespaces are not watched.
TargetUnwatched(n) ==
  /\ n \in tEvents
  /\ tEvents' = tEvents \ {n}
  /\ UNCHANGED <<source, referents, target, late, queue, worker, faults>>

\* OwnsTarget: an event of a target Namespace enqueues its controller.
ObserveTarget(n) ==
  /\ n \in tEvents
  /\ tEvents' = tEvents \ {n}
  /\ queue' = queue \cup {n}
  /\ UNCHANGED <<source, referents, target, late, worker, faults>>

(***************************************************************************)
(* The two clusters around the brokerlet.                                  *)
(***************************************************************************)
CreateSource(n) ==
  /\ src[n].phase = "absent"
  /\ src[n].uid < MaxUid
  /\ WriteSource(n, src[n].uid + 1, "live", FALSE)
  /\ UNCHANGED <<referents, targets, queue, worker, faults>>

DeleteSource(n) ==
  /\ src[n].phase = "live"
  /\ WriteSource(n, src[n].uid, "terminating", src[n].fin)
  /\ UNCHANGED <<referents, targets, queue, worker, faults>>

\* A terminating Namespace vanishes with its content and its finalizers gone.
SourceVanishes(n) ==
  /\ src[n].phase = "terminating"
  /\ ~src[n].fin
  /\ \A r \in Referents : refs[n][r] = "none"
  /\ WriteSource(n, src[n].uid, "absent", FALSE)
  /\ UNCHANGED <<referents, targets, queue, worker, faults>>

\* Somebody takes the finalizer from a Namespace by hand.
StripFinalizer(n) ==
  /\ "strip" \in Mishaps
  /\ src[n].fin
  /\ Fault
  /\ WriteSource(n, src[n].uid, src[n].phase, FALSE)
  /\ UNCHANGED <<referents, targets, queue, worker>>

Assign(n, r, a) ==
  /\ refs' = [refs EXCEPT ![n][r] = a]
  /\ UNCHANGED <<source, seenRefs, targets, queue, worker, faults>>

CreateReferent(n, r) ==
  /\ src[n].phase = "live"
  /\ refs[n][r] = "none"
  /\ \E a \in {"foreign", "ours"} : Assign(n, r, a)

ScheduleReferent(n, r) ==
  /\ refs[n][r] = "foreign"
  /\ Assign(n, r, "ours")

DeleteReferent(n, r) ==
  /\ refs[n][r] # "none"
  /\ Assign(n, r, "none")

\* Somebody else deletes a target Namespace.
EvictTarget(t) ==
  /\ target[t].life = "present"
  /\ Fault
  /\ target' = [target EXCEPT ![t].life = "evicted"]
  /\ tEvents' = tEvents \cup {target[t].name}
  /\ UNCHANGED <<source, referents, late, queue, worker>>

TargetVanishes(t) ==
  /\ target[t].life \in {"deleted", "evicted"}
  /\ target' = [target EXCEPT ![t] = NoTarget]
  /\ tEvents' = tEvents \cup {target[t].name}
  /\ UNCHANGED <<source, referents, late, queue, worker, faults>>

LateCreate(l) ==
  /\ late' = late \ {l}
  /\ Generate(l[1], l[2])
  /\ UNCHANGED <<source, referents, queue, worker, faults>>

Work ==
  \/ List \/ CheckReferenced \/ EnsureNoFinalizer \/ EnsureFinalizer
  \/ CreateTarget \/ NameTaken \/ KeepFinalizer
  \/ ListForDelete \/ DeleteTarget \/ RemoveFinalizer

Next ==
  \/ \E n \in Names : Begin(n)
  \/ Work
  \/ CreateTimesOut
  \/ CallFails
  \/ Restart
  \/ \E n \in Names : ObserveSource(n) \/ ObserveTarget(n)
  \/ \E n \in Names, r \in Referents : ObserveReferent(n, r)
  \/ \E n \in Names : CreateSource(n) \/ DeleteSource(n) \/ SourceVanishes(n)
  \/ \E n \in Names : StripFinalizer(n)
  \/ \E n \in Names, r \in Referents :
       CreateReferent(n, r) \/ ScheduleReferent(n, r) \/ DeleteReferent(n, r)
  \/ \E t \in TargetNames : EvictTarget(t) \/ TargetVanishes(t)
  \/ \E l \in late : LateCreate(l)

Spec == Init /\ [][Next]_vars

(***************************************************************************)
(* Fairness.  The worker goroutine runs and the queue is first in, first   *)
(* out, so a request that is enqueued again and again is taken (strong     *)
(* fairness); the informers deliver; the API servers finish the deletions  *)
(* they began.  Users, faults and evictions owe nothing.                   *)
(***************************************************************************)
Fairness ==
  /\ \A n \in Names : SF_vars(Begin(n))
  /\ WF_vars(Work)
  /\ \A n \in Names : WF_vars(ObserveSource(n)) /\ WF_vars(ObserveTarget(n))
  /\ \A n \in Names, r \in Referents :
       /\ WF_vars(ObserveReferent(n, r))
       /\ WF_vars(src[n].phase = "terminating" /\ DeleteReferent(n, r))
  /\ \A n \in Names : WF_vars(SourceVanishes(n))
  /\ \A t \in TargetNames : WF_vars(TargetVanishes(t))

FairSpec == Spec /\ Fairness

(***************************************************************************)
(* Properties.                                                             *)
(***************************************************************************)
\* Deleting and the label-based lookup only work with at most one target
\* Namespace per incarnation: ListSingle answers an error for two
\* (client/client.go), and nothing but the order of list and create in
\* namespace_controller.go sees to it, whatever is retried or restarted.
AtMostOneTarget == \A s, t \in TargetNames :
  target[s] # NoTarget /\ target[t] # NoTarget
    /\ target[s].name = target[t].name /\ target[s].uid = target[t].uid => s = t

\* As long as a target Namespace exists, its source Namespace exists in the
\* very incarnation it was made for and holds the finalizer, so no target
\* Namespace is ever orphaned, however stale the copies are that
\* namespace_controller.go patches with, across deletion and recreation.
NoOrphan == \A t \in TargetNames : target[t] # NoTarget =>
  LET s == src[target[t].name] IN
    /\ s.phase # "absent"
    /\ s.uid = target[t].uid
    /\ s.fin

\* The brokerlet deletes no target Namespace while the source Namespace it was
\* made for lives: losing its last user does not suffice, nor does the deletion
\* of an earlier Namespace of that name (broker-namespace.md: "the target
\* Namespace will only be deleted if the source Namespace is deleted").
DeletesOnlyWithSource == [][\A t \in TargetNames :
  target[t].life = "present" /\ target'[t].life = "deleted" =>
    ~ /\ src[target[t].name].phase = "live"
      /\ src[target[t].name].uid = target[t].uid]_vars

\* ListSingle answers with an error to two target Namespaces of one incarnation,
\* at every pass, and no pass gets beyond it.  Only a Create that is served after
\* its caller gave up leaves two (AtMostOneTarget), and the liveness properties
\* except a source Namespace that keeps two.
Single(n, u) == \A s, t \in Matching(n, u) : s = t

\* A Namespace that this pool keeps using gets a target Namespace for good,
\* after any number of failed calls, stale reads, evictions and late Creates,
\* unless these doubled a target Namespace (one of an earlier incarnation is
\* excepted because it may use up TargetNames).
UsedGetsTarget == \A n \in Names :
  (\E r \in Referents :
     <>[](/\ src[n].phase = "live"
          /\ refs[n][r] = "ours"
          /\ \A u \in 1..MaxUid : Single(n, u)))
    => <>[](\E t \in Matching(n, src[n].uid) : target[t].life = "present")

\* A terminating source Namespace is let go in the end: the finalizer never
\* blocks its deletion for ever, unless a late Create doubled its target.
TerminatingVanishes == \A n \in Names :
  ~<>[](src[n].phase = "terminating" /\ Single(n, src[n].uid))

\* A finalizer that somebody takes away is put back as long as there is a target
\* Namespace to be protected ("Ensuring finalizer is still present for existing
\* target namespace", namespace_controller.go), unless there are two of them.
FinalizerRestored == \A n \in Names :
  <>[](src[n].phase = "live" /\ \E t \in TargetNames : Matching(n, src[n].uid) = {t})
    => <>[](src[n].fin)

\* What namespace_controller.go:160 logs it does: a Namespace that stays unused
\* and has no target Namespace is left without the finalizer.
UnusedLosesFinalizer == \A n \in Names :
  <>[](/\ src[n].phase = "live"
       /\ \A r \in Referents : refs[n][r] = "none"
       /\ \A t \in TargetNames : target[t].name # n)
    => <>[](~src[n].fin)

=============================================================================
