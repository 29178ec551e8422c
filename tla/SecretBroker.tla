---------------------------- MODULE SecretBroker ----------------------------
(***************************************************************************)
(* The Secret reconciler of a brokerlet                                    *)
(* (broker/controllers/core/secret_controller.go; the ConfigMap reconciler *)
(* next to it differs in the kind only).                                   *)
(*                                                                         *)
(* A Secret of the source Namespace Home that a Machine or Volume of the   *)
(* pool refers to is copied into the target Namespace of Home; one that is *)
(* not, or no longer, is removed there.  The target Namespace itself comes *)
(* and goes as NamespaceMapping says: the Namespace reconciler is the      *)
(* environment here.                                                       *)
(*                                                                         *)
(* One action is one call the worker makes to an API server, with the code *)
(* (and the cached reads) up to the next one.                              *)
(***************************************************************************)
EXTENDS Naturals

CONSTANTS
  Home,          \* the source Namespace
  Secrets,       \* names of Secrets in it
  Data,          \* contents of a Secret
  Places,        \* where referents may be: "here" in Home, "elsewhere" not
  MaxUid,        \* bound: incarnations of one Secret
  MaxSpaces,     \* bound: target Namespaces of Home, one after the other
  MaxLives,      \* bound: both together
  MaxChanges,    \* bound: updates of Secrets and of referents
  MaxFaults,     \* bound: failed calls, lost replies, restarts, meddling
  MaxReturns,    \* bound: updates, if one brings a referent to a Secret without
  MaxTurns,      \* bound: updates and faults together
  None           \* no Secret, no data

ASSUME SecretAssumption ==
  /\ Places \subseteq {"here", "elsewhere"}
  /\ MaxUid \in Nat /\ MaxSpaces \in Nat /\ MaxLives \in Nat
  /\ MaxChanges \in Nat /\ MaxReturns \in Nat
  /\ MaxFaults \in Nat /\ MaxTurns \in Nat
  /\ None \notin Secrets
  /\ None \notin Data

VARIABLES
  home, away,    \* Home and its target Namespace, as NamespaceMapping has them
  gen,           \* the number of target Namespaces so far; the last has this name
  nsEvent,       \* the creation of a target Namespace has yet to be reported
  src,           \* the Secrets of Home, as the source API server has them
  feed,          \* per Secret, the versions the informer has not delivered yet
  seen,          \* per Secret, the version the informer cache has
  refs,          \* per Secret, where there are referents of the pool (live)
  seenRefs,      \* the same in the informer caches
  rEvents,       \* Secrets of which a referent in Home has an undelivered event
  target,        \* the copies in the target Namespace
  seenTarget,    \* the copies in the cache of the target cluster
  tEvents,       \* Secrets whose copy has an undelivered event
  queue,         \* the workqueue of the controller
  pc,            \* the next API call of the worker
  cur,           \* the request the worker processes
  copy,          \* the Secret object the worker read
  space,         \* the target Namespace the worker found
  changes,       \* updates so far
  faults         \* faults so far

namespace == <<home, away, gen, nsEvent>>
source    == <<src, feed, seen>>
referents == <<refs, seenRefs, rEvents>>
targets   == <<target, seenTarget, tEvents>>
worker    == <<pc, cur, copy, space>>
vars      == <<home, away, gen, nsEvent, src, feed, seen, refs, seenRefs, rEvents,
               target, seenTarget, tEvents, queue, pc, cur, copy, space, changes, faults>>

Mapping == INSTANCE NamespaceMapping
             WITH Sources <- {Home}, source <- home, mapped <- away

Version ==
  {v \in [uid : 0..MaxUid, phase : {"absent", "live", "terminating"},
          fin : BOOLEAN, data : Data \cup {None}, rv : Nat] :
     v.phase # "absent" => v.uid # 0 /\ v.data # None}
NoVersion == [uid |-> 0, phase |-> "absent", fin |-> FALSE, data |-> None, rv |-> 0]

\* A copy bears the name of its Secret, in a target Namespace; uid is the UID in
\* its controller reference.
Target   == [space : 1..MaxSpaces, uid : 1..MaxUid, data : Data, life : {"present", "deleted"}]
NoTarget == [space |-> 0, uid |-> 0, data |-> None, life |-> "absent"]

ReconcileSteps == {"space", "finalize", "create", "patch"}
DeleteSteps    == {"dspace", "delete", "release"}

TypeOK ==
  /\ Mapping!MappingTypeOK
  /\ gen \in 0..MaxSpaces
  /\ nsEvent \in BOOLEAN
  /\ src \in [Secrets -> Version]
  /\ feed \in [Secrets -> SUBSET Version]
  /\ seen \in [Secrets -> Version]
  /\ refs \in [Secrets -> SUBSET Places]
  /\ seenRefs \in [Secrets -> SUBSET Places]
  /\ target \in [Secrets -> Target \cup {NoTarget}]
  /\ seenTarget \in [Secrets -> Target \cup {NoTarget}]
  /\ rEvents \subseteq Secrets
  /\ tEvents \subseteq Secrets
  /\ queue \subseteq Secrets
  /\ pc \in {"idle", "refs"} \cup ReconcileSteps \cup DeleteSteps
  /\ cur \in Secrets \cup {None}
  /\ copy \in Version
  /\ space \in 0..MaxSpaces
  /\ pc # "idle" => cur # None /\ copy.phase # "absent"
  /\ pc \in {"finalize", "create", "patch", "delete"} => space # 0
  /\ changes \in 0..MaxTurns
  /\ faults \in 0..MaxFaults

Init ==
  /\ Mapping!MappingInit
  /\ gen = 0
  /\ nsEvent = FALSE
  /\ src = [s \in Secrets |-> NoVersion]
  /\ feed = [s \in Secrets |-> {}]
  /\ seen = src
  /\ refs \in [Secrets -> SUBSET Places]
  /\ seenRefs = refs
  /\ rEvents = {}
  /\ target = [s \in Secrets |-> NoTarget]
  /\ seenTarget = target
  /\ tEvents = {}
  /\ queue = {}
  /\ pc = "idle"
  /\ cur = None
  /\ copy = NoVersion
  /\ space = 0
  /\ changes = 0
  /\ faults = 0

Change(bound) ==
  /\ changes < bound /\ changes + faults < MaxTurns
  /\ changes' = changes + 1
Fault ==
  /\ faults < MaxFaults /\ changes + faults < MaxTurns
  /\ faults' = faults + 1

(***************************************************************************)
(* The source API server.  An object that is terminating vanishes with its *)
(* last finalizer and is given none anew; a patch that changes nothing     *)
(* makes no version.  Finalizer patches carry no UID.                      *)
(***************************************************************************)
WriteSource(s, uid, phase, fin, data) ==
  LET v == [uid |-> uid, phase |-> phase, fin |-> fin, data |-> data, rv |-> src[s].rv + 1]
  IN  /\ src' = [src EXCEPT ![s] = v]
      /\ feed' = [feed EXCEPT ![s] = @ \cup {v}]
      /\ seen' = seen

Accepts(s, fin) ==
  /\ src[s].phase # "absent"
  /\ fin /\ ~src[s].fin => src[s].phase = "live"

PatchFinalizer(s, fin) ==
  LET v == src[s] IN
  \/ v.fin = fin /\ UNCHANGED source
  \/ v.fin # fin /\ v.phase = "live" /\ WriteSource(s, v.uid, "live", fin, v.data)
  \/ v.fin # fin /\ v.phase = "terminating" /\ WriteSource(s, v.uid, "absent", FALSE, None)

(***************************************************************************)
(* The worker.                                                             *)
(***************************************************************************)
Goto(step) ==
  /\ pc' = step
  /\ UNCHANGED <<cur, copy, queue>>

Finish ==
  /\ pc' = "idle"
  /\ cur' = None
  /\ copy' = NoVersion
  /\ space' = 0

Done  == Finish /\ queue' = queue
Retry == Finish /\ queue' = queue \cup {cur}

DoneOrReplyLost ==
  \/ Done /\ UNCHANGED faults
  \/ Retry /\ Fault

\* Reconcile and the cached half of IsReferenced.
Begin(s) ==
  /\ pc = "idle"
  /\ s \in queue
  /\ queue' = queue \ {s}
  /\ \/ /\ \/ seen[s].phase = "absent"
           \/ seen[s].phase = "terminating" /\ ~seen[s].fin
        /\ UNCHANGED worker
     \/ /\ \/ seen[s].phase = "terminating" /\ seen[s].fin /\ pc' = "dspace"
           \/ seen[s].phase = "live" /\ "here" \in seenRefs[s] /\ pc' = "space"
           \/ seen[s].phase = "live" /\ "here" \notin seenRefs[s] /\ pc' = "refs"
        /\ cur' = s
        /\ copy' = seen[s]
        /\ space' = 0
  /\ UNCHANGED <<namespace, source, referents, targets, changes, faults>>


\* The live half: it lists referents by the name of the Secret in every Namespace.
ListReferents ==
  /\ pc = "refs"
  /\ \/ refs[cur] # {} /\ Goto("space") /\ UNCHANGED space
     \/ refs[cur] = {} /\ copy.fin /\ Goto("dspace") /\ UNCHANGED space
     \/ refs[cur] = {} /\ ~copy.fin /\ Done
  /\ UNCHANGED <<namespace, source, referents, targets, changes, faults>>

\* reconcile: TargetNamespaceFor; if it is not synced the request ends.  With
\* the finalizer in place the copy is looked up in the cache to choose the call.
FindSpace ==
  LET cached == seenTarget[cur]
  IN
  /\ pc = "space"
  /\ \/ away[Home] = "absent" /\ Done
     \/ away[Home] # "absent" /\ ~copy.fin
        /\ Goto("finalize") /\ space' = gen
     \/ away[Home] # "absent" /\ copy.fin /\ cached.space # gen
        /\ Goto("create") /\ space' = gen
     \/ away[Home] # "absent" /\ copy.fin /\ cached.space = gen
        /\ \/ cached.uid # copy.uid /\ Retry
           \/ cached.uid = copy.uid /\ cached.data = copy.data /\ Done
           \/ cached.uid = copy.uid /\ cached.data # copy.data
              /\ Goto("patch") /\ space' = gen
  /\ UNCHANGED <<namespace, source, referents, targets, changes, faults>>

EnsureFinalizer ==
  /\ pc = "finalize"
  /\ \/ Accepts(cur, TRUE) /\ PatchFinalizer(cur, TRUE)
     \/ ~Accepts(cur, TRUE) /\ UNCHANGED source
  /\ Retry
  /\ UNCHANGED <<namespace, referents, targets, changes, faults>>

\* Nothing is created in a Namespace that terminates or is gone.
CreateTarget ==
  /\ pc = "create"
  /\ \/ /\ space = gen /\ away[Home] = "present" /\ target[cur] = NoTarget
        /\ target' = [target EXCEPT ![cur] =
             [space |-> space, uid |-> copy.uid, data |-> copy.data, life |-> "present"]]
        /\ tEvents' = tEvents \cup {cur}
        /\ DoneOrReplyLost
     \/ /\ ~(space = gen /\ away[Home] = "present" /\ target[cur] = NoTarget)
        /\ Retry
        /\ UNCHANGED <<target, tEvents, faults>>
  /\ UNCHANGED <<namespace, source, referents, seenTarget, changes>>

PatchTarget ==
  /\ pc = "patch"
  /\ \/ /\ target[cur].space = space
        /\ target' = [target EXCEPT ![cur].data = copy.data]
        /\ tEvents' = tEvents \cup {cur}
        /\ DoneOrReplyLost
     \/ /\ target[cur].space # space
        /\ Retry
        /\ UNCHANGED <<target, tEvents, faults>>
  /\ UNCHANGED <<namespace, source, referents, seenTarget, changes>>

\* Mutant: the name of the target Namespace is lost.
FindSpaceInVain ==
  /\ pc = "dspace"
  /\ Goto("delete")
  /\ UNCHANGED <<namespace, source, referents, targets, space, changes, faults>>

\* delete: TargetNamespaceFor; if it is not synced the request ends.
FindSpaceForDelete ==
  /\ pc = "dspace"
  /\ \/ away[Home] = "absent" /\ Done
     \/ away[Home] # "absent" /\ Goto("delete") /\ space' = gen
  /\ UNCHANGED <<namespace, source, referents, targets, changes, faults>>

\* Mutant: the deletion of the copy is not waited for.
DeleteWithoutWaiting ==
  /\ pc = "delete"
  /\ \/ target[cur].space # space /\ UNCHANGED <<target, tEvents>>
     \/ /\ target[cur].space = space
        /\ target' = [target EXCEPT ![cur].life = "deleted"]
        /\ tEvents' = tEvents \cup {cur}
  /\ Goto("release")
  /\ UNCHANGED <<namespace, source, referents, seenTarget, space, changes, faults>>

\* DeleteIfExists: a copy that existed is looked at again.  It vanishes at once,
\* or stays for a while if others hold finalizers on it.
DeleteTarget ==
  /\ pc = "delete"
  /\ \/ /\ target[cur].space # space
        /\ Goto("release") /\ UNCHANGED <<space, target, tEvents>>
     \/ /\ target[cur].space = space
        /\ target' \in {[target EXCEPT ![cur].life = "deleted"],
                        [target EXCEPT ![cur] = NoTarget]}
        /\ tEvents' = tEvents \cup {cur}
        /\ Retry
  /\ UNCHANGED <<namespace, source, referents, seenTarget, changes, faults>>

RemoveFinalizer ==
  /\ pc = "release"
  /\ \/ Accepts(cur, FALSE) /\ PatchFinalizer(cur, FALSE) /\ DoneOrReplyLost
     \/ ~Accepts(cur, FALSE) /\ Retry /\ UNCHANGED <<source, faults>>
  /\ UNCHANGED <<namespace, referents, targets, changes>>

\* Mutant: an error is logged and swallowed.
FailureSwallowed ==
  /\ pc # "idle"
  /\ Fault
  /\ Done
  /\ UNCHANGED <<namespace, source, referents, targets, changes>>

CallFails ==
  /\ pc # "idle"
  /\ Fault
  /\ Retry
  /\ UNCHANGED <<namespace, source, referents, targets, changes>>

\* After a restart the informers report every object as created.
Restart ==
  /\ Fault
  /\ Finish
  /\ seen' = src
  /\ feed' = [s \in Secrets |-> {}]
  /\ seenRefs' = refs
  /\ rEvents' = {}
  /\ seenTarget' = target
  /\ tEvents' = {}
  /\ queue' = {s \in Secrets : src[s].phase # "absent" \/ target[s] # NoTarget}
  /\ nsEvent' = FALSE
  /\ UNCHANGED <<home, away, gen, src, refs, target, changes>>

(***************************************************************************)
(* The informers and their event handlers.                                 *)
(***************************************************************************)
ObserveSource(s) ==
  \E v \in feed[s] :
    /\ seen' = [seen EXCEPT ![s] = v]
    /\ feed' = [feed EXCEPT ![s] = {w \in @ : w.rv > v.rv}]
    /\ queue' = queue \cup {s}
    /\ UNCHANGED <<namespace, src, referents, targets, worker, changes, faults>>

\* A referent enqueues the Secret of that name in its own Namespace.
ObserveReferents(s) ==
  /\ s \in rEvents
  /\ rEvents' = rEvents \ {s}
  /\ seenRefs' = [seenRefs EXCEPT ![s] = refs[s]]
  /\ queue' = queue \cup {s}
  /\ UNCHANGED <<namespace, source, refs, targets, worker, changes, faults>>

ObserveTarget(s) ==
  /\ s \in tEvents
  /\ tEvents' = tEvents \ {s}
  /\ seenTarget' = [seenTarget EXCEPT ![s] = target[s]]
  /\ queue' = queue \cup {s}
  /\ UNCHANGED <<namespace, source, referents, target, worker, changes, faults>>

\* Mutant: the creation of target Namespaces is not watched.
SpaceUnwatched ==
  /\ nsEvent
  /\ nsEvent' = FALSE
  /\ UNCHANGED <<home, away, gen, source, referents, targets, queue, worker, changes, faults>>

\* WatchTargetNamespaceCreated: the creation of the target Namespace, and no
\* other event of it, enqueues the Secrets of Home that the cache lists.
ObserveSpaceCreated ==
  /\ nsEvent
  /\ nsEvent' = FALSE
  /\ queue' = queue \cup {s \in Secrets : seen[s].phase # "absent"}
  /\ UNCHANGED <<home, away, gen, source, referents, targets, worker, changes, faults>>

(***************************************************************************)
(* The source cluster.                                                     *)
(***************************************************************************)
\* Contents are interchangeable, so the first one is given.
CreateSource(s, d) ==
  /\ home[Home] = "live"
  /\ src[s].uid = 0 => d = CHOOSE first \in Data : TRUE
  /\ src[s].phase = "absent"
  /\ src[s].uid < MaxUid /\ src[s].uid + gen < MaxLives
  /\ WriteSource(s, src[s].uid + 1, "live", FALSE, d)
  /\ UNCHANGED <<namespace, referents, targets, queue, worker, changes, faults>>

UpdateSource(s, d) ==
  /\ src[s].phase = "live"
  /\ src[s].data # d
  /\ Change(MaxChanges)
  /\ WriteSource(s, src[s].uid, "live", src[s].fin, d)
  /\ UNCHANGED <<namespace, referents, targets, queue, worker, faults>>

DeleteSource(s) ==
  /\ src[s].phase = "live"
  /\ \/ src[s].fin /\ WriteSource(s, src[s].uid, "terminating", TRUE, src[s].data)
     \/ ~src[s].fin /\ WriteSource(s, src[s].uid, "absent", FALSE, None)
  /\ UNCHANGED <<namespace, referents, targets, queue, worker, changes, faults>>

\* Machines and Volumes that refer to the Secret come and go.
Refer(s, places) ==
  /\ refs[s] # places
  /\ Change(IF refs[s] = {} THEN MaxReturns ELSE MaxChanges)
  /\ refs' = [refs EXCEPT ![s] = places]
  /\ rEvents' = IF "here" \in refs[s] \cup places THEN rEvents \cup {s} ELSE rEvents
  /\ UNCHANGED <<namespace, source, seenRefs, targets, queue, worker, faults>>

(***************************************************************************)
(* The Namespaces, as NamespaceMapping promises.                           *)
(***************************************************************************)
others == <<source, referents, targets, queue, worker, changes, faults>>

HomeIsBorn     == Mapping!Born(Home) /\ UNCHANGED <<gen, nsEvent, others>>
HomeTerminates == Mapping!Terminate(Home) /\ UNCHANGED <<gen, nsEvent, others>>

HomeGoes ==
  /\ \A s \in Secrets : src[s].phase = "absent"
  /\ Mapping!Go(Home)
  /\ UNCHANGED <<gen, nsEvent, others>>

SpaceIsProvided ==
  /\ gen < MaxSpaces /\ \A s \in Secrets : src[s].uid + gen < MaxLives
  /\ Mapping!Provide(Home)
  /\ gen' = gen + 1
  /\ nsEvent' = TRUE
  /\ UNCHANGED others

SpaceIsRetired == Mapping!Retire(Home) /\ UNCHANGED <<gen, nsEvent, others>>

SpaceIsEvicted ==
  /\ Mapping!Evict(Home)
  /\ Fault
  /\ UNCHANGED <<gen, nsEvent, source, referents, targets, queue, worker, changes>>

\* A target Namespace vanishes after everything in it has.
SpaceVanishes ==
  /\ \A s \in Secrets : target[s] = NoTarget
  /\ Mapping!Vanish(Home)
  /\ UNCHANGED <<gen, nsEvent, others>>

(***************************************************************************)
(* The target cluster.                                                     *)
(***************************************************************************)
Meddle(s, t) ==
  /\ target' = [target EXCEPT ![s] = t]
  /\ tEvents' = tEvents \cup {s}
  /\ UNCHANGED <<namespace, source, referents, seenTarget, queue, worker, changes>>

TargetVanishes(s) ==
  /\ \/ target[s].life = "deleted"
     \/ target[s].life = "present" /\ away[Home] \in {"retired", "evicted"}
  /\ Meddle(s, NoTarget)
  /\ UNCHANGED faults

EvictTarget(s)     == target[s].life = "present" /\ Meddle(s, NoTarget) /\ Fault
TamperTarget(s, d) == target[s].life = "present" /\ target[s].data # d
                        /\ Meddle(s, [target[s] EXCEPT !.data = d]) /\ Fault

Work ==
  \/ ListReferents
  \/ FindSpace \/ EnsureFinalizer \/ CreateTarget \/ PatchTarget
  \/ FindSpaceForDelete \/ DeleteTarget \/ RemoveFinalizer

Namespaces ==
  \/ HomeIsBorn \/ HomeTerminates \/ HomeGoes
  \/ SpaceIsProvided \/ SpaceIsRetired \/ SpaceIsEvicted \/ SpaceVanishes

Next ==
  \/ \E s \in Secrets : Begin(s)
  \/ Work \/ CallFails \/ Restart
  \/ \E s \in Secrets : ObserveSource(s) \/ ObserveReferents(s) \/ ObserveTarget(s)
  \/ ObserveSpaceCreated
  \/ \E s \in Secrets, d \in Data :
       CreateSource(s, d) \/ UpdateSource(s, d) \/ TamperTarget(s, d)
  \/ \E s \in Secrets : DeleteSource(s) \/ TargetVanishes(s) \/ EvictTarget(s)
  \/ \E s \in Secrets, places \in SUBSET Places : Refer(s, places)
  \/ Namespaces

Spec == Init /\ [][Next]_vars

(***************************************************************************)
(* Fairness: the worker runs, the queue is first in, first out, the        *)
(* informers deliver (some event, while there is one: less than each of    *)
(* them does), and what was deleted goes.  The Namespaces owe nothing but  *)
(* the deletion of their content.                                          *)
(***************************************************************************)
Fairness ==
  /\ \A s \in Secrets : SF_vars(Begin(s))
  /\ WF_vars(Work)
  /\ WF_vars(\/ ObserveSpaceCreated
             \/ \E s \in Secrets : ObserveSource(s) \/ ObserveReferents(s) \/ ObserveTarget(s))
  /\ \A s \in Secrets :
       /\ WF_vars(TargetVanishes(s))
       /\ WF_vars(home[Home] = "terminating" /\ DeleteSource(s))

FairSpec == Spec /\ Fairness

(***************************************************************************)
(* Properties.                                                             *)
(***************************************************************************)
\* The finalizer is taken from a Secret only when no copy of it is left, in
\* whatever target Namespace, however stale the object is that
\* secret_controller.go's delete works with ("Target gone, removing finalizer").
ReleasedLast == [][\A s \in Secrets :
  src[s].fin /\ ~src'[s].fin => target[s] = NoTarget]_vars

\* A pass with a stale copy may leave a copy of an incarnation that has no
\* finalizer to keep it until the copy is gone.  The controller of a later
\* incarnation takes it for somebody else's, and every pass ends with an error.
LeftOver(s) == target[s].life # "absent" /\ target[s].uid # src[s].uid

\* A Secret that stays referenced has an up-to-date copy in the end, after
\* failed calls, lost replies, stale reads on both sides, a target Namespace
\* that comes late or is replaced, and copies deleted or altered by others,
\* unless the copy of an earlier incarnation was left over and stays.
SyncedInTheEnd == \A s \in Secrets :
  <>[](src[s].phase = "live" /\ "here" \in refs[s] /\ away[Home] = "present") =>
    \/ <>[](/\ target[s].life = "present"
            /\ target[s].uid = src[s].uid
            /\ target[s].data = src[s].data)
    \/ <>[](LeftOver(s))


\* A Secret that was deleted goes in the end if the target Namespace is there to
\* be found.
DeletedGoes == \A s \in Secrets :
  ~<>[](away[Home] = "present" /\ src[s].phase = "terminating")

\* What the log of delete promises for every deleted Secret: the target gone,
\* the finalizer is removed.
DeletedGoesAlways == \A s \in Secrets :
  src[s].phase = "terminating" ~> src[s].phase # "terminating"
=============================================================================
