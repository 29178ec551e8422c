------------------------- MODULE NamespaceInvariant -------------------------
(***************************************************************************)
(* Why no target Namespace is orphaned: the inductive invariant behind     *)
(* NoOrphan, AtMostOneTarget and DeletesOnlyWithSource of NamespaceBroker, *)
(* when Mishaps is empty: no Create is served after its caller gave up and *)
(* nobody but the brokerlet takes its finalizer away.                      *)
(*                                                                         *)
(* The first part relates the versions of one source Namespace: s is the   *)
(* one the API server has, c the one in the cache, F those the informer    *)
(* has not delivered yet, and h the oldest one that the reconciler may     *)
(* still act on.                                                           *)
(***************************************************************************)
EXTENDS NamespaceBroker

Views(F, c, h) == F \cup {c, h}

\* A version that shows incarnation u terminating, or a later state.
Passed(v, u) == v.uid > u \/ (v.uid = u /\ v.phase # "live")

\* Neither a deletion nor a recreation is taken back from v to w.
Follows(w, v) == v.uid < w.uid \/ (v.uid = w.uid /\ (v.phase # "live" => w.phase # "live"))

\* Versions appear in the order of their resourceVersion.
Ordered(s, F, c, h) ==
  /\ s \in F \cup {c}
  /\ h.rv <= c.rv
  /\ \A v \in F : c.rv < v.rv /\ v.rv <= s.rv
  /\ \A v \in Views(F, c, h) : v.phase = "absent" => ~v.fin
  /\ \A v, w \in Views(F, c, h) : v.rv = w.rv => v = w
  /\ \A v, w \in Views(F, c, h) : v.rv < w.rv => Follows(w, v)

\* A finalizer somebody sees is still there, unless the reconciler has already
\* acted on the deletion of that incarnation.
FinalizerKept(s, F, c, h) == \A v \in Views(F, c, h) : v.fin =>
  \/ s.uid = v.uid /\ s.fin
  \/ Passed(h, v.uid)

\* While a terminating incarnation with the finalizer is in somebody's view, no
\* later incarnation has the finalizer: a stale removal can do no harm.
StaleRemovalHarmless(F, c, h) == \A v, w \in Views(F, c, h) :
  v.phase = "terminating" /\ v.fin /\ w.uid > v.uid => ~w.fin

Coherent(s, F, c, h) ==
  Ordered(s, F, c, h) /\ FinalizerKept(s, F, c, h) /\ StaleRemovalHarmless(F, c, h)

(***************************************************************************)
(* The second part is about the state.                                     *)
(***************************************************************************)
\* The reconciler holds its copy of n while it processes n, and will read the
\* version in the cache otherwise.
held == [n \in Names |-> IF cur = n THEN copy ELSE seen[n]]

VersionInv == \A n \in Names : Coherent(src[n], feed[n], seen[n], held[n])

\* Target Namespaces are made for incarnations the reconciler has read.
TargetsSeen == \A t \in TargetNames : target[t] # NoTarget =>
  target[t].uid <= held[target[t].name].uid

\* What the worker knows at each call.
WorkerInv ==
  /\ pc = "idle" => cur = None
  /\ pc \in ReconcileSteps => copy.phase = "live"
  /\ pc \in DeleteSteps => copy.phase = "terminating" /\ copy.fin
  /\ pc = "create" => copy.fin
  /\ pc \in {"refs", "unbroker", "ensure", "create", "release"} =>
       Matching(cur, copy.uid) = {}
  /\ pc = "ddelete" => Matching(cur, copy.uid) = {t \in {found} : target[t] # NoTarget}

IInv ==
  /\ TypeOK
  /\ late = {}
  /\ VersionInv
  /\ TargetsSeen
  /\ WorkerInv
  /\ AtMostOneTarget
  /\ NoOrphan
=============================================================================
