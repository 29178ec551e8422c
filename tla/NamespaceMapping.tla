-------------------------- MODULE NamespaceMapping --------------------------
(***************************************************************************)
(* What brokering of Namespaces promises, without saying how: the mapping  *)
(* between a source Namespace and its target Namespace that                *)
(* docs/concepts/broker-namespace.md asks for.                             *)
(*                                                                         *)
(* A source Namespace (one incarnation, known by its UID) is born, lives,  *)
(* terminates and is gone.  Its target Namespace is provided only while    *)
(* the source Namespace exists, is one and the same until it is gone, and  *)
(* is retired by the brokerlet only once the source Namespace terminates.  *)
(* The source Namespace is gone only when the target Namespace is.         *)
(***************************************************************************)
EXTENDS Naturals

CONSTANT Sources           \* the incarnations of all source Namespaces

VARIABLES source,          \* the stage of life of each
          mapped           \* the state of its target Namespace

mapping == <<source, mapped>>

MappingTypeOK ==
  /\ source \in [Sources -> {"unborn", "live", "terminating", "gone"}]
  /\ mapped \in [Sources -> {"absent", "present", "retired", "evicted"}]

MappingInit ==
  /\ source = [s \in Sources |-> "unborn"]
  /\ mapped = [s \in Sources |-> "absent"]

Live(s, from, to) ==
  /\ source[s] = from
  /\ source' = [source EXCEPT ![s] = to]
  /\ UNCHANGED mapped

Turn(s, from, to) ==
  /\ mapped[s] \in from
  /\ mapped' = [mapped EXCEPT ![s] = to]
  /\ UNCHANGED source

Born(s)      == Live(s, "unborn", "live")
Terminate(s) == Live(s, "live", "terminating")
Go(s)        == mapped[s] = "absent" /\ Live(s, "terminating", "gone")

\* A stale copy may make the brokerlet provide for a source Namespace that has
\* begun to terminate; it must not do so for one that is gone.
Provide(s) ==
  /\ source[s] \in {"live", "terminating"}
  /\ Turn(s, {"absent"}, "present")

Retire(s) ==
  /\ source[s] = "terminating"
  /\ Turn(s, {"present"}, "retired")

\* Somebody else may delete a target Namespace at any time.
Evict(s)  == Turn(s, {"present"}, "evicted")

Vanish(s) == Turn(s, {"retired", "evicted"}, "absent")

MappingNext == \E s \in Sources :
  \/ Born(s) \/ Terminate(s) \/ Go(s)
  \/ Provide(s) \/ Retire(s) \/ Evict(s) \/ Vanish(s)

MappingSpec == MappingInit /\ [][MappingNext]_mapping
=============================================================================
