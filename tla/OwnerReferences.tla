--------------------------- MODULE OwnerReferences ---------------------------
(***************************************************************************)
(* Owner references across clusters (multicluster/meta/meta.go and         *)
(* multicluster/controllerutil/controllerutil.go): a list in an annotation *)
(* of an object, each entry naming an owner in some cluster.               *)
(*                                                                         *)
(* Two entries are of the same owner if cluster, group, kind, namespace    *)
(* and name agree, which is one value of Owners here.  The UID does not    *)
(* count: the entry of a recreated owner takes the place of the old one.   *)
(***************************************************************************)
EXTENDS Naturals, Sequences

CONSTANTS Owners, Uids

Reference == [owner : Owners, uid : Uids, controller : BOOLEAN]

SameObject(a, b) == a.owner = b.owner

\* Mutant: an entry counts as the owner's only if the UID is the same.
IndexOfUid(list, ref) ==
  LET at == {i \in 1..Len(list) : SameObject(list[i], ref) /\ list[i].uid = ref.uid}
  IN  IF at = {} THEN 0 ELSE CHOOSE i \in at : \A j \in at : i <= j

\* The position of the first entry of the same owner, 0 for none.
IndexOf(list, ref) ==
  LET at == {i \in 1..Len(list) : SameObject(list[i], ref)}
  IN  IF at = {} THEN 0 ELSE CHOOSE i \in at : \A j \in at : i <= j

Upsert(list, ref) ==
  LET i == IndexOf(list, ref)
  IN  IF i = 0 THEN Append(list, ref) ELSE [list EXCEPT ![i] = ref]

\* Mutant: the last entry is cut off without taking the place of the other.
RemoveLast(list, ref) ==
  IF IndexOf(list, ref) = 0 THEN list ELSE SubSeq(list, 1, Len(list) - 1)

\* The last entry takes the place of the one removed.
Remove(list, ref) ==
  LET i == IndexOf(list, ref)
  IN  IF i = 0 THEN list
      ELSE [j \in 1..(Len(list) - 1) |-> IF j = i THEN list[Len(list)] ELSE list[j]]

\* GetControllerOf: the first entry that is a controller, as a set of at most one.
ControllerOf(list) ==
  LET controllers == {i \in 1..Len(list) : list[i].controller}
  IN  {list[i] : i \in {c \in controllers : \A d \in controllers : c <= d}}

(***************************************************************************)
(* An object whose owner references are changed in any order.              *)
(***************************************************************************)
VARIABLE owners

Init == owners = <<>>

SetOwnerReference(o, u) ==
  owners' = Upsert(owners, [owner |-> o, uid |-> u, controller |-> FALSE])

\* Mutant: a controller is not refused.
TakeOverControl(o, u) ==
  owners' = Upsert(owners, [owner |-> o, uid |-> u, controller |-> TRUE])

\* Refused while another object is the controller.
SetControllerReference(o, u) ==
  /\ \A c \in ControllerOf(owners) : c.owner = o
  /\ owners' = Upsert(owners, [owner |-> o, uid |-> u, controller |-> TRUE])

RemoveOwnerReference(o, u) ==
  owners' = Remove(owners, [owner |-> o, uid |-> u, controller |-> FALSE])

Next == \E o \in Owners, u \in Uids :
  SetOwnerReference(o, u) \/ SetControllerReference(o, u) \/ RemoveOwnerReference(o, u)

Spec == Init /\ [][Next]_owners

\* Whatever is set and removed, in whatever order, with whatever UIDs of owners
\* that were recreated, the list is one of references with one entry per owner:
\* the search of controllerutil.go stops at the first.
OneEntryPerOwner ==
  /\ owners \in Seq(Reference)
  /\ \A i, j \in 1..Len(owners) : SameObject(owners[i], owners[j]) => i = j

\* There is at most one controller, though setting and removing other references
\* moves entries about.
OneController == \A i, j \in 1..Len(owners) :
  owners[i].controller /\ owners[j].controller => i = j

\* The entries of all owners but one.
EntriesBut(list, o) == {list[i] : i \in {k \in 1..Len(list) : list[k].owner # o}}

\* To set or remove the reference of one owner keeps those of all others: the swap
\* with the last entry loses none, also if the entry removed is the last itself.
OthersKept == [][\A o \in Owners, u \in Uids :
  SetOwnerReference(o, u) \/ SetControllerReference(o, u) \/ RemoveOwnerReference(o, u)
    => EntriesBut(owners', o) = EntriesBut(owners, o)]_owners
==============================================================================
