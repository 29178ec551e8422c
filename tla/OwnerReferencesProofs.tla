------------------------ MODULE OwnerReferencesProofs ------------------------
(***************************************************************************)
(* Proofs about OwnerReferences for any owners and UIDs.                   *)
(*                                                                         *)
(* OneEntryPerOwner is inductive: it makes the entry IndexOf finds the     *)
(* only one of its owner.  OneController rests on it, and so does          *)
(* OthersKept.                                                             *)
(***************************************************************************)
EXTENDS OwnerReferences, TLAPS

Unique(list) ==
  /\ list \in Seq(Reference)
  /\ \A i, j \in 1..Len(list) : SameObject(list[i], list[j]) => i = j

Single(list) == \A i, j \in 1..Len(list) :
  list[i].controller /\ list[j].controller => i = j

\* IndexOf is 0 if no entry is the owner's, else the position of one that is.
LEMMA IndexFinds ==
  ASSUME NEW list, Unique(list), NEW ref \in Reference
  PROVE  LET i == IndexOf(list, ref) IN
         \/ i = 0 /\ \A k \in 1..Len(list) : ~ SameObject(list[k], ref)
         \/ i \in 1..Len(list) /\ SameObject(list[i], ref)
<1> DEFINE at == {i \in 1..Len(list) : SameObject(list[i], ref)}
<1>1. CASE at = {}
  BY <1>1 DEF IndexOf
<1>2. CASE at # {}
  <2>1. PICK k \in at : TRUE
    BY <1>2
  <2>2. \A j \in at : k = j
    BY <2>1 DEF Unique, SameObject
  <2>3. \E i \in at : \A j \in at : i <= j
    BY <2>1, <2>2
  <2>4. IndexOf(list, ref) = CHOOSE i \in at : \A j \in at : i <= j
    BY <1>2 DEF IndexOf
  <2>5. IndexOf(list, ref) \in at
    BY <2>3, <2>4
  <2> QED BY <2>5
<1> QED BY <1>1, <1>2

\* To upsert keeps one entry per owner and the entries of other owners.
LEMMA UpsertKeeps ==
  ASSUME NEW list, Unique(list), NEW ref \in Reference
  PROVE  /\ Unique(Upsert(list, ref))
         /\ EntriesBut(Upsert(list, ref), ref.owner) = EntriesBut(list, ref.owner)
<1> DEFINE i == IndexOf(list, ref)
           l == Upsert(list, ref)
<1>t. list \in Seq(Reference) /\ Len(list) \in Nat
  BY DEF Unique
<1>1. CASE i = 0
  <2>1. l = Append(list, ref)
    BY <1>1 DEF Upsert
  <2>2. /\ l \in Seq(Reference) /\ Len(l) = Len(list) + 1
        /\ \A k \in 1..Len(list) : l[k] = list[k]
        /\ l[Len(list) + 1] = ref
    BY <1>t, <2>1
  <2>3. \A k \in 1..Len(list) : ~ SameObject(list[k], ref)
    BY <1>1, IndexFinds
  <2>4. Unique(l)
    BY <1>t, <2>2, <2>3 DEF Unique, SameObject
  <2>5. EntriesBut(l, ref.owner) = EntriesBut(list, ref.owner)
    BY <1>t, <2>2, <2>3 DEF EntriesBut, SameObject
  <2> QED BY <2>4, <2>5
<1>2. CASE i # 0
  <2>1. i \in 1..Len(list) /\ SameObject(list[i], ref)
    BY <1>2, IndexFinds
  <2>2. l = [list EXCEPT ![i] = ref]
    BY <1>2 DEF Upsert
  <2>3. /\ l \in Seq(Reference) /\ Len(l) = Len(list)
        /\ \A k \in 1..Len(list) : l[k] = IF k = i THEN ref ELSE list[k]
    BY <1>t, <2>1, <2>2
  <2>4. Unique(l)
    BY <1>t, <2>1, <2>3 DEF Unique, SameObject
  <2>5. EntriesBut(l, ref.owner) = EntriesBut(list, ref.owner)
    BY <1>t, <2>1, <2>3 DEF EntriesBut, SameObject
  <2> QED BY <2>4, <2>5
<1> QED BY <1>1, <1>2

\* To remove keeps one entry per owner and the entries of other owners.
LEMMA RemoveKeeps ==
  ASSUME NEW list, Unique(list), NEW ref \in Reference
  PROVE  /\ Unique(Remove(list, ref))
         /\ EntriesBut(Remove(list, ref), ref.owner) = EntriesBut(list, ref.owner)
         /\ Single(list) => Single(Remove(list, ref))
<1> DEFINE i == IndexOf(list, ref)
           n == Len(list)
           l == Remove(list, ref)
<1>t. list \in Seq(Reference) /\ n \in Nat /\ \A k \in 1..n : list[k] \in Reference
  BY DEF Unique
<1>1. CASE i = 0
  BY <1>1 DEF Remove
<1>2. CASE i # 0
  <2>1. i \in 1..n /\ SameObject(list[i], ref)
    BY <1>2, IndexFinds
  <2>2. l = [k \in 1..(n - 1) |-> IF k = i THEN list[n] ELSE list[k]]
    BY <1>2 DEF Remove
  <2>3. l \in Seq(Reference) /\ Len(l) = n - 1
    BY <1>t, <2>1, <2>2
  <2>4. \A k \in 1..(n - 1) : l[k] = IF k = i THEN list[n] ELSE list[k]
    BY <2>2
  <2>5. Unique(l)
    <3> SUFFICES ASSUME NEW a \in 1..(n - 1), NEW b \in 1..(n - 1), SameObject(l[a], l[b])
                 PROVE  a = b
      BY <2>3 DEF Unique
    <3>1. a \in 1..n /\ b \in 1..n /\ n \in 1..n /\ a # n /\ b # n
      BY <1>t
    <3> QED BY <2>4, <3>1 DEF Unique
  <2>6. EntriesBut(l, ref.owner) \subseteq EntriesBut(list, ref.owner)
    <3> SUFFICES ASSUME NEW a \in 1..(n - 1), l[a].owner # ref.owner
                 PROVE  l[a] \in EntriesBut(list, ref.owner)
      BY <2>3 DEF EntriesBut
    <3>1. \E k \in 1..n : l[a] = list[k]
      BY <1>t, <2>4
    <3> QED BY <3>1 DEF EntriesBut
  <2>7. EntriesBut(list, ref.owner) \subseteq EntriesBut(l, ref.owner)
    <3> SUFFICES ASSUME NEW a \in 1..n, list[a].owner # ref.owner
                 PROVE  list[a] \in EntriesBut(l, ref.owner)
      BY DEF EntriesBut
    <3>1. a # i
      BY <2>1 DEF SameObject
    <3>2. \E k \in 1..(n - 1) : l[k] = list[a]
      <4>1. CASE a = n
        BY <1>t, <2>1, <2>4, <3>1, <4>1
      <4>2. CASE a # n
        BY <1>t, <2>4, <3>1, <4>2
      <4> QED BY <4>1, <4>2
    <3> QED BY <2>3, <3>2 DEF EntriesBut
  <2>8. ASSUME Single(list) PROVE Single(l)
    <3> SUFFICES ASSUME NEW a \in 1..(n - 1), NEW b \in 1..(n - 1),
                        l[a].controller, l[b].controller
                 PROVE  a = b
      BY <2>3 DEF Single
    <3>1. a \in 1..n /\ b \in 1..n /\ n \in 1..n /\ a # n /\ b # n
      BY <1>t
    <3> QED BY <2>4, <2>8, <3>1 DEF Single
  <2> QED BY <2>5, <2>6, <2>7, <2>8
<1> QED BY <1>1, <1>2

\* To upsert a reference that is no controller adds none; one that is a controller
\* may be upserted while no other owner's entry is.
LEMMA UpsertSingle ==
  ASSUME NEW list, Unique(list), Single(list), NEW ref \in Reference,
         ref.controller => \A c \in ControllerOf(list) : c.owner = ref.owner
  PROVE  Single(Upsert(list, ref))
<1> DEFINE i == IndexOf(list, ref)
           l == Upsert(list, ref)
<1>t. list \in Seq(Reference) /\ Len(list) \in Nat
  BY DEF Unique
<1>c. ASSUME ref.controller, NEW k \in 1..Len(list), list[k].controller
      PROVE  SameObject(list[k], ref)
  <2> DEFINE controllers == {d \in 1..Len(list) : list[d].controller}
  <2>1. k \in {c \in controllers : \A d \in controllers : c <= d}
    BY <1>t, <1>c DEF Single
  <2>2. list[k] \in ControllerOf(list)
    BY <2>1 DEF ControllerOf
  <2> QED BY <1>c, <2>2 DEF SameObject
<1>1. CASE i = 0
  <2>1. l = Append(list, ref)
    BY <1>1 DEF Upsert
  <2>2. /\ Len(l) = Len(list) + 1
        /\ \A k \in 1..Len(list) : l[k] = list[k]
        /\ l[Len(list) + 1] = ref
    BY <1>t, <2>1
  <2>3. \A k \in 1..Len(list) : ~ SameObject(list[k], ref)
    BY <1>1, IndexFinds
  <2> QED BY <1>t, <1>c, <2>2, <2>3 DEF Single
<1>2. CASE i # 0
  <2>1. i \in 1..Len(list) /\ SameObject(list[i], ref)
    BY <1>2, IndexFinds
  <2>2. l = [list EXCEPT ![i] = ref]
    BY <1>2 DEF Upsert
  <2>3. /\ Len(l) = Len(list)
        /\ \A k \in 1..Len(list) : l[k] = IF k = i THEN ref ELSE list[k]
    BY <1>t, <2>1, <2>2
  <2>4. ASSUME ref.controller, NEW k \in 1..Len(list), list[k].controller PROVE k = i
    BY <1>c, <2>1, <2>4 DEF Unique, SameObject
  <2> QED BY <1>t, <2>3, <2>4 DEF Single
<1> QED BY <1>1, <1>2

\* What every step does, in the terms of the lemmas.
LEMMA StepKeeps ==
  ASSUME Unique(owners), Single(owners), NEW o \in Owners, NEW u \in Uids,
         SetOwnerReference(o, u) \/ SetControllerReference(o, u) \/ RemoveOwnerReference(o, u)
  PROVE  /\ Unique(owners') /\ Single(owners')
         /\ EntriesBut(owners', o) = EntriesBut(owners, o)
<1> DEFINE plain == [owner |-> o, uid |-> u, controller |-> FALSE]
           control == [owner |-> o, uid |-> u, controller |-> TRUE]
<1>t. /\ plain \in Reference /\ control \in Reference
      /\ plain.owner = o /\ control.owner = o
      /\ ~ plain.controller /\ control.controller
  BY DEF Reference
<1> HIDE DEF plain, control
<1>1. CASE SetOwnerReference(o, u)
  <2>1. owners' = Upsert(owners, plain)
    BY <1>1 DEF SetOwnerReference, plain
  <2> QED BY <1>t, <2>1, UpsertKeeps, UpsertSingle
<1>2. CASE SetControllerReference(o, u)
  <2>1. owners' = Upsert(owners, control) /\ \A c \in ControllerOf(owners) : c.owner = o
    BY <1>2 DEF SetControllerReference, control
  <2> QED BY <1>t, <2>1, UpsertKeeps, UpsertSingle
<1>3. CASE RemoveOwnerReference(o, u)
  <2>1. owners' = Remove(owners, plain)
    BY <1>3 DEF RemoveOwnerReference, plain
  <2> QED BY <1>t, <2>1, RemoveKeeps
<1> QED BY <1>1, <1>2, <1>3

IInv == Unique(owners) /\ Single(owners)

LEMMA Inductive == Spec => []IInv
<1>1. Init => IInv
  BY DEF Init, IInv, Unique, Single
<1>2. IInv /\ [Next]_owners => IInv'
  BY StepKeeps DEF Next, IInv
<1> QED BY <1>1, <1>2, PTL DEF Spec

\* The list never has two entries of one owner.
THEOREM OneEntryPerOwnerHolds == Spec => []OneEntryPerOwner
<1>1. IInv => OneEntryPerOwner
  BY DEF IInv, Unique, OneEntryPerOwner
<1> QED BY <1>1, Inductive, PTL

\* The list never has two controllers.
THEOREM OneControllerHolds == Spec => []OneController
<1>1. IInv => OneController
  BY DEF IInv, Single, OneController
<1> QED BY <1>1, Inductive, PTL

\* No step touches the entries of owners it is not about.
THEOREM OthersKeptHolds == Spec => OthersKept
<1>1. IInv /\ [Next]_owners =>
        [\A o \in Owners, u \in Uids :
          SetOwnerReference(o, u) \/ SetControllerReference(o, u) \/ RemoveOwnerReference(o, u)
            => EntriesBut(owners', o) = EntriesBut(owners, o)]_owners
  BY StepKeeps DEF IInv
<1> QED BY <1>1, Inductive, PTL DEF Spec, OthersKept
==============================================================================
