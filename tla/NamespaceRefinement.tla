------------------------ MODULE NamespaceRefinement ------------------------
(***************************************************************************)
(* The Namespace reconciler implements the mapping of NamespaceMapping.    *)
(* An incarnation u of name n is gone once the API server has a later one  *)
(* or none; the state of its target Namespace is that of the one target    *)
(* Namespace with its UID label.                                           *)
(***************************************************************************)
EXTENDS NamespaceBroker

Incarnations == Names \X (1..MaxUid)

SourceOf(n, u) ==
  IF src[n].uid < u THEN "unborn"
  ELSE IF src[n].uid = u /\ src[n].phase # "absent" THEN src[n].phase
  ELSE "gone"

MappedOf(n, u) ==
  IF Matching(n, u) = {} THEN "absent"
  ELSE LET life == target[CHOOSE t \in Matching(n, u) : TRUE].life
       IN  IF life = "deleted" THEN "retired" ELSE life

sourceBar == [s \in Incarnations |-> SourceOf(s[1], s[2])]
mappedBar == [s \in Incarnations |-> MappedOf(s[1], s[2])]

Mapping == INSTANCE NamespaceMapping
             WITH Sources <- Incarnations, source <- sourceBar, mapped <- mappedBar

\* Every step of the reconciler, of the informers and of the two clusters
\* (namespace_controller.go with everything around it) is a step of the
\* mapping or leaves it as it is.
ImplementsMapping == Mapping!MappingSpec
=============================================================================
