------------------------- MODULE MCNamespaceBroker -------------------------
(* Small instances of NamespaceBroker for TLC. *)
EXTENDS NamespaceRefinement, NamespaceInvariant, TLC

TargetSymmetry == Permutations(TargetNames)
=============================================================================
