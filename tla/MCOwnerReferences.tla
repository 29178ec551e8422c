-------------------------- MODULE MCOwnerReferences --------------------------
(* A small instance of OwnerReferences for TLC. *)
EXTENDS OwnerReferences
==============================================================================
