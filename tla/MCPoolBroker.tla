---------------------------- MODULE MCPoolBroker ----------------------------
(* Small instances of PoolBroker for TLC. *)
EXTENDS PoolBroker

\* The life of the pool and its objects, and the target pools, apart.
PoolWorlds ==
  {{"finalizer", "assign", "delete", "fail"}, {"finalizer", "assign", "delete", "restart"},
   {"offer", "fail"}, {"offer", "restart"}}

\* No finalizer, as the code leaves it.
PlainWorlds == {{"assign", "delete"}}
=============================================================================
