--------------------------- MODULE MCVolumeBroker ---------------------------
(* Small instances of VolumeBroker for TLC. *)
EXTENDS VolumeBroker

World(controller, pool, fallback, pulls, may) ==
  [controller |-> controller, pool |-> pool, fallback |-> fallback, pull |-> pulls, may |-> may]

VolumeWorlds ==
  {World("volumebrokerlet", "ours", FALSE, FALSE, {"report", may}) : may \in {"fail", "restart", "tamper"}}
  \cup
  {World("volumebrokerlet", "ours", FALSE, FALSE, {"report", "resize"}),
   World("volumebrokerlet", "ours", FALSE, TRUE, {"delete", "lose", "evict", "resize"}),
   World("volumebrokerlet", "none", FALSE, FALSE, {"assign", "delete", "fail"}),
   World("partitionlet", "ours", FALSE, FALSE, {"report", "delete"}),
   World("partitionlet", "ours", FALSE, FALSE, {"report", "tamper"}),
   World("partitionlet", "none", TRUE, FALSE, {"assign", "claim", "delete"}),
   World("partitionlet", "theirs", TRUE, FALSE, {"claim", "fail", "delete"}),
   World("partitionlet", "theirs", FALSE, FALSE, {"claim", "delete"})}
=============================================================================
