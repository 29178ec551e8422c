------------------------- MODULE MCMachineBrokerlet -------------------------
(* Small instances of MachineBrokerlet for TLC: a few kinds at a time. *)
EXTENDS MachineBrokerlet

World(brokered, given, early, goes, may) ==
  [brokered |-> brokered, given |-> given, early |-> early, goes |-> goes, may |-> may]

\* A Machine with what it refers to.
MachineWorlds ==
  {World({"machine", "volume"}, {}, {}, {}, {"run"}),
   World({"machine", "volume"}, {}, {"machine", "volume"}, {"machine"}, {"run", "restart"}),
   World({"machine", "volume"}, {}, {"machine", "volume"}, {"volume"}, {"unlist"}),
   World({"machine"}, {"secret"}, {}, {"machine"}, {"run", "evict", "fail", "lose"}),
   World({"machine", "nic"}, {"network"}, {"network"}, {"machine"}, {}),
   World({"volume"}, {"machine"}, {"machine", "volume"}, {"volume"}, {"lose", "evict"})}

\* NetworkInterfaces with Networks and VirtualIPs.
NetworkWorlds ==
  {World({"nic", "vip"}, {"machine", "network"}, {"machine", "network", "nic"}, {"nic", "vip"}, {}),
   World({"nic", "network"}, {"machine"}, {"machine"}, {}, {"fail"}),
   World({"nic"}, {"machine"}, {"machine", "nic"}, {"nic"}, {"lose"}),
   World({"network"}, {"nic", "machine"}, {"machine", "nic", "network"}, {"machine"}, {"fail"})}

\* An AliasPrefix that is used from the start, or begins to be.
AliasWorlds ==
  {World({"alias"}, {"machine", "nic", "network"}, {"machine", "nic", "network"}, {"alias", "machine"}, {}),
   World({"alias"}, {"machine", "nic"}, {"machine"}, {}, {})}

AllWorlds == MachineWorlds \cup NetworkWorlds \cup AliasWorlds
=============================================================================
