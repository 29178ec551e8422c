SPECIFICATION FairSpec
CONSTANTS
  Worlds <- AliasWorlds
  Evictable = {"secret", "volume"}
  MaxUid = 2
  MaxFaults = 1
PROPERTY RoutingFollows
CHECK_DEADLOCK FALSE
