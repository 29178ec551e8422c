SPECIFICATION FairSpec
CONSTANTS
  Worlds <- PlainWorlds
  Objects = {o1, o2}
  TargetPools = {t1}
  Classes = {c1}
  MaxCapacity = 0
  MaxChanges = 0
  MaxFaults = 0
PROPERTY PoolDrained
CHECK_DEADLOCK FALSE
