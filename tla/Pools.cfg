SPECIFICATION FairSpec
CONSTANTS
  Worlds <- PoolWorlds
  Objects = {o1, o2}
  TargetPools = {t1, t2}
  Classes = {c1}
  MaxCapacity = 1
  MaxChanges = 4
  MaxFaults = 1
INVARIANT TypeOK
INVARIANT NothingLeft
PROPERTY StatusFollows
PROPERTY PoolGoes
CHECK_DEADLOCK FALSE
