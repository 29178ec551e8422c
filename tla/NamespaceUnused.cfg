SPECIFICATION FairSpec
CONSTANTS
  Names = {n1}
  Machines = {m1}
  Volumes = {}
  TargetNames = {t1}
  SameNamed = {}
  MaxUid = 1
  MaxFaults = 0
  Mishaps = {}
  None = None
PROPERTY UnusedLosesFinalizer
CHECK_DEADLOCK FALSE
