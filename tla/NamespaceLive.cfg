SPECIFICATION FairSpec
CONSTANTS
  Names = {n1}
  Machines = {m1}
  Volumes = {}
  TargetNames = {t1, t2}
  SameNamed = {n1}
  MaxUid = 2
  MaxFaults = 2
  Mishaps = {"late", "strip"}
  None = None
PROPERTY DeletesOnlyWithSource
PROPERTY FinalizerRestored
PROPERTY UsedGetsTarget
PROPERTY TerminatingVanishes
CHECK_DEADLOCK FALSE
