SPECIFICATION Spec
CONSTANTS
  Names = {n1}
  Machines = {m1}
  Volumes = {v1}
  TargetNames = {t1, t2}
  SameNamed = {}
  MaxUid = 2
  MaxFaults = 2
  Mishaps = {}
  None = None
SYMMETRY TargetSymmetry
INVARIANT TypeOK
INVARIANT AtMostOneTarget
INVARIANT NoOrphan
PROPERTY ImplementsMapping
CHECK_DEADLOCK FALSE
