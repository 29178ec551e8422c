SPECIFICATION FairSpec
CONSTANTS
  Worlds <- ProxyWorlds
  Volumes = {v1, v2}
  Other = other
  None = None
  MaxChanges = 2
  MaxFaults = 1
INVARIANT TypeOK
INVARIANT NeverForgotten
PROPERTY Recorded
PROPERTY StatusFollows
PROPERTY DeletedGoes
CHECK_DEADLOCK FALSE
