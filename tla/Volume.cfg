SPECIFICATION FairSpec
CONSTANTS
  Worlds <- VolumeWorlds
  MaxSecrets = 4
  MaxVersion = 2
  MaxChanges = 2
  MaxFaults = 2
INVARIANT TypeOK
INVARIANT OneAccessSecret
INVARIANT NoOrphan
PROPERTY StatusFollows
PROPERTY AccessFollows
PROPERTY DeletedGoes
PROPERTY UnusedReleased
CHECK_DEADLOCK FALSE
