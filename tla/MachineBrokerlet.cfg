SPECIFICATION FairSpec
CONSTANTS
  Worlds <- AllWorlds
  Evictable = {"secret", "volume"}
  MaxUid = 2
  MaxFaults = 1
INVARIANT TypeOK
INVARIANT NeverInPart
PROPERTY ReleasedLast
PROPERTY EverythingSynced
PROPERTY ListsFollow
PROPERTY ClaimsFollow
PROPERTY UnusedReleased
PROPERTY DeletedGoes
CHECK_DEADLOCK FALSE
