SPECIFICATION FairSpec
CONSTANTS
  Home = home
  Secrets = {s1}
  Data = {d1, d2}
  Places = {"here"}
  MaxUid = 2
  MaxSpaces = 2
  MaxLives = 3
  MaxChanges = 1
  MaxReturns = 2
  MaxFaults = 1
  MaxTurns = 2
  None = None
INVARIANT TypeOK
PROPERTY ReleasedLast
PROPERTY SyncedInTheEnd
 
PROPERTY DeletedGoes
CHECK_DEADLOCK FALSE
