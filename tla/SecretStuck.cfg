SPECIFICATION FairSpec
CONSTANTS
  Home = home
  Secrets = {s1}
  Data = {d1}
  Places = {"here", "elsewhere"}
  MaxUid = 1
  MaxSpaces = 1
  MaxLives = 2
  MaxChanges = 1
  MaxReturns = 1
  MaxFaults = 0
  MaxTurns = 1
  None = None
PROPERTY DeletedGoesAlways
CHECK_DEADLOCK FALSE
