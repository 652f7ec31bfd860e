CONSTANTS
  Roles = {TRUE, FALSE}
  MaxStarts = 1
  MaxStreams = 3
  MaxAccepts = 2
  MaxLosses = 2
SPECIFICATION FairSpec
INVARIANT NothingLost
PROPERTIES RefusalIsHeeded StopReturns ClientConnects
CHECK_DEADLOCK FALSE
