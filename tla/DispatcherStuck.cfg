CONSTANTS
  Roles = {FALSE}
  MaxStarts = 1
  MaxStreams = 2
  MaxAccepts = 2
  MaxLosses = 1
SPECIFICATION FairSpec
PROPERTIES DisconnectEnds
CHECK_DEADLOCK FALSE
