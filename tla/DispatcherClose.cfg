CONSTANTS
  Roles = {TRUE}
  MaxStarts = 1
  MaxStreams = 2
  MaxAccepts = 2
  MaxLosses = 1
SPECIFICATION Spec
PROPERTIES StopClosesAll
CHECK_DEADLOCK FALSE
