CONSTANTS
  Roles = {"server", "client"}
  StopFirst = TRUE
  MaxStarts = 1
  MaxStreams = 1
  MaxLosses = 0
  MaxPeers = 0
SPECIFICATION Spec
INVARIANT StoppedModeIsNone
CHECK_DEADLOCK FALSE
