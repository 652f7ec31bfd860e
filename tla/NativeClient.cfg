CONSTANTS
  Roles = {"client"}
  StopFirst = TRUE
  MaxStarts = 1
  MaxStreams = 3
  MaxLosses = 1
  MaxPeers = 0
  Addresses = {1}
  Ports = {1}
  MaxThreads = 1
  MaxNews = 3
SPECIFICATION ClientSpec
PROPERTIES OverrideFollowsStation StationConnects
CHECK_DEADLOCK FALSE
