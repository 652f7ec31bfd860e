CONSTANTS
  Addresses = {1}
  Ports = {1}
  Detaches = FALSE
  MaxThreads = 1
  MaxNews = 2
SPECIFICATION Spec
INVARIANTS StopClosesALiveStream
CHECK_DEADLOCK FALSE
