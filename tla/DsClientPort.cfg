CONSTANTS
  Addresses = {1, 2}
  Ports = {1, 2}
  Detaches = FALSE
  MaxThreads = 1
  MaxNews = 2
SPECIFICATION Spec
PROPERTIES OverrideHasAskedPort
CHECK_DEADLOCK FALSE
