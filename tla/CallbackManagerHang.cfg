CONSTANTS
  ReuseThreshold = 8
  Added = {TRUE}
  Waits = {"forever"}
  Polls = {"forever"}
  MaxAdds = 1
  MaxSends = 1
  MaxPollCancels = 0
SPECIFICATION ManagerFairSpec
PROPERTY StopEndsPoll
CHECK_DEADLOCK FALSE
