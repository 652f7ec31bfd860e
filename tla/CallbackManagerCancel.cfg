CONSTANTS
  ReuseThreshold = 8
  Added = {TRUE}
  Waits = {}
  Polls = {"forever"}
  MaxAdds = 1
  MaxSends = 1
  MaxPollCancels = 1
SPECIFICATION ManagerSpec
INVARIANT EmptyPollHasCause
CHECK_DEADLOCK FALSE
