CONSTANTS
  Callers = {0, 1}
  Kinds = {TRUE, FALSE}
  Getters = {g1}
  Posters = {p1}
  UidCount = 2
  MaxCalls = 2
  MaxLosses = 1
  MaxStarts = 1
  MaxCancels = 1
  ReuseThreshold = 8
  Added = {FALSE}
  Waits = {"timed", "forever"}
  Polls = {}
  MaxAdds = 2
  MaxSends = 2
  MaxPollCancels = 0
SPECIFICATION CallsSpec
INVARIANTS ResultIsOwn BlockingIsWaited WaitMeansDelivered
PROPERTIES CallIsAnswered WaiterReturns PollerReturns IsNotificationLog
CHECK_DEADLOCK FALSE
