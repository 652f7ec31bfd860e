CONSTANTS
  Callers = {1}
  Kinds = {TRUE}
  Getters = {}
  Posters = {p1, p2}
  UidCount = 2
  MaxCalls = 1
  MaxLosses = 0
  MaxStarts = 0
  MaxCancels = 0
SPECIFICATION Spec
INVARIANTS AnsweredOnce
CHECK_DEADLOCK FALSE
