CONSTANTS
  Entries = TRUE
  Direct = FALSE
  Overlap = FALSE
  Throwing = FALSE
  MaxAdds = 1
  MaxRemoves = 1
  MaxSends = 1
  MaxThreads = 1
SPECIFICATION NotifierSpec
INVARIANTS RemovedIsSilent
CHECK_DEADLOCK FALSE
