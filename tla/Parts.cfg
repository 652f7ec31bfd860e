CONSTANTS
  HalfRange = 4
  MaxWrites = 9
  Files = {main, other}
  Home = main
  UserFiles = {other}
  MaxVersion = 3
  MaxFailures = 2
  MaxCrashes = 1
  main = main
  other = other
  Server = s
  Clients = {c1, c2}
  Threads = {t}
  KnownFlags = {1, 2}
  Ops = {"set", "clear"}
  MaxCalls = 3
  Tables = {"a", "b", "c"}
  MaxAssigns = 4
  Entries = TRUE
  Direct = TRUE
  Overlap = TRUE
  Throwing = TRUE
  MaxAdds = 3
  MaxRemoves = 2
  MaxSends = 1
  MaxThreads = 2
  Roles = {"server", "client"}
  StopFirst = TRUE
  MaxStarts = 2
  MaxStreams = 2
  MaxLosses = 1
  MaxPeers = 1
SPECIFICATION PartsSpec
INVARIANTS OrderIsWriteOrder SavedIsSomewhere OneCallerDecides NothingElseMissed AddedStays NothingLeftRunning
PROPERTIES NeverBackInWindow RestartFindsLatest NotifierIsLog
CHECK_DEADLOCK FALSE
