CONSTANTS
  Server = s
  Clients = {c1}
  Threads = {t1, t2}
  KnownFlags = {1, 2}
  Ops = {"set"}
  MaxCalls = 2
SPECIFICATION FlagsSpec
PROPERTIES NoFlagLost
CHECK_DEADLOCK FALSE
