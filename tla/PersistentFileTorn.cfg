CONSTANTS
  Files = {main, other}
  Home = main
  UserFiles = {main}
  MaxVersion = 1
  MaxFailures = 1
  MaxCrashes = 0
  main = main
  other = other
SPECIFICATION FileSpec
INVARIANTS FileIsWhole
CHECK_DEADLOCK FALSE
