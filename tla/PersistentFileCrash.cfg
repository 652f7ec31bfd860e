CONSTANTS
  Files = {main, other}
  Home = main
  UserFiles = {}
  MaxVersion = 2
  MaxFailures = 0
  MaxCrashes = 1
  main = main
  other = other
SPECIFICATION FileSpec
PROPERTIES RestartKeepsSaved
CHECK_DEADLOCK FALSE
