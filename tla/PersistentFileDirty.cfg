CONSTANTS
  Files = {main, other}
  Home = main
  UserFiles = {other}
  MaxVersion = 1
  MaxFailures = 0
  MaxCrashes = 0
  main = main
  other = other
SPECIFICATION FairFileSpec
PROPERTIES ChangeIsSaved
CHECK_DEADLOCK FALSE
