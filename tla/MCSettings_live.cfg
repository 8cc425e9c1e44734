SPECIFICATION FairSpec
CONSTANTS
  Configs = {"old", "new"}
  MaxOutside = 1
  MaxPolls = 2
  MaxSaves = 1
PROPERTIES SaveEnds WorkIsDone
CHECK_DEADLOCK FALSE
