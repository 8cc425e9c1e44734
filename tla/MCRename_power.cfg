SPECIFICATION Spec
CONSTANTS
  Objs = {f, g}
  NoObj = NoObj
  Volumes <- ExclusiveVolumes
  Crashes = {"power"}
  MaxOps = 3
  MaxVer = 0
  MaxEnv = 1
  MaxFaults = 0
  MaxCrashes = 2
INVARIANTS RecordedIsPlaced
PROPERTIES ImplementsLog
CHECK_DEADLOCK FALSE
