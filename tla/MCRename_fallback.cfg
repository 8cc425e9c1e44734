SPECIFICATION FairSpec
CONSTANTS
  Objs = {f, g}
  NoObj = NoObj
  Volumes <- FallbackVolumes
  Crashes = {"process"}
  MaxOps = 2
  MaxVer = 2
  MaxEnv = 1
  MaxFaults = 1
  MaxCrashes = 2
INVARIANTS TempBacked RecordedOnce MarkersRetired RestoreSticks
PROPERTIES PendingSettles
CHECK_DEADLOCK FALSE
