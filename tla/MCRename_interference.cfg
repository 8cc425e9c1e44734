SPECIFICATION FairSpec
CONSTANTS
  Objs = {f, g}
  NoObj = NoObj
  Volumes <- ExclusiveVolumes
  Crashes = {"process"}
  MaxOps = 3
  MaxVer = 0
  MaxEnv = 2
  MaxFaults = 1
  MaxCrashes = 2
INVARIANTS SubjectBacked RecordsSubject
PROPERTIES  RecoveryIdentifies
CHECK_DEADLOCK FALSE
