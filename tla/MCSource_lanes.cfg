SPECIFICATION FairSpec
CONSTANTS
  d1 = d1
  d2 = d2
  Drives = {d1, d2}
  None = None
  Configs <- MCConfigs
  Devices = {1}
  MaxMounts = 2
  MaxChanges = 1
  MaxApprovals = 1
  MaxFaults = 1
  MaxOutside = 3
INVARIANTS NothingForgotten Ingested PermissionEnds Consented ShownTruly
PROPERTIES  Followed
CHECK_DEADLOCK FALSE
