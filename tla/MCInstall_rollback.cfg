SPECIFICATION Spec
CONSTANTS
  r1 = r1
  r2 = r2
  r3 = r3
  Releases = {r1, r2, r3}
  Other = Other
  None = None
  MaxCommands = 2
  MaxFaults = 2
  MaxOutside = 1
INVARIANTS  NothingLost
SYMMETRY Alike
CHECK_DEADLOCK FALSE
