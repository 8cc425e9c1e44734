SPECIFICATION Spec
CONSTANTS
  Configs = {"old", "new"}
  MaxOutside = 2
  MaxPolls = 2
  MaxSaves = 1
INVARIANTS NoLostWakeup WishKept
PROPERTIES  SaveIsAtomic EditKept
CHECK_DEADLOCK FALSE
