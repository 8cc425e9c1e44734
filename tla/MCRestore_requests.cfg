SPECIFICATION FairSpec
CONSTANTS
  r1 = r1
  r2 = r2
  o1 = o1
  Requests = {r1, r2}
  Operations = {o1}
  About <- AboutDef
  NoReq = nobody
  Batch = 1
  Capacity = 2
  Keep = 1
  MaxOutside = 2
INVARIANTS RestoredOnce PollFinds
PROPERTIES Acknowledged
CHECK_DEADLOCK FALSE
