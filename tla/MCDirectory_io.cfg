\* Two threads, one token they may share, one nests guards and one may forget its own.
SPECIFICATION FairSpec
CONSTANTS
  deep = deep
  flat = flat
  Threads = {deep, flat}
  Tokens = {k}
  NoToken = none
  Depth <- Nesting
  Forgetful = {flat}
  Masks <- Masking
INVARIANTS SignalsConfined InterruptedIsExpired
PROPERTIES ScopeEnds
