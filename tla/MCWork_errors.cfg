\* One directory chain with a file, one failure, one crash, one event.
SPECIFICATION FairSpec
CONSTANTS
  r = r
  a = a
  b = b
  p = p
  x = x
  Dirs <- Chain
  Files <- OneFile
  Root = r
  Up <- UpChain
  Packages <- NoPackage
  Wide = {a}
  Kinds = {"lost"}
  MaxJobs = 2
  MaxEvents = 1
  MaxErrors = 1
  MaxCrashes = 1
INVARIANTS BaselineUnlessNarrowed
PROPERTIES Settles
CHECK_DEADLOCK FALSE
