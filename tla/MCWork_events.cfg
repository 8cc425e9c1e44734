SPECIFICATION Spec
CONSTANTS
  r = r
  a = a
  b = b
  p = p
  x = x
  Dirs <- Tree
  Files <- OneFile
  Root = r
  Up <- UpTree
  Packages <- OnePackage
  Wide = {a}
  Kinds = {"change", "create", "remove", "scan", "lost", "request"}
  MaxJobs = 2
  MaxEvents = 2
  MaxErrors = 0
  MaxCrashes = 1
INVARIANTS  IndexExact
CHECK_DEADLOCK FALSE
