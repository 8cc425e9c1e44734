SPECIFICATION HistorySpec
CONSTANTS
  SegCap = 1
  ArchiveCap = 1
  DiagCap = 2
  MaxOps = 2
  MaxRecs = 3
  MaxMishaps = 1
INVARIANTS SuffixKept EvidenceKept CacheExact
CHECK_DEADLOCK FALSE
