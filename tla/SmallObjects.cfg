SPECIFICATION SmallSpec
CONSTANTS
  None = None
  Threads = {t1, t2}
  Spans = {s1, s2}
  capacity = 2
  Batch = 2
  kMaxBatchSize = 2
  TcCapacity = 2
  QuotaScale = 2
  CleanerRegistered = TRUE
SYMMETRY Symmetry
CHECK_DEADLOCK FALSE
INVARIANTS
  CachesApart
  OwnedOnce
  ReleasedSpansUnused
PROPERTIES
  TeardownReturnsAll
  FollowsPolicy
  UsesCentralCache
