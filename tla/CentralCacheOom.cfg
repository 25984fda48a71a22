SPECIFICATION Spec
CONSTANTS
  None = None
  Threads = {t1, t2}
  Spans = {s1, s2}
  capacity = 2
  Batch = 1
  kMaxBatchSize = 1
  TcCapacity = 1
INVARIANT SurvivesAllocationFailure
CHECK_DEADLOCK FALSE
