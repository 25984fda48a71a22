SPECIFICATION FairSpec
CONSTANTS
  t1 = t1
  t2 = t2
  s1 = s1
  s2 = s2
  a = a
  b = b
  x1 = x1
  x2 = x2
  x3 = x3
  o1 = o1
  None = None
CHECK_DEADLOCK FALSE
PROPERTIES
  OperationsReturn
  StopReturns
  NothingLeaks
