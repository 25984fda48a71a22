SPECIFICATION Spec
CONSTANTS
  LastPage = 6
  MaxRequest = 4
  MAX_PAGE_NUM = 3
  SpanIds = {a, b, c}
  None = None
  kIdleThresholdMs = 1
  MaxClock = 1
  TimeModulus = 16
  NodeAllocFails = FALSE
SYMMETRY Symmetry
INVARIANTS
  PagesOwnedOnce
  MapExact
PROPERTIES
  ImplementsRanges
