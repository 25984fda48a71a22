CONSTANTS
  NULL = NULL
  Threads = {t1, t2, t3}
  Pages = {p1, p2}
  kCapacity = 2
  kInvalid = 65535
  MaxTag = 6
SPECIFICATION Spec
SYMMETRY Symmetry
CHECK_DEADLOCK FALSE
INVARIANTS
  UniqueOwner
PROPERTIES
  ImplementsPool
