SPECIFICATION Spec
CONSTANTS
  Keys = {1, 2, 3, 4}
  min_lookups = 2
  HashBits = 6
  LoadFactors = {50, 100}
  Requests = {0, 1, 9}
  num_jump_distances = 4
  MinGrow = 4
  LoadFactor = 94
  kThreshold = 1
  kNumOffsetDists = 4
  kSlotsPerBlock = 2
  Sizes = {3}
  kSmallCapacity = 1
  kMinHeapCapacity = 2
  LargeCapacityThreshold = 5
  PageChars = 3
  SizeBits = 6
  ProbeBits = 3
  local_capacity_ = 1
  IncFactor = 2
  Chars = {1, 2}
  Capacities = {2, 5, 8}
  CowCapacities = {2, 4}
  Counts = {0, 2}
  Alphabet = {1, 2}
  MaxText = 7
  MaxPattern = 4
  kMaxNaiveCandidates = 1
  MinHybridPattern = 3
  MinHybridText = 4
INVARIANTS
  
  
  IterationExact
  StringsAreValues
  BlocksExact
  
CHECK_DEADLOCK FALSE
