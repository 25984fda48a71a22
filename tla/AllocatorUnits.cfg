SPECIFICATION UnitsSpec
CONSTANTS
  WordBits = 3
  MaxWords = 3
  None = None
  RADIX_NODE_SIZE = 2
  RADIX_ROOT_SIZE = 2
  Spans = {s1}
  Null = Null
  MapPages = {5, 6, 7, 8, 9}
  Lookups = {4, 6, 8, 16}
  MaxRange = 5
  SizeT = 4
  AlignT = 2
  HeaderSize = 2
  PAGE_SIZE = 4
  CHUNK_SIZE = 3
  MinObjs = 2
  PoolLastPage = 9
  Threads = {t1, t2}
  LastPage = 9
  HUGE = 4
  MAX_ALLOC_RETRIES = 2
  HUGE_PAGE_CACHE_SIZE = 1
  Sizes = {1, 4, 5}
  MaxCalls = 3
  MaxFaults = 1
SYMMETRY Symmetry
CHECK_DEADLOCK FALSE
INVARIANTS
  MapsRange
  ObjectsApart
  PagesAccounted
PROPERTIES
  ImplementsObjects
  LookupLinearizes
