SPECIFICATION PartsSpec
CONSTANTS
  SizeBits = 5
  AddressBits = 9
  kMaxHeaderSize = 16
  Directories <- Dirs
  RequestBits = 18
  PageNumBits = 5
  Extents = {0, 1, 2, 4}
  NumSymbols = 4
  Bindable = {0, 1}
  kMaxSkipDepth = 1
  MaxTokens = 6
INVARIANTS
  SizesServed
  InferenceExact
  SolverExact
  ReadsOneValue
  
  
CHECK_DEADLOCK FALSE
