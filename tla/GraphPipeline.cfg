CONSTANTS
  Starts <- MCStarts
  MaxDeclined = 1
  Contexts <- MCContexts
SPECIFICATION Spec
INVARIANTS
  OptimizedEquivalent
  EliminationExact
  
CHECK_DEADLOCK FALSE
