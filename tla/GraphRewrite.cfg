CONSTANTS
  Graph <- MCGraph
  OldNodes <- MCOldNodes
  EmitOps = {"Silu"}
  MaxWork = 5
  MaxLocals = 2
SPECIFICATION Spec
INVARIANTS
  CachesExact
  CommitFaithful
  QueriesForetell
CHECK_DEADLOCK FALSE
