CONSTANTS
  Starts <- MCFusable
  MaxDeclined = 0
  Contexts <- MCDefault
SPECIFICATION Spec
INVARIANT FusionKeepsCommittable
CHECK_DEADLOCK FALSE
