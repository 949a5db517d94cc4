CONSTANTS
  Node <- MCNode
  DBL_MAX = 1000
  Query <- MCStreet
SPECIFICATION Spec
INVARIANTS
  TriggerRecovered
CHECK_DEADLOCK FALSE
