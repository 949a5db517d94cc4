CONSTANTS
  Node <- MCNode
  DBL_MAX = 1000
  Query <- MCQuery
SPECIFICATION Spec
INVARIANTS
  TypeOK
  SameRoute
  LabelsKept
  TripsKept
CHECK_DEADLOCK FALSE
