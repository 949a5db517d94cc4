CONSTANTS
  Node <- MCNode
  Road <- MCRoad
  UpNode <- MCUp
  DownNode <- MCDown
  DBL_MAX = 100
  Query <- MCQuery
SPECIFICATION Spec
INVARIANTS
  TypeOK
  SettledOptimal
  TreeOfLabels
  ForbiddenUnlabelled
  VerdictIsTreePath
  SegmentCheckNeverThrows
PROPERTIES
  SettledStays
  Termination
CHECK_DEADLOCK FALSE
