CONSTANTS
  Node <- MCNode
  Road <- MCRoad
  UpNode <- MCUp
  DownNode <- MCDown
  DBL_MAX = 100
  Query <- MCQuery
SPECIFICATION Spec
INVARIANTS
  TypeOK
  WalkBackEnds
  CollectsDomain
PROPERTIES
  Termination
CHECK_DEADLOCK FALSE
