CONSTANTS
  Node <- MCNode
  Road <- MCRoad
  UpNode <- MCUp
  DownNode <- MCDown
  DBL_MAX = 1000
  Query <- MCQuery
  KumaA = 1
  MaxRoads = 7
SPECIFICATION Spec
INVARIANTS
  TypeOK
  WeightReproduced
  ThrowsOnlyWhenTrapped
CHECK_DEADLOCK FALSE
