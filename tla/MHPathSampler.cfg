CONSTANTS
  Node <- MCNode
  Edge <- MCEdge
  Origin = 1
  Destination = 6
  FwdRoute <- MCFwdRoute
  BwdRoute <- MCBwdRoute
  Trigger <- MCTrigger
  InsertWeight <- MCInsertWeight
  ForeignWeight <- MCForeignWeight
SPECIFICATION Spec
INVARIANTS
  TypeOK
  PathSound
  CacheFresh
  NeverThrows
  SpliceReversible
  SpliceRatioExact
  RecordedProper
CHECK_DEADLOCK FALSE
