CONSTANTS
  Thread = {t1, t2}
  Job <- MCJob
  Query <- MCQuery
SPECIFICATION Spec
INVARIANTS
  TypeOK
  OwnFiles
  ExactChoiceSet
  AllOnDisk
PROPERTIES
  FinishedStays
  Termination
CHECK_DEADLOCK FALSE
