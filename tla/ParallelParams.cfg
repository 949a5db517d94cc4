CONSTANTS
  Thread = {t1, t2}
  Job <- MCJob
  Query <- MCShared
SPECIFICATION Spec
INVARIANTS
  OwnParams
CHECK_DEADLOCK FALSE
