SPECIFICATION Spec
CONSTANTS
  Node <- MCNode
  Extract <- MCExtract
  Trip <- MCTrip
  Length <- MCLength
  SecondsPer <- MCSecondsPer
  DBL_MAX = 1000
  MaxFailures = 2
  GapLimit = 2
  walkMaxSpeed = 10
  bikeMaxSpeed = 20
  minDistanceFromLastPoint = 1
  maxDistanceRatioSP = 2
  minPathTravelTimeRatio = 2
  minGeneratedInterMediatePath = 2
  selectBestPaths = 1
  samplePathsByChange = 1
  samplePathsByDDR = 1
  selectImportantDDRNumber = 1
  selectShortestPaths = 1
INVARIANT UpdateClears
CHECK_DEADLOCK FALSE
