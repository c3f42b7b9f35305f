SPECIFICATION Spec
CONSTANTS
  c1 = c1
  c2 = c2
  p1 = p1
  p2 = p2
  Call <- Calls
  Path <- Paths
  NoPath = NoPath
  MaxPendingCancellations = 1
  MaintainEvery = 1
  MaxFiles = 1
  TargetFiles = 0
  MaxGeneration = 2
INVARIANTS
  TypeOK
  CountsMatchUsers
  KeyServesItsFile
  CancellationNotLost
SYMMETRY Symmetry
CHECK_DEADLOCK FALSE
