SPECIFICATION FairSpec
CONSTANTS
  Workers = {w1, w2}
  MaxKeys = 2
  InitialKeys = 1
  Checks = 2
  PageSize = 2
  MaxPages = 1
CHECK_DEADLOCK FALSE
PROPERTIES
  DeletionEnds
INVARIANTS
  ErasureInOrder
  UsageConserved
