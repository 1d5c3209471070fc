SPECIFICATION FairSpec
CONSTANTS
  LastRequest = 1
  MaxGeneration = 0
  PageSize = 1
  None = None
CHECK_DEADLOCK FALSE
PROPERTIES
  DeletionLeavesReceipt
