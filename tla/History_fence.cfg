SPECIFICATION Spec
CONSTANTS
  LastRequest = 2
  MaxGeneration = 1
  PageSize = 1
  None = None
CHECK_DEADLOCK FALSE
CONSTRAINT Few
INVARIANTS
  ErasureReaches
  AnswersAreAccountedFor
  ReceiptMeansErased
