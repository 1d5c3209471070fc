SPECIFICATION Spec
CONSTANTS
  Workers = {w1, w2}
  Choices = {x1, x2}
  None = None
  Recoveries = {r1}
  MaxRequests = 1
  MaxWrites = 3
  Contents = {h1, h2}
  RequestLease = 1
  RequestTtl = 2
  Monthly = 1
  Credits = 1
  MaxRate = 2
  RequestTime = 3
  TrialLength = 1
  MaxKeys = 2
  MaxAccess = 2
  MaxBindings = 2
  SourceTime = 1
  Accounts = {a1, a2}
  Buyer = a1
  Lives <- TwoLives
  LocatorPage = 1
  MaxClaims = 2
  RowKeys = {1, 2, 3}
  Sizes = {1, 2}
  PageRows = 2
  PageBytes = 3
  Window = 1
  MaxPages = 6
  MaxGeneration = 2
  MaxChanges = 1
  PageTime = 1
  Receipts = {1, 2, 3}
  IssuedUnder <- TwoIssued
  PageItems = 1
  MaxReads = 2
  Retention = 2
  Start = 2
  ListTime = 3
SYMMETRY Symmetry
CHECK_DEADLOCK FALSE
INVARIANTS
  PointerNamesTheActive
  ToldAsRecorded
PROPERTIES
  BindingStepsSound
  RequestsHold
  
  PagesHold
