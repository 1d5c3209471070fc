SPECIFICATION Spec
CONSTANTS
  Operations = {o1, o2}
  Workers = {w1, w2}
  Choices = {x1, x2}
  None = None
  AnyVersion = AnyVersion
  MaxTries = 2
  Life = 2
  MaxDay = 3
  MaxVersion = 3
  MaxRedirects = 1
  LinkLease = 2
  MaxTime = 3
  MaxAttempts = 2
  MaxFailures = 1
  Windows = 1
  MaxReserved = 5
  Ledger = 3
  PageSize = 2
  MaxPages = 2
  PerRun = 2
  MaxSaved = 4
  SettleLease = 1
  LinkageLife = 2
  ReceiptLife = 3
  Trials = {t1}
  Granted = {g1}
  ReportDay = 1
  ReportWindow = 3
  Horizon = 4
  Reporter = w1
SYMMETRY Symmetry
CHECK_DEADLOCK FALSE
PROPERTIES
  GateHolds
  ChoicesHold
  AnswersHold
  
  OperationsHold
  ScansHold
