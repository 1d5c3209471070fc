SPECIFICATION FairSpec
CONSTANTS
  Clients = {c1}
  Proofs = {p1}
  Workers = {w1, w2}
  Sweepers = {s1}
  Devices = {d1, d2}
  Nil = Nil
  TrialLimit = 1
  MaxInflight = 1
  Validity = 1
  Settlement = 1
  Reconciliation = 1
  Retention = 3
  GovernedHistory = FALSE
  InvocationLimit = 1
  TrialEnd = 2
  Horizon = 3
  MaxRevision = 1
CHECK_DEADLOCK FALSE
PROPERTIES
  
  FencedRowsFrozen
  LeaseEnds
