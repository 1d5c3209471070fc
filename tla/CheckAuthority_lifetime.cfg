SPECIFICATION Spec
CONSTANTS
  Clients = {c1, c2}
  Proofs = {p1, p2}
  Workers = {w1, w2}
  Sweepers = {s1}
  Devices = {d1}
  Nil = Nil
  TrialLimit = 1
  MaxInflight = 2
  Validity = 1
  Settlement = 1
  Reconciliation = 1
  Retention = 3
  GovernedHistory = TRUE
  InvocationLimit = 1
  TrialEnd = 1
  Horizon = 4
  MaxRevision = 2
CHECK_DEADLOCK FALSE
CONSTRAINT FewOrShort
SYMMETRY Symmetry
INVARIANTS
  Accounting
  ClientsToldTruth
  AdmittedOnce
PROPERTIES
  PromiseKept
