SPECIFICATION MCSpec
CONSTANTS
  Accounts = {a1, a2}
  Buyer = a1
  Nil = Nil
  Workers = {w1, w2}
  Limit = 2
  Length = 2
  Retention = 1
  MaxAge = 1
  MaxOrder = 2
  MaxEdition = 2
  Horizon = 3
SYMMETRY Symmetry
CHECK_DEADLOCK FALSE
INVARIANTS
  UsageHolds
  WindowsAgree
  PaidIsOwned
PROPERTIES
  ProofsInOrder
