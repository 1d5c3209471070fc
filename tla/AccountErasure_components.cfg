SPECIFICATION Spec
CONSTANTS
  recovery = recovery
  outbox = outbox
  profile = profile
  finalize = finalize
  Records = {recovery}
  Outbox = outbox
  Profile = profile
  External = {external}
  Finalizer = finalize
  First = recovery
  After <- Order
  MaxRow = 2
  PageSize = 1
  Operations = {o1, o2}
  None = None
  Workers = {w1, w2}
SYMMETRY Symmetry
CHECK_DEADLOCK FALSE
INVARIANTS
  NothingOverlooked
  ErasedInOrder
  AcceptedIsCommand
PROPERTIES
  GoneStaysGone
