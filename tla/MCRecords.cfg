SPECIFICATION Spec
CONSTANTS
  Workers = {w1, w2}
  Choices = {x1, x2}
  w1 = w1
  a1 = a1
  a2 = a2
  None = None
SYMMETRY Symmetry
CHECK_DEADLOCK FALSE
PROPERTIES
  PeriodsHold
  SweepsHold
