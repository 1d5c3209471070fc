SPECIFICATION Spec
CONSTANTS
  a1 = a1
  a2 = a2
  e1 = e1
  e2 = e2
  e3 = e3
  Accounts = {a1, a2}
  Events = {e1, e2, e3}
  OwnerOf <- Owner
  Candidates = {c1}
  Aggregators = {w1}
  MaxSubmissions = 2
  Threshold = 2
  MaxEpoch = 1
  MaxVersion = 0
  Commands <- Asked
  Expiring = {e3}
  None = None
CHECK_DEADLOCK FALSE
CONSTRAINT TwoCommands
INVARIANTS
  SummariesHold
  
  ErasureSound
PROPERTIES
  PublishedSound
