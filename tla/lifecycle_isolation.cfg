SPECIFICATION Spec
CONSTANTS
  p1 = p1
  p2 = p2
  Profiles = {p1, p2}
  Workers = {p1, p2}
  Holding <- OneEach
  MaxQty = 1
  EntryBudget = 0
  ExitBudget = 1
  StopBudget = 1
  PartialKinds = {}
  AsyncCancel = FALSE
  LostWrites = {}
SYMMETRY Exchangeable
INVARIANTS
  OrderIdOwnership
  CancelsOnlyOwn
  NoOversell
CHECK_DEADLOCK FALSE
