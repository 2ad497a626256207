SPECIFICATION Spec
CONSTANTS
  p1 = p1
  p2 = p2
  Profiles = {p1, p2}
  Workers = {p1}
  Holding <- SiblingHolds
  MaxQty = 1
  EntryBudget = 1
  ExitBudget = 1
  StopBudget = 0
  PartialKinds = {}
  AsyncCancel = FALSE
  LostWrites = {}
INVARIANTS
  NoOversell
CHECK_DEADLOCK FALSE
