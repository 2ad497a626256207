SPECIFICATION Spec
CONSTANTS
  p1 = p1
  p2 = p2
  Profiles = {p1, p2}
  Workers = {p1}
  Holding <- BothHold
  MaxQty = 2
  EntryBudget = 0
  ExitBudget = 0
  StopBudget = 2
  PartialKinds = {"protective"}
  AsyncCancel = FALSE
  LostWrites = {}
PROPERTIES
  StopFillsNeverWrittenOff
CHECK_DEADLOCK FALSE
