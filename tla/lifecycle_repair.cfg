SPECIFICATION Spec
CONSTANTS
  p1 = p1
  p2 = p2
  Profiles = {p1, p2}
  Workers = {p1}
  Holding <- SiblingHolds
  MaxQty = 2
  EntryBudget = 2
  ExitBudget = 1
  StopBudget = 1
  PartialKinds = {"protective", "exit"}
  AsyncCancel = FALSE
  LostWrites = {"entry", "protective"}
INVARIANTS
  TypeOK
  BookedOnce
  NoOrphanOrder
PROPERTIES
  KeepsCustody
  FillsNeverWrittenOff
CHECK_DEADLOCK FALSE
