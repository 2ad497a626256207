\* The switch with an operator who keeps out of the gate's run, and three spreads.
SPECIFICATION JointSpec
CONSTANTS
  p1 = p1
  p2 = p2
  Profiles = {p1, p2}
  LatchReleases = 2
  OperatorMidGate = FALSE
  ReadsFail = FALSE
  CheckersFail = TRUE
  Setups <- ThreeSetups
  Retries = 1
INVARIANTS
  TypeOK
  DecisionStillFits
  SpreadTypeOK
  RowsFitOrders
  BookIsTrue
  OnlyOnce
PROPERTIES
  HumanHaltSticks
  EntriesBlockedWhileDirty
  CleanBooksEndOurHalt
  KeepsCustody
  RowsSettle
CHECK_DEADLOCK FALSE
