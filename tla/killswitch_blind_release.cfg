SPECIFICATION Spec
CONSTANTS
  p1 = p1
  p2 = p2
  Profiles = {p1, p2}
  LatchReleases = 2
  OperatorMidGate = FALSE
  ReadsFail = FALSE
  CheckersFail = TRUE
PROPERTY LiftedOnlyOffCleanBooks
