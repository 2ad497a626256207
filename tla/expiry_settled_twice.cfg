\* Two books that traded one contract, and nothing fails.
CONSTANTS
    Books = {"p1", "p2"}
    Accepted = {"OPEXP", "OPASN", "OPEXC"}
    Grace = 3
    Window = 7
    MaxDay = 1
    FaultKinds = {}
    MaxFaults = 0
SPECIFICATION Spec
INVARIANTS SettlementBookedOnce
