\* One leg ends unfilled beside a filled partner.
CONSTANTS
    Setups <- NakedSetups
    Retries = 1
SPECIFICATION SpreadSpec
INVARIANTS NoNakedLeg
CHECK_DEADLOCK FALSE
