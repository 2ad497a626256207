\* A bracket or a plain entry; one order may end unfilled, and nothing fails.
CONSTANTS
    Starts = {"stamped", "plain"}
    MaxEnds = 1
    MaxReplaced = 0
    FaultKinds = {}
    MaxFaults = 0
SPECIFICATION FairSpec
PROPERTIES TargetIsTaken
