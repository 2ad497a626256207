\* Three accounts one at a time, each with the faults its properties are claimed under.
CONSTANTS
    p1 = p1
    p2 = p2
SPECIFICATION FairSpec
INVARIANTS OrderIdTruth
PROPERTIES FillsNeverWrittenOff FilledEntriesJournaled
CHECK_DEADLOCK FALSE
