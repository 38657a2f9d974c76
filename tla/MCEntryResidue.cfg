CONSTANTS
    NLegs = 2
    Lots = 2
SPECIFICATION Spec
CHECK_DEADLOCK FALSE
INVARIANT FailedEntryIsFlat
