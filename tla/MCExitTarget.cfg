CONSTANTS
    Kinds <- VerticalOnly
    Entry = 4
    Lots = 1
    EntrySpot = 20
    Atr = 1
    Mids <- MCMids
    Spots <- MCSpots
    Exits <- MCExits
    MaxRetries = 0
    MaxCrashes = 0
SPECIFICATION Spec
CHECK_DEADLOCK FALSE
INVARIANT VerticalTargetIsEarned
