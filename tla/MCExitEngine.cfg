CONSTANTS
    Kinds <- AllKinds
    Entry = 4
    Lots = 1
    EntrySpot = 20
    Atr = 1
    Mids <- MCMids
    Spots <- MCSpots
    Exits <- MCExits
    MaxRetries = 1
    MaxCrashes = 1
SPECIFICATION FairSpec
CHECK_DEADLOCK FALSE
INVARIANT NotesCoverRuntime
INVARIANT StopOrdersBounded
PROPERTY StoredPeakNeverFalls
PROPERTY ExpiryIsTried
