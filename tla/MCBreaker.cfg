CONSTANTS
    DailyPct = 3
    WeeklyPct = 6
    LifetimePct = 15
    Base = 200
    StartDay = 7
    MaxDay = 8
    Pnls <- MCPnls
    InitOpen = 3
    MaxEntries = 1
    MaxCrashes = 1
SPECIFICATION Spec
CHECK_DEADLOCK FALSE
INVARIANT NavMatchesBook
INVARIANT TickEndsInsideCap
PROPERTY NoEntryAfterTrip
PROPERTY DailyCapHolds
