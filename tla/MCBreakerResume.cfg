CONSTANTS
    DailyPct = 3
    WeeklyPct = 6
    LifetimePct = 15
    Base = 200
    StartDay = 7
    MaxDay = 7
    Pnls <- MCPnls
    InitOpen = 2
    MaxEntries = 0
    MaxCrashes = 1
SPECIFICATION Spec
CHECK_DEADLOCK FALSE
PROPERTY ResumeClearsBreaker
