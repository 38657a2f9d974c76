CONSTANTS
    Prices <- MCPrices
    ShortPeriod = 1
    LongPeriod = 2
    Offset = 11
    History = 2
    QueueSize = 1
    InitialBackoff = 1
    MaxBackoff = 2
    StartTimes <- MCStart
    EndTime = 14
    MaxBack = 1
SPECIFICATION FairSpec
INVARIANT Contiguous
INVARIANT TimeframesAgree
PROPERTY QueueIsServed
