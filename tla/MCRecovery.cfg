CONSTANTS
    NOrders = 2
    Trades <- OneTrade
    TradeOf <- BothOfOne
    LegOf <- TwoLegs
    MaxBoots = 2
SPECIFICATION FairSpec
CHECK_DEADLOCK FALSE
INVARIANT FillsAreReal
INVARIANT ClosedOnlyUnseen
INVARIANT SweptStaysSwept
PROPERTY CleanMeansListed
PROPERTY RerunAgrees
PROPERTY StartAndStopEnd
