CONSTANTS
    directional = directional
    straddle = straddle
    vertical = vertical
    btc = btc
    eth = eth
    call = call
    put = put
    other = other
    Strategies <- AllStrategies
    Directional = directional
    Straddle = straddle
    Underlyings <- AllUnderlyings
    Products <- AllProducts
    Plans <- AllPlans
    MaxLegs = 2
    Lots = 1
    MaxTotal = 2
    MaxPerStrategy = 1
    MaxTrades = 2
    MaxCrashes = 1
SPECIFICATION FairSpec
CHECK_DEADLOCK FALSE
INVARIANT ConcurrencyCaps
INVARIANT PositionHasTrade
INVARIANT NetIsCovered
INVARIANT ExitBooksEveryLeg
PROPERTY NoReentryInTick
PROPERTY TickTerminates
