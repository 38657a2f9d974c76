CONSTANTS
    o1 = o1
    o2 = o2
    Tasks <- TwoOrders
    OrderCalls <- TwoOrders
    Rate = 1
    Capacity = 4
    Cost = 2
    MaxAttempts = 2
    EndTime = 2
SPECIFICATION FairSpec
CHECK_DEADLOCK FALSE
INVARIANT TypeOK
INVARIANT RateBound
INVARIANT LockIsHeldByCallers
PROPERTY CallEnds
