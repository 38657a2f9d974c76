CONSTANTS
    NLegs = 2
    Lots = 2
SPECIFICATION FairSpec
CHECK_DEADLOCK FALSE
INVARIANT SuccessIsFilled
INVARIANT ExposureBound
INVARIANT NoOrderLeftWorking
PROPERTY ImplementsContract
PROPERTY Returns
