SPECIFICATION FairSpec
CONSTANTS
    Capacity = 2
    MaxPush = 4
CHECK_DEADLOCK FALSE
INVARIANT
    ZeroDataLoss
PROPERTY
    BothSidesGetOut
