SPECIFICATION FairSpec
CONSTANTS
    own = own  blk = blk  host = host  thr = thr
    Roots = {own, host, thr}
    KindOf <- MCKindOf
CHECK_DEADLOCK FALSE
INVARIANT
    NoRootOutlivesRuntime
PROPERTIES
    ResumedOnlyWhileParked EnterAnswered ShutdownReturns
