SPECIFICATION FairSpec
CONSTANTS
    j1 = j1
    j2 = j2
    j3 = j3
    w1 = w1
    w2 = w2
    Jobs = {j1, j2, j3}
    Workers = {w1, w2}
    Home <- MCHome
    NoJob = NoJob
CHECK_DEADLOCK FALSE
INVARIANT
    DeliveredOnce
PROPERTIES
    CallersAnswered ShutdownReturns
