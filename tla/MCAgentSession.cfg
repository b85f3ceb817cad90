SPECIFICATION FairSpec
CONSTANTS
    c1 = c1
    c2 = c2
    k1 = k1
    NoSource = NoSource
    Calls <- MCCalls
    Cancellers <- MCCancellers
    max_turns = 2
    stream_retries = 1
    token_budget = 2
    MaxRuns = 2
    MaxOwed = 1
INVARIANTS
    OneRunEnd
    CancelStaysInRun
    OneCallAfterStop
    GatedOnce
    NeverWedged
    ChargesStayInRun
PROPERTIES
    CallsEnd
CHECK_DEADLOCK FALSE
