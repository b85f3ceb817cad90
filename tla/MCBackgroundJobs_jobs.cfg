SPECIFICATION Spec
CONSTANTS
    a = a  b = b  c = c  o1 = o1  o2 = o2  w1 = w1  w2 = w2
    Jobs = {a, b}
    Owners = {o1, o2}
    Workers = {w1}
    OwnerOf <- MCOwnerOf
    Ceiling <- MCCeiling
    MaxPending = 2
    Retain = 1
    AtMostOnce = {a}
    Linked = {a}
    HasSink = TRUE
    MaxProgress = 1
    NoJob = NoJob
CHECK_DEADLOCK FALSE
INVARIANTS
    CeilingHolds SinkSilent CascadeNotLost
PROPERTY
    EventsOrdered
