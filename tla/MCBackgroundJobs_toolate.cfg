SPECIFICATION Spec
CONSTANTS
    a = a  b = b  c = c  o1 = o1  o2 = o2  w1 = w1  w2 = w2
    Jobs = {a}
    Owners = {o1, o2}
    Workers = {w1}
    OwnerOf <- MCOwnerOf
    Ceiling <- MCCeiling
    MaxPending = 2
    Retain = 1
    AtMostOnce = {a}
    Linked = {a}
    HasSink = FALSE
    MaxProgress = 0
    NoJob = NoJob
CHECK_DEADLOCK FALSE
INVARIANT
    TooLateTruthful
