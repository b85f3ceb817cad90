SPECIFICATION FairSpec
CONSTANTS
    g1 = g1  g2 = g2  s1 = s1  s2 = s2  s3 = s3  i1 = i1  i2 = i2  i3 = i3  i4 = i4
    w1 = w1  w2 = w2
    Workers = {w1, w2}
    Strands = {s1, s2, s3}
    Groups = {g1, g2}
    Items = {i1, i2, i3, i4}
    GroupOf <- MCGroupOf
    StrandOf <- MCStrandOf
    MaxPriorityPosts = 2
    MaxPosters = 2
    NoItem = NoItem
CHECK_DEADLOCK FALSE
INVARIANTS
    StrandSerial NoLostWakeup
PROPERTIES
    PriorityFirst PostedRuns
