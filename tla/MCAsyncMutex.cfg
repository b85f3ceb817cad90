SPECIFICATION FairSpec
CONSTANTS
    r1 = r1  r2 = r2  r3 = r3  c1 = c1  c2 = c2
    Tasks = {r1, r2, r3, c1}
    Roots = {r1, r2, r3}
    Home <- MixedHomes
    NoTask = NoTask
    AwaitWhilePending = FALSE
INVARIANTS
    OneExecutor NoLostHandoff
PROPERTIES
    NoBarging WaitersServed
