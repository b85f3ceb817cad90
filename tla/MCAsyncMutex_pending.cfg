SPECIFICATION Spec
CONSTANTS
    r1 = r1  r2 = r2  r3 = r3  c1 = c1  c2 = c2
    Tasks = {r1, r2, c1, c2}
    Roots = {r1, r2}
    Home <- FamilyHomes
    NoTask = NoTask
    AwaitWhilePending = TRUE
INVARIANT
    OneExecutor
