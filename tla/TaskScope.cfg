SPECIFICATION FairSpec
CONSTANTS
    Children = {c1, c2, c3}
    Cap = 2
    AlwaysAwaited = FALSE
    None = None
INVARIANTS
    NoChildOutlivesScope NobodyForgotten AwaitedEdgeTruthful
PROPERTY
    JoinEnds
