SPECIFICATION Spec
CONSTANTS
  Nodes <- GraphNodes
  Start = "s"
  Kind <- GraphKind
  Direct <- GraphDirect
  FanIn <- GraphFanIn
  OnFailure <- GraphOnFailure
  Fallback <- GraphFallback
  on_unbatchable = "sync"
  Branched = {"b"}
  Cancellers = {k1}
  max_rounds = 4
  NoRecord = NoRecord
  MaxEpochs = 2
  MaxJobs = 2
  MaxCrashes = 1
CHECK_DEADLOCK FALSE
INVARIANTS
  JoinedOnce
  CompletedJoined
  JobsAccounted
  CancelledClosed
