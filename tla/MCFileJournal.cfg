CONSTANTS
    k1 = k1
    k2 = k2  NoKey = NoKey  NoRecord = NoRecord
    w1 = w1  w2 = w2
    Writers = {w1, w2}
    Keys <- MCKeys
    Records <- MCRecords
    SizeOf <- MCSizeOf
    Granule = 4
    MaxRecords = 2
    MaxFaults = 2
SPECIFICATION Spec
INVARIANTS
    CrashIsNotDamage
    EffectsAccounted
PROPERTIES
    CutNeverRemovesARecord
    FileImplementsLog
SYMMETRY Symmetric
CHECK_DEADLOCK FALSE
