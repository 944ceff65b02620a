CONSTANTS
    t1 = t1
    t2 = t2
    o1 = o1
    w1 = w1
    w2 = w2
    Record = {t1, t2, o1}
    Transfer = {t1, t2}
    PostExec = {t2}
    Worker = {w1, w2}
    Structuring = 2
    MaxDeaths = 1
    Weight <- MCWeight
    Threshold <- MCThreshold
SYMMETRY Symmetry
SPECIFICATION Spec
INVARIANTS EvidenceComplete OverridesHold StructuringCaught MemoryAgrees RecallsOthers
CHECK_DEADLOCK FALSE
