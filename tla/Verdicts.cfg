CONSTANTS
    w1 = w1
    g1 = g1
    g2 = g2
    w2 = w2
    Record = {p, g, a, b}
    Poison = {p}
    Gated = {g}
    Worker = {w1}
    GroupOf <- MCGroupOf
    Transport = "cache"
    BatchSize = 2
    MaxEntries = 3
    MaxCrashes = 1
SPECIFICATION FairSpec
INVARIANTS TypeOK AckedIsJudged JudgedOnce LateVerdictBacked
PROPERTY NewWorkerCatchesUp
CHECK_DEADLOCK FALSE
