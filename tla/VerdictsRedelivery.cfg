CONSTANTS
    w1 = w1
    g1 = g1
    g2 = g2
    w2 = w2
    Record = {a, b}
    Poison = {}
    Gated = {}
    Worker = {w1}
    GroupOf <- MCGroupOf
    Transport = "redis"
    BatchSize = 2
    MaxEntries = 2
    MaxCrashes = 0
SPECIFICATION FairSpec
PROPERTY FailedIsDeliveredAgain
CHECK_DEADLOCK FALSE
