CONSTANTS
    Tool = {pay, other}
    Runtime = {pay}
    Closed = {pay}
    Id = {i1}
    NoId = NoId
    Ruling = {"PASS", "ROLLBACK", "ESCALATE"}
    EscalateMode = "live"
    PoolSize = 1
    MaxBatch = 2
    MaxCalls = 2
SPECIFICATION FairSpec
INVARIANTS RollbackUndoes ClosedToolsGated ServerChainIsPrefix
PROPERTY LoopGoesOn
CHECK_DEADLOCK FALSE
