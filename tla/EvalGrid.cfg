SPECIFICATION Spec
CONSTANTS
    Arm <- MCArm
    NativeBaselines <- MCNative
    UserTask <- MCUser
    InjTask <- MCInjection
    Verdicts <- MCVerdicts
    MaxCalls = 1
    Backends = {"http", "real", "mock"}
    Prompts <- MCPrompts
    Thresholds <- MCThresholds
INVARIANTS RowsComplete EvidenceOnce MeasuredBacked
CHECK_DEADLOCK FALSE
