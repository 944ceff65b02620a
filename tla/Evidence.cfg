CONSTANTS
    s1 = s1
    s2 = s2
    c1 = c1
    Op = {1, 2, 3}
    Decided = {1, 2}
    Escalated = {1, 3}
    AnyHash = {1, 2, 3, 4, 5}
    Hash <- MCHash
    Scheduler = {s1, s2}
    Client = {c1}
    PageSize = 1
    MaxTime = 2
    MaxDeaths = 1
SPECIFICATION PartSpec
INVARIANTS EpochsBacked EpochsNested AnswersAgree PagesExact
PROPERTY CatchUp
CHECK_DEADLOCK FALSE
