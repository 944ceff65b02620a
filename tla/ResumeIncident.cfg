CONSTANTS
    Record = {r1, r2}
    Run = {u1}
    Recipient = {p1}
    Amount = {2, 3}
    AmountCap = 4
    ReviewFloor = 2
    CumulativeCap = 3
    Operator = {o1}
    Human = {"accept", "edit"}
    MaxRestarts = 0
SPECIFICATION Spec
INVARIANT ResumeAnswersIncident
CHECK_DEADLOCK FALSE
