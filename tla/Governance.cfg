CONSTANTS
    Record = {r1, r2}
    Run = {u1}
    Recipient = {p1}
    Amount <- MCAmount
    AmountCap = 6
    ReviewFloor = 5
    CumulativeCap = 3
    Operator = {o1, o2}
    Human = {"edit"}
    MaxRestarts = 1
SYMMETRY Symmetry
SPECIFICATION Spec
INVARIANTS PassedWithinCap OnlyEscalationsOverruled ResolvedWasAnswered
CHECK_DEADLOCK FALSE
