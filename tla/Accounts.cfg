CONSTANTS
    a1 = a1
    a2 = a2
    Request = {q1, q2}
    Password = {p1, p2}
    FirstPassword = p1
    Email = {a1, a2}
    FirstEmail = a1
    Invited <- MCInvited
    Code = {c1}
    Op = {"sign_in", "request", "reset", "accept", "recovery", "refresh", "sign_out", "setup", "confirm", "change", "disable", "invite", "demote"}
    Threshold = 1
    Limit = 1
    PoolSize = 2
    MaxUsers = 3
    MaxRequests = 3
    MaxLapses = 1
SYMMETRY Symmetry
SPECIFICATION Spec
INVARIANTS LockoutMatchesCount ResetEndsSessions RedeemedOnce OneAccountPerAddress SecondFactorUsable NeverCountsTwice
CHECK_DEADLOCK FALSE
