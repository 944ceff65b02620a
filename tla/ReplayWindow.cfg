CONSTANTS
    Delivery = {d1, d2}
    Instant = {0, 1, 999, 1000, 1001, 1002, 1999, 2000, 2001, 2002, 3001, 4000}
    IssuedAt = {0, 1, 2, 1500}
    Ttl = {999, 1000, 1001, 1999, 2000}
    MaxPasses = 3
SPECIFICATION WindowSpec
INVARIANTS NonceOutlivesRecord PassesApart
CHECK_DEADLOCK FALSE
