CONSTANTS
    a1 = a1
    o1 = o1
    k1 = k1
    Agent = {a1}
    Org = {o1}
    Key = {k1}
    Admin = {t1, t2}
    AdminKinds = {"register", "freeze", "unfreeze", "revoke", "delete"}
    Enrolled <- MCEnrolled
    Req = {r1}
    Op = {x}
    Body = {b}
    Nonce = {n1}
    Kinds = {"eor", "post_exec"}
SYMMETRY Symmetry
SPECIFICATION HistorySpec
INVARIANTS BarredStopped VerifiesUnlessReplaced
