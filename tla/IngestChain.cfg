CONSTANTS
    a1 = a1
    o1 = o1
    k1 = k1
    Agent = {a1}
    Org = {o1}
    Key = {k1}
    Admin = {}
    AdminKinds = {}
    Enrolled <- MCEnrolled
    Req = {r1, r2}
    Op = {x, y}
    Body = {b}
    Nonce = {n1}
    Kinds = {"pre_exec"}
SYMMETRY Symmetry
SPECIFICATION Spec
INVARIANTS TypeOK ChainIntact EvidenceBacked StreamsExact
PROPERTY ImplementsHashChain
