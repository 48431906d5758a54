SPECIFICATION FairSpec
CONSTANTS
    NoProof = NoProof
    Idle = Idle
    Orders = {o1}
    Users = {alice}
    Owner <- MCOwner
    Proofs = {p1, p2}
    RefundRequests = {r1, r2}
    Callers = {c1, c2}
    SweepOverlaps = TRUE
    KeyColumnsMapped = TRUE
    FullPrice = 2
    LowPrice = 1
    Opening = 3
INVARIANTS PaidIsCovered
PROPERTIES OverdueCloses
