SPECIFICATION Spec
CONSTANTS
    NoProof = NoProof
    Idle = Idle
    Orders = {o1, o2}
    Users = {alice, bob}
    Owner <- MCOwners
    Proofs = {p1, p2}
    RefundRequests = {r1, r2}
    Callers = {c1}
    SweepOverlaps = TRUE
    KeyColumnsMapped = TRUE
    FullPrice = 2
    LowPrice = 1
    Opening = 3
INVARIANTS OneCapturePerPayment PendingCanBeDecided KeyIsPaidFor ReturnsAreCovered
PROPERTIES FollowsTable PaidUntilRefunded
SYMMETRY MCSymmetry
CONSTRAINT MCFewProofs
