SPECIFICATION Spec
CONSTANTS
    Referrals = {r1, r2}
    Referrer = alice
    Required = 2
    Limit = 1
    Workers = {w1, w2}
    None = None
    Idle = Idle
SYMMETRY MCSymmetry
INVARIANTS RewardIsEarned
PROPERTIES HeldUntilReleased
