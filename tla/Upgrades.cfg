SPECIFICATION Spec
CHECK_DEADLOCK FALSE
CONSTANTS
    None = None
    Idle = Idle
    u1 = u1
    u2 = u2
    r1 = r1
    r2 = r2
    Upgrades = {u1, u2}
    Parts <- MCParts
    Data <- MCData
    Days <- MCDays
    MaxPurchases = 2
    Listeners = {w1}
    Recoverers = {w2}
    TrialData = 1
    TrialDays = 1
    MaxTime = 1
    Ways = {{}, {u1, u2}}
    Requests = {r1, r2}
    Refunders = {k1}
INVARIANTS NeverTwice FulfilledInFull RecordIsBacked
SYMMETRY MCSymmetry
