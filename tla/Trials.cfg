SPECIFICATION FairEntrySpec
CHECK_DEADLOCK FALSE
CONSTANTS
    None = None
    Idle = Idle
    Claims = {c1, c2}
    Users = {u1}
    UserOf <- MCUserOf
    Servers = {s1}
    Quota <- MCQuota
    Uses <- MCUses
    NormalLimit = 1
    Provisioners = {p1}
    Refs = {r1, r2}
    Limit = 1
INVARIANTS UsesAddUp QuotaHolds OneClaimPerReference
PROPERTIES CancelledIsFinal CancelledSlotReturns
