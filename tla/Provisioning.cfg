SPECIFICATION FairSpec
CHECK_DEADLOCK FALSE
CONSTANTS
    NoKey = NoKey
    NoServer = NoServer
    NoOrder = NoOrder
    Idle = Idle
    Orders = {o1}
    Ops = {a1, a2}
    OrderOf <- MCOrderOf
    Servers = {s1}
    Slots <- MCSlots
    Callers = {c1, c2}
    Asked <- MCAsked
    Second = c2
    Twice = a2
    KeyColumnsMapped = TRUE
    DatabaseMayFail = TRUE
INVARIANTS NeverOverReserved KeyIsTraceable OneKeyPerOrder CommittedHasKey
PROPERTIES SettledIsFinal ReservationEnds
