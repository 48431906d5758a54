SPECIFICATION FairOutageSpec
CHECK_DEADLOCK FALSE
CONSTANTS
    None = None
    Idle = Idle
    Planned = {w1, w2}
    Outage = outage
    Plans <- MCPlans
PROPERTIES OutageStaysClosed OutageIsLogged AlertIsResolved
