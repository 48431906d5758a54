SPECIFICATION FairSpec
CHECK_DEADLOCK FALSE
CONSTANTS
    urgent = urgent
    plain = plain
    orphan = orphan
    Nobody = Nobody
    Jobs = {urgent, plain, orphan}
    Workers = {w1, w2}
    Priority <- MCPriority
    Unhandled = {orphan}
    MaxAttempts = 2
    MaxCrashes = 1
INVARIANTS OwnAttemptOnly
PROPERTIES WorksLikeLeases EveryJobEnds
