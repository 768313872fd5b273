SPECIFICATION FairSpec
CONSTANTS
    Routers = {r1}
    Msgs = {m1, m2}
    MaxSessions = 2
    MaxCalls = 1
    maxConnectedRouters = 1
    permitInbound = TRUE
INVARIANTS
    TypeOK
    ExactlyOneWaiter
    MessageAccounted
    AbandonedOnlyAtDeadEnds
PROPERTY
    QueueDrains
CHECK_DEADLOCK FALSE
