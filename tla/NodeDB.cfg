SPECIFICATION FairSpec
CONSTANTS
    Callers = {c1, c2}
    Routers = {r1, r2}
    Keep = {r2}
    MaxVersion = 2
    Capacity = 1
    MaxCalls = 3
    MaxCrashes = 1
    Nobody = Nobody
CHECK_DEADLOCK FALSE
INVARIANTS NoGhostFiles EntriesOnDisk
PROPERTY CallsReturnUnlessJammed
