SPECIFICATION FairSpec
CONSTANTS
    Callers = {c1, c2}
    Routers = {r1}
    Keep = {}
    MaxVersion = 2
    Capacity = 1
    MaxCalls = 3
    MaxCrashes = 0
    Nobody = Nobody
CHECK_DEADLOCK FALSE
PROPERTY CallsReturn
