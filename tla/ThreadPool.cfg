CONSTANTS
    Workers = {w1, w2}
    Callers = {c1}
    Capacity = 1
    Commands = {"start", "drain", "stop", "shutdown"}
    MaxJobs = 1
    MaxCommands = 3
    SpawnMayFail = TRUE
SPECIFICATION FairSpec
INVARIANTS
    LeavesRunForDrainOrStop
    WaitsForJobs
PROPERTIES
    CommandsReturn
CHECK_DEADLOCK FALSE
