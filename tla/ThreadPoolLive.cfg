CONSTANTS
    Workers = {w1}
    Callers = {c1}
    Capacity = 1
    Commands = {"start", "drain", "stop", "shutdown", "disable"}
    MaxJobs = 2
    MaxCommands = 3
    SpawnMayFail = TRUE
SPECIFICATION FairSpec
PROPERTIES
    QueuedJobsRun
    AddJobReturns
CHECK_DEADLOCK FALSE
