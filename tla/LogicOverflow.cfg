SPECIFICATION FairSpec
CONSTANTS
    Funcs = {f1, f2}
    Handlers = {h1}
    Capacity = 1
    Timeouts = {0, 2}
    MaxElapsed = 2
PROPERTY OverflowRunsLater
