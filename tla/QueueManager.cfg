CONSTANTS
    Threads = {t1, t2, t3}
    Capacity = 2
    NumGenerations = 5
    Start = 8
    Filled = 1
    MaxPushes = 3
    MaxPops = 1
    MaxThrows = 1
    MaxToggles = 2
SPECIFICATION FairSpec
INVARIANTS
    AssertionsHold
    PopsWhatItReserved
    NothingLeftBehind
    SizeIsCurrent
PROPERTIES
    IsBoundedQueue
    FullAndEmptyAreTrue
    OperationsReturn
