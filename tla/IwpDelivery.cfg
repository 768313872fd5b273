SPECIFICATION FairSpec
CONSTANTS
    MaxMsgs = 1
    NumFragments = 2
    DeliveryTimeout = 1
    ReplayWindow = 4
    TXFlushInterval = 1
    ACKInterval = 1
    TickInterval = 1
    MaxDelay = 1
    StartTime = 2
    MaxTime = 6
INVARIANTS
    TypeOK
    SuccessMeansDelivered
    AtMostOnce
    PendingBounded
PROPERTIES
    ReceiverOutwaitsSender
    EventuallyInformed
CHECK_DEADLOCK FALSE
