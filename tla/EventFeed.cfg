SPECIFICATION Spec
CONSTANTS
    Batch = 2
    QueueSize = 1
    RingSize = 2
    Others <- OthersWrites
    Own <- OwnCommands
    Query <- Followed
    MaxWrites = 2
    MaxFaults = 1
INVARIANTS
    TypeOK
    NoLostInvalidation
    ListedOnce
CHECK_DEADLOCK FALSE
