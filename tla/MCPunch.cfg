SPECIFICATION FairSpec
CONSTANTS
    Peers = {a, b}
    MaxTries = 2
    MaxExtra = 1
INVARIANTS
    TypeOK
    WaitGroupExact
    SuccessIsMutual
PROPERTIES
    PunchEnds
CHECK_DEADLOCK FALSE
