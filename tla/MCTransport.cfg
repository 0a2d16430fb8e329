SPECIFICATION FairSpec
CONSTANTS
    Relays = {r1, r2}
    Latencies = {0, 1, 2, 4}
    Threshold = 1
    MaxDiscovers = 2
    None = None
INVARIANTS
    TypeOK
    OneMonitor
    SelectionIsNearBest
    KindFollowsReporter
PROPERTIES
    StopReturns
