SPECIFICATION Spec
CONSTANTS
    Peers = {a, b}
    MaxTries = 2
    MaxExtra = 0
INVARIANTS
    ReceiverIsStopped
CHECK_DEADLOCK FALSE
