SPECIFICATION Spec
CONSTANTS
    a1 = a1
    a2 = a2
    b1 = b1
    Conns <- MCConns
    Addrs <- MCAddrs
    OwnerOf <- MCOwnerOf
    RequestsOf <- MCRequestsOf
    MaxFrames = 1
    BufferSize = 3
    None = None
INVARIANTS
    TypeOK
    AuthAnswerFirst
    MutexedFramesAreWhole
    DeliveredAsAddressed
    SessionsAreServed
    NewestSessionStays
CHECK_DEADLOCK FALSE
