SPECIFICATION Spec
CONSTANTS
    a1 = a1
    a2 = a2
    b1 = b1
    Conns <- MCPair
    Addrs <- MCAddrs
    OwnerOf <- MCOwnerOf
    RequestsOf <- MCRequestsOf
    MaxFrames = 2
    BufferSize = 3
    None = None
INVARIANTS
    FramesAreWhole
CHECK_DEADLOCK FALSE
