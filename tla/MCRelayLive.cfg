SPECIFICATION FairSpec
CONSTANTS
    a1 = a1
    a2 = a2
    b1 = b1
    Conns <- MCPair
    Addrs <- MCAddrs
    OwnerOf <- MCOwnerOf
    RequestsOf <- MCBoth
    MaxFrames = 2
    BufferSize = 1
    None = None
PROPERTIES
    FramesAreProcessed
CHECK_DEADLOCK FALSE
