SPECIFICATION FairSpec
CONSTANTS
    a = a
    b = b
    app1 = app1
    app2 = app2
    conn1 = conn1
    conn2 = conn2
    NoAddr = NoAddr
    Peers <- MCPeers
    Other <- MCOther
    HeloLen <- MCHeloLen
    MaxTries = 2
    KeyLen = 3
    AuthLen = 2
    TunnelBytes = 2
    Apps <- MCApps
    MaxRequests = 2
    MaxChunks = 1
    Handlers <- MCHandlers
INVARIANTS TypeOK CipherStreamsAgree RepliesGoToSpeakers EOFAfterData ConnsNeedsRace
PROPERTIES PunchingEnds UdpTunnelEnds StreamTunnelEnds SocksEnds
CHECK_DEADLOCK FALSE
