SPECIFICATION Spec
CONSTANTS
    c1 = c1
    c2 = c2
    c3 = c3
    r1 = r1
    r2 = r2
    r3 = r3
    r4 = r4
    Clients <- MCClients
    Requests <- MCRequests
    Peer <- MCPeer
    Limits = {l1, l2, l3, l4}
    NoLimit = NoLimit
    GlobalStreams = 2
    ClientStreams = 1
    ClientRequests = 2
    ClientCapacity = 2
    ClientIdle = 1
    MaxTime = 2
SYMMETRY MCSymmetry
INVARIANT OneSemaphorePerAddress
