SPECIFICATION FairSpec
CONSTANTS
    c1 = c1
    c2 = c2
    c3 = c3
    r1 = r1
    r2 = r2
    r3 = r3
    r4 = r4
    Clients = {c1, c2}
    Requests <- MCFewRequests
    Peer <- MCFewPeer
    Limits = {l1, l2, l3}
    NoLimit = NoLimit
    GlobalStreams = 1
    ClientStreams = 1
    ClientRequests = 1
    ClientCapacity = 1
    ClientIdle = 1
    MaxTime = 1
PROPERTY EveryRequestAnswered
