SPECIFICATION FairSpec
CONSTANTS
    a = a
    b = b
    c = c
    p1 = p1
    p2 = p2
    Calls <- MCCalls
    NoCall = NoCall
    Ports <- MCPorts
    Disabled = Disabled
    MaxConns = 1
    MaxSessions = 1
CHECK_DEADLOCK FALSE
INVARIANTS TypeOK StatusTruthful GenerationsDisjoint SessionsEndWithGeneration NoOrphanServer
PROPERTY EveryCallReturns
