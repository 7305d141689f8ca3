SPECIFICATION Spec
CONSTANTS
    c1 = c1
    d1 = d1
    Downloads = {d1}
    Clients = {c1}
    Peer <- MCOnePeer
    GlobalStreams = 1
    ClientStreams = 1
    ClientRequests = 1
    Ranges <- MCRanges
    Media = TRUE
    MaxSize = 2
    MaxWrites = 2
    Second = 1
    MaxTime = 2
    Policies <- MCAnyPolicy
    MaxPolicies = 1
    MaxRequests = 2
CHECK_DEADLOCK FALSE
INVARIANTS BodyIsRange CutOnlyByChange WithdrawnOnlyMidRequest QuietDelivery ResumeConsistent
