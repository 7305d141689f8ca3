SPECIFICATION Spec
CONSTANTS
    Tokens = {t1, t2, t3}
    NoToken = NoToken
    Clients = {c1, c2}
    NoClient = NoClient
    Shares = {s1, s2}
    Revisions = {1, 2}
    NoRevision = 0
    Lifetimes = {1, 2}
    AbsoluteLifetime = 3
    MaxSessions = 2
    MaxTime = 3
SYMMETRY MCSymmetry
PROPERTIES NeverRevived EvictsLeastRecent ImplementsGrants
