SPECIFICATION Spec
CONSTANTS
    Handlers = {h1, h2}
    Browsers = {b1}
    Clients = {c1, c2}
    NoClient = NoClient
    Tokens = {t1, t2}
    NoToken = NoToken
    Shares = {s1, s2}
    NoShare = NoShare
    Slugs = {g1}
    MaxRevision = 2
    IdleLifetime = 1
    AbsoluteLifetime = 1
    MaxSessions = 2
    MaxFailures = 1
    MaxAuthClients = 4
    AuthWindow = 1
    MaxTime = 1
    MaxEdits = 2
    MaxRequests = 3
CHECK_DEADLOCK FALSE
SYMMETRY MCSymmetry
PROPERTIES ReadsEarned CookiesEndForGood
