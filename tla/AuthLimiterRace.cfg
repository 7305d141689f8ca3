SPECIFICATION Spec
CONSTANTS
    Keys = {k1, k2}
    Attempts = {a1, a2}
    MaxFailures = 1
    MaxAuthClients = 2
    AuthWindow = 2
    MaxTime = 3
    MaxAttempts = 5
SYMMETRY MCSymmetry
CHECK_DEADLOCK FALSE
INVARIANT FailuresPerMinute
