SPECIFICATION Spec
CONSTANTS
    Keys = {k1, k2, k3}
    Attempts = {a1, a2}
    MaxFailures = 2
    MaxAuthClients = 2
    AuthWindow = 2
    MaxTime = 3
    MaxAttempts = 6
SYMMETRY MCSymmetry
CHECK_DEADLOCK FALSE
INVARIANTS TypeOK FailuresBounded
PROPERTIES RefusalJustified PruneComplete
