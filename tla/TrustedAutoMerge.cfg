SPECIFICATION Spec
CONSTANTS
    Prs = {p1, p2}
    Commits = {c1, c2}
    NoCommit = NoCommit
    Checks = {analyze, cla, extra}
    Expected = {analyze}
    Required = {cla}
    None = None
    All = All
    PageSize = 3
    MaxPushes = 2
    MaxResults = 2
    MaxEdits = 1
SYMMETRY MCSymmetry
CHECK_DEADLOCK FALSE
INVARIANTS TypeOK MergedWasChecked OneApprovalInForce NothingForgotten DispatchedOnce
