SPECIFICATION Spec
CONSTANTS
    Shares = {x, y}
    Paths = {top, sub}
    Top = top
    None = None
    Nameless = Nameless
    MaxHistory = 4
    MaxEvents = 5
SYMMETRY MCSymmetry
CHECK_DEADLOCK FALSE
INVARIANTS TypeOK AddressAgrees ShownWasUnlocked SpinnersOwed
PROPERTY RouteAnswersCurrent
