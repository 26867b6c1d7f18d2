CONSTANTS
    Employees = {e1, e2, e3}
    WorkstationIds = {w1, w2, w3}
    InitialWorkstations = {w1, w2, w3}
    Branches = {b1, b2, b3}
    Positions = {p1}
    NULL = NULL
    MaxRows = 3
    MaxEdits = 2
    MaxRequests = 1
SPECIFICATION MCSpec
SYMMETRY Symmetry
CHECK_DEADLOCK FALSE
INVARIANTS ExchangesAreRounds
PROPERTIES EditsAreChanges ChainsAreRotations OutcomeIsPreview
