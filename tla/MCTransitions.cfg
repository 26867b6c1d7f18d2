CONSTANTS
    Employees = {e1, e2, e3}
    WorkstationIds = {w1, w2, w3}
    InitialWorkstations = {w1, w2}
    Branches = {b1, b2, b3}
    Positions = {p1}
    NULL = NULL
    MaxRows = 3
    MaxRequests = 1
SPECIFICATION MCSpec
SYMMETRY Symmetry
INVARIANTS TransitionsTypeOK BatchInvariant
PROPERTIES ImplementsSeatingPlan BranchBatchKeepsPostsExclusive
