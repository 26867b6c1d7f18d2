CONSTANTS
    Employees = {e1, e2}
    WorkstationIds = {w1, w2}
    Requests = {r1, r2}
    NULL = NULL
    MaxRows = 1
    Kinds = {"transition"}
SPECIFICATION MCSpec
SYMMETRY Symmetry
PROPERTY OnlyOwnSeatsReleased
CHECK_DEADLOCK FALSE
