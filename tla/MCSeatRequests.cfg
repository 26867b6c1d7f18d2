CONSTANTS
    Employees = {e1, e2}
    WorkstationIds = {w1, w2, w3}
    Requests = {r1, r2}
    NULL = NULL
    MaxRows = 2
    Kinds = {"transition", "assign", "unassign"}
SPECIFICATION MCSpec
INVARIANTS SeatedAreListed MovedHaveOneSeat
PROPERTY EveryRequestEnds
CHECK_DEADLOCK FALSE
