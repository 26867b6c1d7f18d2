CONSTANTS
    Employees = {e1, e2}
    WorkstationIds = {w1, w2, w3}
    Branches = {b1, b2}
    Positions = {p1}
    NULL = NULL
SPECIFICATION Spec
SYMMETRY Symmetry
INVARIANT TypeOK
PROPERTIES SeatsStayListed NoDirectTakeover
