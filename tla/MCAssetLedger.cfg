CONSTANTS
    Assets = {a1, a2}
    Workstations = {w1, w2}
    Employees = {e1, e2}
    Repairs = {p1, p2}
    Items = {i1}
    Requests = {r1, r2}
    Statuses = {"Functional", "Under Repair", "Defective"}
    RepairStatuses = {"In Repair", "Completed", "Returned"}
    NULL = NULL
SPECIFICATION MCSpec
INVARIANTS TypeOK PlaceIsKnown ReasonsAreOwn ItemOrAsset
PROPERTY ReturnIsLogged
SYMMETRY Symmetric
CHECK_DEADLOCK FALSE
