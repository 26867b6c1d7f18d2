CONSTANTS
    Assets = {1, 2}
    Requests = {r1, r2}
    Statuses = {"New", "Functional", "Defective"}
    NULL = NULL
    ChunkSize = 1
    MaxNow = 2
SPECIFICATION Spec
INVARIANTS StatusIsLogged DeadlineOnlyWhileDefective
PROPERTIES OnlyMarkedAreDeleted ExpiredGo
CHECK_DEADLOCK FALSE
