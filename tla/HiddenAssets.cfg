CONSTANTS
    Assets = {1}
    Requests = {r1, r2}
    Statuses = {"New", "Functional", "Defective"}
    NULL = NULL
    ChunkSize = 1
    MaxNow = 2
SPECIFICATION Spec
INVARIANT HiddenAreDefective
CHECK_DEADLOCK FALSE
