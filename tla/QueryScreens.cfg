SPECIFICATION Spec
CONSTANTS
    Keys <- AllKeys
    MaxWrites = 1
INVARIANTS
    CachedDataShow
    OwnWritesShow
    MarkedAreFetched
PROPERTY WaitingEnds
CHECK_DEADLOCK FALSE
