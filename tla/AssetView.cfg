SPECIFICATION Spec
CONSTANTS
    None = None
    Assets = {a1, a2}
    MaxDesktops = 1
    MaxRequests = 2
INVARIANTS
    SavesOwnAsset
    SavesInTurn
    RepairsOwnAsset
    SelectedAreListed
PROPERTY PendingEnds
CHECK_DEADLOCK FALSE
