CONSTANTS
    Rows = {r1, r2}
    None = None
    MaxFillings = 3
    MaxCalls = 3
    MaxDesktopForms = 2
    MaxIds = 4
SYMMETRY Symmetry
SPECIFICATION FormsSpec
INVARIANTS WritesOwnForm OneRecordPerForm ComponentsOfOwnAsset
PROPERTY ComponentsAreThoseShown
CHECK_DEADLOCK FALSE
