SPECIFICATION MCSpec

CONSTANTS
    NULL = NULL
    Readers = {r1}
    Writers = {w1, w2}
    r1 = r1
    w1 = w1
    w2 = w2
    MaxSaves = 2
    ResponseTtl = 1
    DashboardTtl = 2
    CatalogTtl = 2
    RequestTime = 1

INVARIANTS
    ChangesReachTheRows
    AnswersAreRecent

PROPERTIES
    RowsBecomeTrue
    EveryChangeEnds
