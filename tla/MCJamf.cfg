SPECIFICATION FairSpec
CONSTANTS
    N = 3
    PageSize = 1
    NoUDID = {2}
INVARIANTS
    TypeOK
    EmitsAllCurrent
    DeletesAbsent
PROPERTIES
    SyncEnds
