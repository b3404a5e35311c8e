SPECIFICATION EachSpec
CONSTANTS
    Keys = {k1, k2, k3}
    Values = {v1, v2}
    Absent = Absent
INVARIANTS
    EachTypeOK
    FlushedBehind
    EachShowsView
    EachComplete
PROPERTIES
    CommitKeepsView
    ImplementsStagedStore
    EachOnce
