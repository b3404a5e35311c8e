SPECIFICATION FairSpec
CONSTANTS
    Users = {1, 2}
    Devices = {3}
    PageSize = 1
    Populations = {{1, 2}, {3}}
    MaxTime = 2
INVARIANTS
    TypeOK
    OnlySlipsFallBehind
    FullSyncKeepsPresent
    FullSyncDeletesRemembered
PROPERTIES
    Converges
