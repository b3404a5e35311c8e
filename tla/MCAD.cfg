SPECIFICATION Spec
CONSTANTS
    u1 = u1
    u2 = u2
    d1 = d1
    h = h
    Users = {u1, u2}
    Devices = {d1}
    Groups = {g, h}
    Group = g
    Configs <- MCConfigs
    MaxTime = 2
INVARIANTS
    TypeOK
    OnlySlipsFallBehind
    FullSyncKeepsPresent
    FullSyncDeletesRemembered
