CONSTANTS
    Groups <- MCGroups
    Entity <- MCEntity
    Other <- MCOther
    MaxMembers = 3
    MaxRemoved = 1
SPECIFICATION FairSpec
INVARIANTS
    GraphTypeOK
    ResultIsTransitive
PROPERTIES
    ImplementsMembership
    EndsWithoutFile
