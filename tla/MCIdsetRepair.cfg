\* The shard count changes and commits may be torn.
SPECIFICATION Spec
CONSTANTS
    a = a
    b = b
    c = c
    Ids <- MCIds
    Hash <- MCHash
    Counts = {1, 2}
    Damage = TRUE
INVARIANTS
    NoMissedDeletion
    SaveRemembers
    SaveRepairs
