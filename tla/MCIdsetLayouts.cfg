\* The shard count changes between syncs; commits are whole.
SPECIFICATION Spec
CONSTANTS
    a = a
    b = b
    c = c
    Ids <- MCIds
    Hash <- MCHash
    Counts = {1, 2, 3}
    Damage = FALSE
INVARIANTS
    TypeOK
    NoSpuriousDeletion
    RecallExact
PROPERTIES
    ImplementsPresenceSet
