SPECIFICATION FairSpec
CONSTANTS
    Users = {u1, u2}
    Devices = {d1}
    NoLink = NoLink
INVARIANTS
    TypeOK
    NothingBehindLink
    NoRemovalBehindLink
PROPERTIES
    Converges
