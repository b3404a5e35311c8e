CONSTANTS
    Endpoint = {e1, e2}
    MaxReset = 3
    Attempts = 3
    Delay = 1
    MaxWait = 2
    TokenLife = 3
    Grace = 1
SPECIFICATION FairSpec
INVARIANTS
    RequestsTypeOK
    LimiterReopens
    RespectsNamedTime
PROPERTIES
    SendsUsableToken
    RequestEnds
