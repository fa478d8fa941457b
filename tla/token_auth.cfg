SPECIFICATION Spec
CONSTANTS
    Replica = {h1, h2}
    c1 = c1
    c2 = c2
    Client = {c1, c2}
    Settings <- MCSettings
    Password <- MCPassword
    Key <- MCKey
    Second = 2
    Ttl = 4
    Skews <- MCSkews
    MaxTime = 9
    MaxDeploys = 3
    None = None
INVARIANTS
    TypeOK
    HonouredWhileTold
    ExpiryBounded
    ServedIsEntitled
