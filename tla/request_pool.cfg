SPECIFICATION FairSpec
CONSTANTS
    Request = {r1, r2, r3}
    r1 = r1
    r2 = r2
    r3 = r3
    Scenarios <- MCScenarios
    PoolSize = 1
    MaxOverflow = 1
    Threads = 1
    MaxOutages = 1
    None = None
INVARIANTS
    TypeOK
    PoolAccounted
    StrangersTakeNothing
    OutagesEndWithTheDatabase
    StatusTruth
PROPERTIES
    AnsweredOrLeftBehind
    EveryRequestAnswered
