SPECIFICATION FairSpec
CONSTANTS
    Deployment = {d1, d2, d3}
    Undo = {u1}
    MaxCrashes = 1
INVARIANTS
    TypeOK
    HeadIsWhole
    FailuresHaveCause
PROPERTIES
    ApiFindsSchema
    EventuallyUp
