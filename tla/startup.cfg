SPECIFICATION FairSpec
CONSTANTS
    Server = {s1, s2}
    Script = {job1}
    Seeding = {s2}
    CsvRow <- MCCsvRow
    Faults <- MCFaults
    Stored <- MCStored
    UploadKeys <- MCUploadKeys
    UploadRefs <- MCUploadRefs
    NoKey = NoKey
    Login = "admin"
    MaxCrashes = 2
INVARIANTS
    TypeOK
    TablesSound
    SeedAllOrNothing
    ServingIsReady
PROPERTY ServesUnlessHopeless
