SPECIFICATION Spec
CONSTANTS
    Server = {s1, s2}
    Script = {job1}
    Seeding = {s2}
    CsvRow <- MCCsvRow
    Faults <- NoFaults
    Stored <- MCStored
    UploadKeys <- MCUploadKeys
    UploadRefs <- MCUploadRefs
    NoKey = NoKey
    Login = "admin"
    MaxCrashes = 1
INVARIANT CsvLoaded
