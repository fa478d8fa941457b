SPECIFICATION FairSpec
CONSTANTS
    Upload = {u1, u2, u3}
    u1 = u1
    u2 = u2
    u3 = u3
    Seeder = Seeder
    issuance = issuance
    collection = collection
    march = march
    april = april
    Period <- MCPeriod
    Category <- MCCategory
    Sheets <- MCRivalSheets
    SeededKeys <- MCSeededKeys
    SeededCategories <- MCCategory
INVARIANT IInv
PROPERTIES
    KeepsTheBook
    UploadAnswered
