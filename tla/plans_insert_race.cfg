SPECIFICATION Spec
CONSTANTS
    Upload = {u1, u2}
    u1 = u1
    u2 = u2
    u3 = u3
    Seeder = Seeder
    issuance = issuance
    collection = collection
    march = march
    april = april
    Period <- MCPeriod
    Category <- MCCategory
    Sheets <- MCFewSheets
    SeededKeys <- MCSeededKeys
    SeededCategories <- MCSeededCategories
INVARIANT DuplicateIsClientError
