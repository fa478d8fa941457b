SPECIFICATION Spec
CONSTANTS
    Upload = {u1, u2, u3}
    u1 = u1
    u2 = u2
    u3 = u3
    Seeder = Seeder
    issuance = issuance
    collection = collection
    march = march
    april = april
    Period <- MCPeriod
    Category <- MCCategory
    Sheets <- MCSheets
    SeededKeys <- MCSeededKeys
    SeededCategories <- MCSeededCategories
SYMMETRY MCSymmetry
INVARIANTS
    TypeOK
    UniquePeriodCategory
    AllOrNothing
    AnswerTruth
    RefusalJustified
    LostRaceJustified
