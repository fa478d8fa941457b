SPECIFICATION Spec
CONSTANTS
    Files <- MCFiles
    Months <- MCMonths
    MidDays <- MCMidDays
    Words <- MCWords
    Sums <- MCSums
    KnownCategories <- MCKnownCategories
    TakenKeys <- MCTakenKeys
INVARIANT LocationsAreSheetRows
