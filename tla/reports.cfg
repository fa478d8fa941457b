SPECIFICATION Spec
CONSTANTS
    Request = {r1, r2}
    DaysInMonth = 2
    MonthsInYear = 2
    Queries <- MCQueries
    Batches <- MCBatches
    Initial <- MCInitial
INVARIANTS
    TypeOK
    ReportsAgree
PROPERTY KeepsTheDesk
