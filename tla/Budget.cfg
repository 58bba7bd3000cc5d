\* A daily and a monthly limit, both overrun; snapshots of any age, one crash.
CONSTANTS
    h1 = h1
    h2 = h2
    Handlers <- MCHandlers
    DailyLimit = 2
    MonthlyLimit = 3
    Thresholds = {50, 100}
    MaxCost = 2
    DaysPerMonth = 2
    MaxDay = 3
    MaxCrashes = 1
SPECIFICATION Spec
SYMMETRY Symmetry
INVARIANTS
    OverspendBounded
    BooksBalance
    NeverOvercharges
    AlertsMatch
