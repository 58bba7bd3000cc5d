\* Chats, streams, other requests and refusals of two handlers, a limit of one
\* admission per window and of two units a day, a queue with room for one, and
\* two workers whose stores refuse what they like.
CONSTANTS
    h1 = h1
    h2 = h2
    w1 = w1
    w2 = w2
    k = k
    Handlers <- MCHandlers
    Workers <- MCWorkers
    Users <- MCUsers
    Requests <- MCRequests
    Keys <- MCKeys
    Nothing = Nothing
    data <- MCdata
    Alphabet <- MCAlphabet
    PartOf <- MCPartOf
    Routed <- MCRouted
    Usages <- MCUsages
    Guarded = TRUE
    MaxCost = 2
    DailyLimit = 2
    QueueSize = 1
    QueryLimit = 1
    Limit = 1
    Window = 1
    TicksPerSecond = 2
    TicksPerDay = 2
    MaxTime = 2
    MaxArrivals = 2
    MaxChats = 2
SPECIFICATION Spec
INVARIANTS
    NoBurst
    PatienceRewarded
    MoneyReconciles
    CountsReconcile
    ReportsAgree
PROPERTY
    KeepsBooks
SYMMETRY Symmetry
CHECK_DEADLOCK FALSE
