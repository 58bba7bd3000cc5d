\* Handlers, workers and a shutdown at any moment; the channel overflows, and
\* the stores may fail or hang.
CONSTANTS
    h1 = h1
    h2 = h2
    h3 = h3
    h4 = h4
    w1 = w1
    w2 = w2
    Handlers <- MCHandlers
    Workers <- MCWorkers
    Stores <- MCStores
    Capacity = 1
SPECIFICATION PoolFairSpec
INVARIANTS
    AcceptedIsKept
    StoresAgree
PROPERTIES
    SubmitReturns
    CloseReturns
CHECK_DEADLOCK FALSE
