\* The signal arrives with entries in the channel.
CONSTANTS
    h1 = h1
    h2 = h2
    h3 = h3
    h4 = h4
    w1 = w1
    w2 = w2
    Handlers <- MCHandlers
    Workers <- MCWorkers
    Stores <- MCStores
    Capacity = 1
SPECIFICATION PoolFairSpec
INVARIANT AcceptedIsPersisted
CHECK_DEADLOCK FALSE
