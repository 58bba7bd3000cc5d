\* Hits, misses, expiries, evictions and double fetches of one key; the list of
\* entries refines the store that may forget anything at any time.
CONSTANTS
    h1 = h1
    h2 = h2
    a = a
    b = b
    c = c
    Handlers <- MCHandlers
    Keys <- MCKeys
    Nothing = Nothing
    MaxSize = 2
    TTL = 1
    MaxTime = 2
    MaxUses = 6
SPECIFICATION Spec
INVARIANTS
    EntriesConserved
    WorkingSetCached
PROPERTY
    ImplementsStore
CHECK_DEADLOCK FALSE
