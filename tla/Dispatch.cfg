\* Two requests, batch or stream, with every upstream outcome, over a chain
\* of three models of which small has no client and one of two that both have.
\* Streams may fall silent for ever.
CONSTANTS
    big = big
    mid = mid
    small = small
    r1 = r1
    r2 = r2
    Models <- MCModels
    Requests <- MCRequests
    Plans <- MCPlans
    Served = {big, mid}
    UpstreamErrors = {"RateLimit", "ServerError", "BadRequest"}
    MaxFailures = 1
    Cooldown = 0
    RetryAfter = 1
    MaxTime = 1
    MaxChunks = 2
SPECIFICATION FairSpec
INVARIANTS
    OneVoice
    WellFramed
    ItersClosed
    OnlyTransientCascades
    ChainExhausted
    LastErrorReported
    SkipsAreEarned
PROPERTIES
    RoutedByHealth
    BatchAnswered
CHECK_DEADLOCK FALSE
