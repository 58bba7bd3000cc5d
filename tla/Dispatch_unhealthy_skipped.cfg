\* A chain whose last model is quarantined when the request reaches it.
CONSTANTS
    big = big
    mid = mid
    small = small
    r1 = r1
    r2 = r2
    Models <- MCModels
    Requests <- MCRequests
    Plans <- ShortPlan
    Served = {big, small}
    UpstreamErrors = {"RateLimit", "ServerError"}
    MaxFailures = 1
    Cooldown = 0
    RetryAfter = 1
    MaxTime = 1
    MaxChunks = 2
SPECIFICATION FairSpec

INVARIANT UnhealthyTriedLast
CHECK_DEADLOCK FALSE
