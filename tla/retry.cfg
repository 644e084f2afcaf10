SPECIFICATION FairSpec
CONSTANTS
    Requests <- AllRequests
    Statuses = {200, 400, 401, 429, 500}
    Errors <- MCErrors
    MaxRetries = 2
    CompatCap = 7
INVARIANT TypeOK
INVARIANT CompatBounded
INVARIANT AttemptKeepsIntent
INVARIANT LeakBounded
PROPERTY RetryResends
PROPERTY ConcludesUnclamped
\* A request really ends.
CHECK_DEADLOCK FALSE
