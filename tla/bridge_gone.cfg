SPECIFICATION ServiceSpec
CONSTANTS
    Ids = {r1, r2}
    NoOne = NoOne
    MaxConcurrent = 1
    TTL = 1
    MaxSessions = 1
    MaxTime = 2
    ClockBack = FALSE
\* Requests end, and the clock stops at its bound.
CHECK_DEADLOCK FALSE
INVARIANT SavedWhenGone
