SPECIFICATION ServiceSpec
CONSTANTS
    Ids = {r1, r2}
    NoOne = NoOne
    MaxConcurrent = 1
    TTL = 1
    MaxSessions = 1
    MaxTime = 2
    ClockBack = FALSE
INVARIANT ServiceTypeOK
INVARIANT PermitsAccounted
INVARIANT SavedAtEnd
INVARIANT BuiltOnSound
INVARIANT CompletedIsSaved
PROPERTY StoreContract
PROPERTY Served
\* Requests end, and the clock stops at its bound.
CHECK_DEADLOCK FALSE
