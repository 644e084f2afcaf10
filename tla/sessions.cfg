SPECIFICATION CopiesSpec
CONSTANTS
    Ids = {t1, t2, t3}
    Calls = {c}
    NoCall = NoCall
    TTL = 1
    MaxSessions = 2
    ClockBack = FALSE
    MaxTime = 2
SYMMETRY Alike
INVARIANT TypeOK
INVARIANT CapHeld
PROPERTY CacheContract
PROPERTY TurnsApart
\* The turns end, and the clock stops at its bound.
CHECK_DEADLOCK FALSE
