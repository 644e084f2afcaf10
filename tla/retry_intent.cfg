SPECIFICATION Spec
CONSTANTS
    Requests <- Chosen
    Statuses = {200, 400, 500}
    Errors <- MCErrors
    MaxRetries = 1
    CompatCap = 7
INVARIANT IntentKept
\* A request really ends.
CHECK_DEADLOCK FALSE
