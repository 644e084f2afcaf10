SPECIFICATION Spec
CONSTANTS
    CallIds = {"a", "b", "c"}
    Items <- MCItems
    Answers <- MCAnswers
    Repeats = FALSE
    MaxItems = 3
    MaxTurns = 2
INVARIANT TypeOK
INVARIANT Anchored
INVARIANT CallsOnce
INVARIANT HistoryKept
INVARIANT NewOutputsArrive
\* The conversation ends with its last turn.
CHECK_DEADLOCK FALSE
