SPECIFICATION Spec
CONSTANTS
    CallIds = {"a", "b", "c"}
    Items <- ToolTurn
    Answers <- MCAnswers
    Repeats = FALSE
    MaxItems = 2
    MaxTurns = 2
INVARIANT OutputsArrive
\* The conversation ends with its last turn.
CHECK_DEADLOCK FALSE
