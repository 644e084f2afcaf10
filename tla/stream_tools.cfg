SPECIFICATION Spec
CONSTANTS
    ToolIndex = {0, 1}
    Names <- MCNames
    Kind <- MCKind
    Chunks <- ToolChunks
    EndHabits = {}
    Interleaves = FALSE
    MaxFrames = 5
INVARIANT TypeOK
INVARIANT NothingDropped
INVARIANT ReplayMatches
PROPERTY EventsContract
\* The stream really ends: nothing is left to do once the upstream closed.
CHECK_DEADLOCK FALSE
