SPECIFICATION Spec
CONSTANTS
    ToolIndex = {0, 1}
    Names <- MCNames
    Kind <- MCKind
    Chunks <- PlainChunks
    EndHabits = {"exception"}
    Interleaves = FALSE
    MaxFrames = 3
PROPERTY OneEnding
\* The stream really ends: nothing is left to do once the upstream closed.
CHECK_DEADLOCK FALSE
