SPECIFICATION FairSpec
CONSTANTS
    ToolIndex = {0, 1}
    Names <- MCNames
    Kind <- MCKind
    Chunks <- ContentChunks
    EndHabits = {}
    Interleaves = TRUE
    MaxFrames = 5
INVARIANT EventsWellOrdered
INVARIANT TerminalListsAll
INVARIANT NothingHeldBack
PROPERTY StreamEnds
PROPERTY ItemsClose
\* The stream really ends: nothing is left to do once the upstream closed.
CHECK_DEADLOCK FALSE
