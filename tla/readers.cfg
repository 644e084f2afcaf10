SPECIFICATION Spec
CONSTANTS
    Streams <- MCStreams
    Answers <- MCAnswers
    Inputs <- MCInputs
    Cutoffs <- MCCutoffs
    MaxPieces = 3
INVARIANT FramesArrive
INVARIANT ThinkAlike
INVARIANT InputAddsUp
\* A text comes to its end.
CHECK_DEADLOCK FALSE
