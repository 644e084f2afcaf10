SPECIFICATION Spec
CONSTANTS
    Decls <- MCDecls
    Hosted <- MCHosted
    CustomItems <- MCCustomItems
    None = None
    MaxLen = 2
    Digest <- MCDigest
    MaxDecls = 2
    MaxTurns = 2
INVARIANT TypeOK
INVARIANT ToolsMatchSpecs
INVARIANT DeclaredArrive
INVARIANT CallsAreOfTheirTool
INVARIANT ModesAgree
INVARIANT CallsReturn
\* The conversation ends with its last turn.
CHECK_DEADLOCK FALSE
