SPECIFICATION Spec
CONSTANTS
    Char <- MCChar
    Open = "["
    Placeholder <- MCPlaceholder
    PotentialPrefix <- MCPotentialPrefix
    MaxPlaceholderLen <- MCMaxPlaceholderLen
    Index <- MCIndex
    Responses <- MCResponses
    Mappings <- MCMappings
INVARIANTS
    TypeOK
    OnlyTailHeldBack
    FinishedIsRestored
CHECK_DEADLOCK FALSE
