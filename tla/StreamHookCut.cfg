SPECIFICATION Spec
CONSTANTS
    Char <- MCChar
    Open = "["
    Placeholder <- MCPlaceholder
    PotentialPrefix <- MCPotentialPrefix
    MaxPlaceholderLen <- MCMaxPlaceholderLen
    Index <- MCIndex
    Responses <- MCResponses
    Mappings <- MCMappings
INVARIANT
    NothingLeftAtEnd
CHECK_DEADLOCK FALSE
