SPECIFICATION FairSpec
CONSTANTS
    Char <- MCChar
    Open = "["
    Placeholder <- MCPlaceholder
    PotentialPrefix <- MCPotentialPrefix
    MaxPlaceholderLen <- MCMaxPlaceholderLen
    Texts <- MCTexts
    Mappings <- MCMappings
INVARIANTS
    TypeOK
    HeldBackOnlyIfUndecided
    SameAsOneShotRestore
PROPERTIES
    RefinesTextRestore
    ScanComputesPushed
    StreamCompletes
CHECK_DEADLOCK FALSE
