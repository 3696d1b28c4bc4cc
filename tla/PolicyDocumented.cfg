SPECIFICATION Spec
CONSTANTS
    Word <- MCWord
    Lower <- MCLower
    BooleanOf <- MCBooleanOf
    NumberOf <- MCNumberOf
    Files <- MCFiles
INVARIANT
    DocumentedIsAccepted
CHECK_DEADLOCK FALSE
