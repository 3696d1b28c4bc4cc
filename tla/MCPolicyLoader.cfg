SPECIFICATION Spec
CONSTANTS
    Word <- MCWord
    Lower <- MCLower
    BooleanOf <- MCBooleanOf
    NumberOf <- MCNumberOf
    Files <- MCFiles
INVARIANTS
    TypeOK
    LoadedAsWritten
    RefusedForASetting
CHECK_DEADLOCK FALSE
