SPECIFICATION Spec
CONSTANTS
    Entity <- MCEntity
    ActionOf <- MCActionOf
    Char <- MCChar
    Lower <- MCLower
    Space = " "
    Keywords <- MCKeywords
    Window = 3
    Today = 20260101
    Inputs <- MCInputs
INVARIANTS
    TypeOK
    ContextOnOneSide
    TiesGoToTheFirst
CHECK_DEADLOCK FALSE
