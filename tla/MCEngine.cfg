SPECIFICATION MergeSpec
CONSTANTS
    PHONE = PHONE
    RRN = RRN
    PERSON = PERSON
    PASSPORT = PASSPORT
    Entity <- MCEntity
    ActionOf <- MCActionOf
    Lists <- MCLists
INVARIANTS
    MergeTypeOK
    ChosenDisjoint
    MergeIsMerged
CHECK_DEADLOCK FALSE
