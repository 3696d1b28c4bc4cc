SPECIFICATION Spec
CONSTANTS
    a = a
    b = b
    PHONE = PHONE
    NAME = NAME
    Char <- MCChar
    Entity <- MCEntity
    ActionOf <- MCActionOf
    MaxIndex = 2
    Requests <- MCRequests
INVARIANTS
    TypeOK
    MasksWhatWasDetected
    OffsetsStayValid
    RoundTrip
    OnePlaceholderPerValue
    NumberedWithoutGaps
    NumberedAsReplaced
PROPERTIES
    MappingOnlyGrows
CHECK_DEADLOCK FALSE
