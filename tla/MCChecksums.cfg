SPECIFICATION Spec
CONSTANTS
    Inputs <- MCInputs
INVARIANTS
    TypeOK
    ChangedDigitDetected
    ExchangeDetected
CHECK_DEADLOCK FALSE
