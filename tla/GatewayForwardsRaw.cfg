SPECIFICATION Spec
CONSTANTS
    r1 = r1
    r2 = r2
    PHONE = PHONE
    RRN = RRN
    BRN = BRN
    PASSPORT = PASSPORT
    PERSON = PERSON
    Entity <- MCEntity
    ActionOf <- MCActionOf
    Request <- OneRequest
    Bodies <- MCBodies
    Policies <- DegradePolicies
    Sinks <- WorkingSinks
    MaxIndex = 1
INVARIANT
    ForwardsWhatWasScanned
CHECK_DEADLOCK FALSE
