SPECIFICATION FairSpec
CONSTANTS
    r1 = r1
    r2 = r2
    PHONE = PHONE
    RRN = RRN
    BRN = BRN
    PASSPORT = PASSPORT
    PERSON = PERSON
    Entity <- MCEntity
    ActionOf <- MCActionOf
    Request <- MCRequest
    Bodies <- MCBodies
    Policies <- MCPolicies
    Sinks <- MCSinks
    MaxIndex = 1
INVARIANTS
    TypeOK
    SentIsScanned
    RefusedForAReason
    RefusedBodyUntouched
    AnswerRestored
    CountersAgree
    EventTellsWhatHappened
    EveryVerdictAudited
    FlaggedForItsSignals
PROPERTIES
    RefinesRequestLife
    EveryRequestConcludes
CHECK_DEADLOCK FALSE
