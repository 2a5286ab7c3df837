CONSTANTS
    c1 = c1
    Call <- OneCall
    MaxMedia = 2
    DaemonReads <- DefaultLimit
    MaxFaults = 2
SPECIFICATION Spec
CHECK_DEADLOCK FALSE
INVARIANTS
    TypeOK
    AnswerIsTrue
    StagingIsOwned
    RulesAgree
PROPERTIES
    Delivered
