CONSTANTS
    j1 = j1
    j2 = j2
    MaxRecovery = 1
    Job <- TwoJobs
    Restarts = FALSE
    MaxFaults = 1
SPECIFICATION FlowSpec
CHECK_DEADLOCK FALSE
INVARIANTS
    FlowTypeOK
    NeverMissing
    QuietMeansEnded
    VerdictIsFinal
    DrainVerdict
PROPERTIES
    WaitEnds
