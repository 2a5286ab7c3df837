CONSTANTS
    j1 = j1
    j2 = j2
    MaxRecovery = 1
    Job <- OneJob
    Restarts = FALSE
    MaxFaults = 1
SPECIFICATION FlowSpec
CHECK_DEADLOCK FALSE
INVARIANTS
    QuietIsObserved
