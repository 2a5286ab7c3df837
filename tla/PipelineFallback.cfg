\* A failing rename while recovery requeues a job.
SPECIFICATION Spec
CONSTANTS
    j1 = j1
    j2 = j2
    w1 = w1
    w2 = w2
    NoJob = NoJob
    Job <- OneJob
    Worker <- TwoWorkers
    Kind <- OneText
    MaxRecovery = 2
    MaxHalts = 1
    FaultKinds = {"rename"}
    MaxFaults = 1
INVARIANT FailedIsDiagnosed
CHECK_DEADLOCK FALSE
