\* One text job and two workers under the fairness of FairSpec: writes,
\* renames and recovery's listing may fail, and there are enough halts to pass
\* the ceiling.
SPECIFICATION FairSpec
CONSTANTS
    j1 = j1
    j2 = j2
    w1 = w1
    w2 = w2
    NoJob = NoJob
    Job <- OneJob
    Worker <- TwoWorkers
    Kind <- OneText
    MaxRecovery = 2
    MaxHalts = 4
    FaultKinds = {"write", "rename", "list"}
    MaxFaults = 1
PROPERTIES
    KeepsPromise
    EveryJobEnds
CHECK_DEADLOCK FALSE
