CONSTANTS
    j1 = j1
    j2 = j2
    w1 = w1
    w2 = w2
    Job <- MCJob
    Worker <- MCWorker
    Id <- MCId
    NoJob = NoJob
    NoOne = NoOne
    MaxFaults = 0
SPECIFICATION Spec
CHECK_DEADLOCK FALSE
PROPERTIES
    StopReturns
