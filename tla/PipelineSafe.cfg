\* Two jobs of different kinds and two workers: crashes and stops between any
\* two steps, and every kind of file operation may fail.
SPECIFICATION Spec
CONSTANTS
    j1 = j1
    j2 = j2
    w1 = w1
    w2 = w2
    NoJob = NoJob
    Job <- TwoJobs
    Worker <- TwoWorkers
    Kind <- TextAndEmbed
    MaxRecovery = 1
    MaxHalts = 2
    FaultKinds <- EveryFault
    MaxFaults = 1
SYMMETRY WorkersAreAlike
INVARIANTS
    TypeOK
    OneOwner
    RunsBounded
    DoneIsFresh
    StopsAreFree
    StrandedByFaults
PROPERTY FailuresAreDiagnosed
CHECK_DEADLOCK FALSE
