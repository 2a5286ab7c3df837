CONSTANTS
    d1 = d1
    d2 = d2
    p1 = p1
    s1 = s1
    Nobody = Nobody
    Daemon <- TwoDaemons
    Prober <- NoClient
    Stopper <- OneStopper
    Attempts = 2
    MaxHits = 0
SPECIFICATION Spec
CHECK_DEADLOCK FALSE
INVARIANTS
    FilesStay
