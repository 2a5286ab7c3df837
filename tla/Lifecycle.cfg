CONSTANTS
    d1 = d1
    d2 = d2
    p1 = p1
    s1 = s1
    Nobody = Nobody
    Daemon <- TwoDaemons
    Prober <- OneProber
    Stopper <- OneStopper
    Attempts = 1
    MaxHits = 1
SPECIFICATION Spec
CHECK_DEADLOCK FALSE
INVARIANTS
    TypeOK
    OneServer
    LoadingIsNotReady
    StatusKeepsFiles
    StoppedHasLeft
PROPERTIES
    SignalsOwnerOnly
    ToldLeaves
