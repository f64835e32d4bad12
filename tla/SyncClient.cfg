SPECIFICATION Spec
CONSTANTS
    t1 = t1
    t2 = t2
    t3 = t3
    Threads <- TwoThreads
    MaxGeneration = 1
    MaxDepth = 1
    Transports = {"tcp", "udp"}
    Operations <- Distinct
    MaxSockets = 2
    MaxRequests = 3
    MaxRepeats = 1
SYMMETRY MCSymmetry
INVARIANTS
    TypeOK
    OpenSocketsAreOwned
    ConnectionIsStable
    AcceptedIsOwn
    OutcomeIsTrue
    UpdatesAreWhole
    SteadyConnection
