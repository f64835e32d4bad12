SPECIFICATION Spec
CONSTANTS
    t1 = t1
    t2 = t2
    NoTask = NoTask
    Tasks <- TwoTasks
    MaxGeneration = 1
    MaxDepth = 1
    Transports = {"tcp", "udp"}
    Operations <- Distinct
    MaxConns = 2
    MaxRequests = 3
    MaxMishaps = 1
SYMMETRY MCSymmetry
INVARIANTS
    TypeOK
    OpenConnectionsAreOwned
    MonitorIsOfConnection
    AcceptedIsOwn
    OutcomeIsTrue
    CancelledOnlyIfAsked
    UpdatesAreWhole
PROPERTIES
    OnlyCurrentPublishes
