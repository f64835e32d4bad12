SPECIFICATION Spec
CONSTANTS
    t1 = t1
    t2 = t2
    NoTask = NoTask
    Tasks <- TwoTasks
    MaxGeneration = 1
    MaxDepth = 1
    Transports = {"tcp"}
    Operations <- AllOperations
    MaxConns = 2
    MaxRequests = 2
    MaxMishaps = 1
SYMMETRY MCSymmetry
INVARIANTS
    SentWritesAreTyped
