SPECIFICATION FairSpec
CONSTANTS
    t1 = t1
    t2 = t2
    t3 = t3
    Threads <- ThreeThreads
    MaxGeneration = 1
    MaxDepth = 1
    Transports = {"tcp"}
    Operations <- Simple
    MaxSockets = 1
    MaxRequests = 2
    MaxRepeats = 0
PROPERTIES
    EveryCallReturns
