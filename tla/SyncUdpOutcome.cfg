SPECIFICATION Spec
CONSTANTS
    t1 = t1
    t2 = t2
    t3 = t3
    Threads <- TwoThreads
    MaxGeneration = 1
    MaxDepth = 1
    Transports = {"udp"}
    Operations <- AllOperations
    MaxSockets = 3
    MaxRequests = 2
    MaxRepeats = 0
SYMMETRY MCSymmetry
INVARIANTS
    SentWritesAreTyped
