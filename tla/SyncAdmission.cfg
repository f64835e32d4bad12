SPECIFICATION FairSpec
CONSTANTS
    t1 = t1
    t2 = t2
    t3 = t3
    Threads <- MCThreads
    MaxGeneration = 2
    MaxDepth = 2
INVARIANTS
    TypeOK
    MutualExclusion
    NoLostTurn
    QueueIsCurrent
PROPERTIES
    ImplementsFifoTurn
    EveryWaiterLeaves
