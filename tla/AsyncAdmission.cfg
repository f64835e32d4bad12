SPECIFICATION FairSpec
CONSTANTS
    t1 = t1
    t2 = t2
    t3 = t3
    NoTask = NoTask
    Tasks <- MCTasks
    MaxGeneration = 2
    MaxDepth = 2
INVARIANTS
    TypeOK
    OwnerIsExact
    QueueIsExact
PROPERTIES
    ImplementsFifoTurn
    CancelledNeverEnters
    EveryWaiterLeaves
