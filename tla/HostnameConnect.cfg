SPECIFICATION FairSpec
CONSTANTS
    MaxAttempts = 2
    MaxGeneration = 2
INVARIANTS
    TypeOK
    SocketsHaveOneHolder
    AbandonedHasNoEffect
    NothingSurvivesClose
PROPERTIES
    ConnectReturns
    LateSocketsAreClosed
