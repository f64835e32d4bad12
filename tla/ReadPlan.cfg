SPECIFICATION CallSpec
CONSTANTS
    OrdinaryLimit = 4
    TmLimit = 2
    ZLimit = 2
    TcLimit = 2
    Addresses <- MCAddresses
    MaxEntries = 3
    MaxCount = 5
    MaxCycles = 2
    MaxClock = 2
INVARIANTS
    TypeOK
    PlanIsExact
    EntriesAreWhole
    WriteIsExact
