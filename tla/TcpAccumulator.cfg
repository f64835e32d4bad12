SPECIFICATION Spec
CONSTANTS
    InitialCapacity = 2
    ResponseCap = 2
    MaxChunk = 3
    MaxBytes = 12
INVARIANTS
    ResponseIsExact
    BufferIsBounded
CHECK_DEADLOCK FALSE
