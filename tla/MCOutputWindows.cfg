SPECIFICATION Spec
CONSTANTS
    Capacity = 3
    MaxLines = 3
    BufferLimit = 3
    ReadLimit = 2
    MaxEvents = 7
    MaxOutput = 6
    MaxBytes = 6
INVARIANTS
    RingKeepsNewest
    StreamFaithful
    NoSilentGap
CHECK_DEADLOCK FALSE
