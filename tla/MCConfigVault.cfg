SPECIFICATION FairSpec
CONSTANTS
    Procs = {p, q}
    Contents = {a, b}
    MaxCaptures = 3
    MaxSnapshots = 2
    MaxStoreBytes = 4
    MaxLeaks = 1
    None = None
INVARIANTS VaultInv SnapshotsRestorable
PROPERTIES CaptureContract CaptureReturns ImplementsSnapshotStore
CHECK_DEADLOCK FALSE
