SPECIFICATION FairSpec
CONSTANTS
    Requests = {r1, r2}
    Clients = {c1, c2}
    MaxShells = 2
    Limit = 1
    None = None
INVARIANTS
    RegistryBounded
    NoOrphanTerminal
PROPERTY
    IdleReclaimed
CHECK_DEADLOCK FALSE
