SPECIFICATION Spec
CONSTANTS
    Procs = {p, q}
    Contents = {a, b}
    MaxCaptures = 3
    MaxSnapshots = 2
    MaxStoreBytes = 5
    MaxLeaks = 1
    None = None
SYMMETRY Symmetric
INVARIANT LastWorkingSurvives
CHECK_DEADLOCK FALSE
