SPECIFICATION Spec
CONSTANTS
    Procs = {p, q}
    Paths = {f}
    Temps = {t}
    Contents = {a, b}
    Absent = Absent
    None = None
    MaxCaptures = 3
    MaxSnapshots = 2
    MaxExternal = 0
    MaxCrashes = 0
SYMMETRY Symmetric
INVARIANT NoTempLeftovers
CHECK_DEADLOCK FALSE
