SPECIFICATION FairSpec
CONSTANTS
    Procs = {p, q}
    Paths = {f}
    Temps = {t}
    Contents = {a}
    Absent = Absent
    None = None
    MaxCaptures = 2
    MaxSnapshots = 2
    MaxExternal = 0
    MaxCrashes = 1
PROPERTY RequestsReturn
CHECK_DEADLOCK FALSE
