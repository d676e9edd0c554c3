SPECIFICATION Spec
CONSTANTS
    Procs = {p, q}
    Paths = {f, g}
    Temps = {t}
    Contents = {a, b}
    Absent = Absent
    None = None
    MaxCaptures = 2
    MaxSnapshots = 2
    MaxExternal = 1
    MaxCrashes = 0
SYMMETRY Symmetric
INVARIANTS HandlersInv PrechangeCaptured NoLostUpdate OutcomeTruthful OutcomeDecided
CHECK_DEADLOCK FALSE
