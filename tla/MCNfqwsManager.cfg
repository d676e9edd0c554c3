SPECIFICATION Spec
CONSTANTS
    Procs = {p, q}
    Lists = {a, b}
    Active = active
    Saved = {s}
    Contents = {{}, {a}}
    Payloads = {e, f}
    Empty = e
    Absent = absent
    None = none
    MaxOps = 2
    MaxFaults = 1
INVARIANTS
    RefsResolve
    AnswersTruthful
    NobodyStuck
CHECK_DEADLOCK FALSE
