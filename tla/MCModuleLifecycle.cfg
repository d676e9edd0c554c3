SPECIFICATION Spec
CONSTANTS
    Requests = {q1, q2}
    Opkg = opkg
    MaxActions = 5
INVARIANTS
    DisabledStaysDown
    MarkersAgree
CHECK_DEADLOCK FALSE
