SPECIFICATION Spec
CONSTANTS
    c1 = c1
    c2 = c2
    c3 = c3
    NoHolder = NoHolder
    Client = {c1, c2}
    MaxLapses = 0
    MaxFaults = 0
CHECK_DEADLOCK FALSE
INVARIANTS LeadsWhileProceeding
