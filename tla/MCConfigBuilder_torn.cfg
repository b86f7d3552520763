\* One interruption, one restart.
SPECIFICATION Spec
CONSTANTS
    Longer <- Longers
    Inputs <- PlainPods
    MaxFaults = 1
    MaxRestarts = 1
INVARIANT RackHasTwoLines
CHECK_DEADLOCK FALSE
