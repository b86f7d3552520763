\* A pod turns off an option of a nested mapping that the cluster turns on.
SPECIFICATION Spec
CONSTANTS
    Longer <- Longers
    Inputs <- NestedPods
    MaxFaults = 0
    MaxRestarts = 0
INVARIANT BooleansPreserved
CHECK_DEADLOCK FALSE
