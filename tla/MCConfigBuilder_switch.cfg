\* The cluster turns off a switch of the image.
SPECIFICATION Spec
CONSTANTS
    Longer <- Longers
    Inputs <- SwitchPods
    MaxFaults = 0
    MaxRestarts = 0
INVARIANT SwitchesReplaced
CHECK_DEADLOCK FALSE
