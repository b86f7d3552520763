SPECIFICATION Spec
CONSTANTS
    u = u
    v = v
    w = w
    NoRead = NoRead
    Command = {u}
    Args <- Restarts
    Schemes <- CommandsOwn
    MaxFaults = 0
    MaxEdits = 0
    MaxFlaps = 0
CHECK_DEADLOCK FALSE
PROPERTIES RestartIsRequested
