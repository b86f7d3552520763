SPECIFICATION Spec
CONSTANTS
    u = u
    v = v
    w = w
    NoRead = NoRead
    Command = {u, v}
    Args <- Restarts
    Schemes <- CallersOwn
    MaxFaults = 0
    MaxEdits = 0
    MaxFlaps = 0
CHECK_DEADLOCK FALSE
PROPERTIES NoRestartOfStopped
