SPECIFICATION SettlingSpec
CONSTANTS
    u = u
    v = v
    w = w
    NoRead = NoRead
    Command = {u, v, w}
    Args <- AllThree
    Schemes <- EitherClient
    MaxFaults = 1
    MaxEdits = 1
    MaxFlaps = 1
CHECK_DEADLOCK FALSE
INVARIANTS TypeOK
PROPERTIES NoEditLost WaitMeansSettled WaitsSettle
