SPECIFICATION RetrySpec
CONSTANTS
    u = u
    v = v
    p1 = p1
    p2 = p2
    NoPod = NoPod
    NoRole = NoRole
    Command = {u, v}
    Inputs <- Arguments
    Text <- MCText
    Empty = ""
    Disk <- MCDisk
    NoPath = ""
    Meant <- MCMeant
    Pod = {p1, p2}
    OnExisting = {"altered"}
    MaxFaults = 1
    MaxLosses = 1
CHECK_DEADLOCK FALSE
INVARIANTS OkMeansAllAdded PasswordsStayPaired
PROPERTIES RetriedAddSucceeds
