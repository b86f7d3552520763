SPECIFICATION Spec
CONSTANTS
    u = u
    v = v
    p1 = p1
    p2 = p2
    NoPod = NoPod
    NoRole = NoRole
    Command = {u}
    Inputs <- Volume
    Text <- MCText
    Empty = ""
    Disk <- MCDisk
    NoPath = ""
    Meant <- MCMeant
    Pod = {p1}
    OnExisting = {"altered"}
    MaxFaults = 0
    MaxLosses = 0
CHECK_DEADLOCK FALSE
PROPERTIES SecretMountIsRead
