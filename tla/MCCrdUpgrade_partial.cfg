SPECIFICATION Spec
CONSTANTS
    p1 = p1
    p2 = p2
    h1 = h1
    h2 = h2
    a = a
    b = b
    v1 = v1
    v2 = v2
    v3 = v3
    s1 = s1
    s2 = s2
    NoCrd = NoCrd
    Crd = {a, b}
    Version = {v1, v2, v3}
    Schema = {s1, s2}
    Upgrader = {p1}
    Host = {h1, h2}
    HostOf <- SharedHost
    Releases <- OneRelease
    Installed <- NothingInstalled
    Modes = {FALSE}
    MaxRuns = 2
    MaxRetries = 0
    MaxFaults = 1
    FaultPoints <- AllPoints
    MaxTouches = 0
CHECK_DEADLOCK FALSE
INVARIANTS OkMeansAllInstalled
