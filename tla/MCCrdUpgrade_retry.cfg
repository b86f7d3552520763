SPECIFICATION RetrySpec
CONSTANTS
    p1 = p1
    p2 = p2
    h1 = h1
    h2 = h2
    a = a
    b = b
    v1 = v1
    v2 = v2
    v3 = v3
    s1 = s1
    s2 = s2
    NoCrd = NoCrd
    Crd = {a, b}
    Version = {v1, v2, v3}
    Schema = {s1, s2}
    Upgrader = {p1, p2}
    Host = {h1, h2}
    HostOf <- OwnHost
    Releases <- TwoCrdReleases
    Installed <- AlphaInstalled
    Modes = {FALSE}
    MaxRuns = 1
    MaxRetries = 6
    MaxFaults = 1
    FaultPoints <- AllPoints
    MaxTouches = 1
CHECK_DEADLOCK FALSE
INVARIANTS LoopInvariant UndisturbedUpgradeSucceeds TornOnlyByFailure
PROPERTIES RetriedUpgradeSucceeds
