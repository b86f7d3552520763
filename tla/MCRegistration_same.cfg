SPECIFICATION FairSpec
CONSTANTS
    east = east
    west = west
    control = control
    e1 = e1
    e2 = e2
    kube = kube
    ctxEast = ctxEast
    ctxWest = ctxWest
    ctxControl = ctxControl
    n1 = n1
    n2 = n2
    NoPath = NoPath
    NoOverride = NoOverride
    Absent = Absent
    Cluster = {east, control}
    Command = {e1, e2}
    Args <- SamePlane
    Path = {kube}
    Context = {ctxEast, ctxControl}
    Name = {n1, n2}
    DefaultPath = kube
    ClusterAt <- Kubeconfigs
    SecretName = {1, 2}
    DefaultSecret = 2
    MaxAttempts = 2
    MaxFaults = 1
    MaxRotations = 1
CHECK_DEADLOCK FALSE
INVARIANTS DoneMeansRegistered
PROPERTIES EventuallyRegistered
