SPECIFICATION Spec
CONSTANTS
    east = east
    west = west
    control = control
    e1 = e1
    e2 = e2
    kube = kube
    ctxEast = ctxEast
    ctxWest = ctxWest
    ctxControl = ctxControl
    n1 = n1
    n2 = n2
    NoPath = NoPath
    NoOverride = NoOverride
    Absent = Absent
    Cluster = {east, west, control}
    Command = {e1, e2}
    Args <- Collision
    Path = {kube}
    Context = {ctxEast, ctxWest, ctxControl}
    Name = {n1, n2}
    DefaultPath = kube
    ClusterAt <- Kubeconfigs
    SecretName = {2}
    DefaultSecret = 2
    MaxAttempts = 4
    MaxFaults = 0
    MaxRotations = 0
CHECK_DEADLOCK FALSE
PROPERTIES DoneMeansCopied
