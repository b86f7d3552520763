SPECIFICATION Spec
CONSTANTS
    n1 = n1
    n2 = n2
    n3 = n3
    cpu = cpu
    pods = pods
    Node = {n1, n2, n3}
    Resource = {cpu, pods}
    Alloc <- Allocatable
    Load <- IdleOrBusy
    Proposals <- EstimatesAndMixed
    MaxChanges = 1
CHECK_DEADLOCK FALSE
SYMMETRY Alike
INVARIANTS TypeOK UnableMeansUnschedulable FitsMeansSchedulable NeverOvercommitted
