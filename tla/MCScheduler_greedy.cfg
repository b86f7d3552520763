SPECIFICATION Spec
CONSTANTS
    n1 = n1
    n2 = n2
    n3 = n3
    cpu = cpu
    pods = pods
    Node = {n1, n2}
    Resource = {cpu, pods}
    Alloc <- Allocatable
    Load <- IdleOrBusy
    Proposals <- SmallFirst
    MaxChanges = 0
CHECK_DEADLOCK FALSE
INVARIANTS UnableMeansNoPlacement
