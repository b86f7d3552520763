SPECIFICATION FairSpec
CONSTANTS
    c1 = c1
    c2 = c2
    c3 = c3
    NoHolder = NoHolder
    Client = {c1, c2, c3}
    MaxLapses = 1
    MaxFaults = 1
CHECK_DEADLOCK FALSE
INVARIANTS TypeOK ReturnsOnlyToLeaders OneLeader ReleasedNotExpired
PROPERTIES EveryCallReturns
