\* Every kind of pod, one interruption and two restarts.
SPECIFICATION FairSpec
CONSTANTS
    Longer <- Longers
    Inputs <- Pods
    MaxFaults = 1
    MaxRestarts = 2
INVARIANTS
    FilesEndWhole
    OptionsByPrecedence
    OneCollector
    YamlByPrecedence
PROPERTY RestartedBuildEnds
CHECK_DEADLOCK FALSE
