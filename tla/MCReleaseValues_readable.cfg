SPECIFICATION Spec
CONSTANTS
    Charts <- SomeCharts
    Releases <- SomeReleases
    Edits <- SomeEdits
    MaxEdits = 0
    MaxOthers = 0
INVARIANT MergedIsReadable
CHECK_DEADLOCK FALSE
