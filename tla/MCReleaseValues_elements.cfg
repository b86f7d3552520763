SPECIFICATION Spec
CONSTANTS
    Charts <- SomeCharts
    Releases <- SomeReleases
    Edits <- SomeEdits
    MaxEdits = 0
    MaxOthers = 0
PROPERTY ModifiedValuesAreMerged
CHECK_DEADLOCK FALSE
