\* Sessions on every pair of a chart and a release, with an edit and an upgrade by somebody else.
SPECIFICATION Spec
CONSTANTS
    Charts <- SomeCharts
    Releases <- SomeReleases
    Edits <- SomeEdits
    MaxEdits = 1
    MaxOthers = 1
PROPERTIES
    MergedByPath
    RefusedExactlyForClash
    SavedIsShownAgain
    UpgradedByPath
CHECK_DEADLOCK FALSE
