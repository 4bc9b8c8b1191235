SPECIFICATION FairSpec
CONSTANTS
    Callers = {c1, c2}
    Uuids = {1, 2, 3}
    Keys = {"a", "b"}
    Fields <- MCFields
    RowFields <- MCRowFields
    Values <- MCValues
    DefaultValue <- MCDefault
    Unset = Unset
    NoRecord = NoRecord
    Jobs <- MixedJobs
    HasApply = TRUE
    PageSize = 50
    MaxAttempts = 2
    InitialStores <- CrowdedStores
    MaxRuns = 1
    MaxLate = 0
INVARIANTS
    QuiescentIsApplied
PROPERTIES
    OnlyAskedDeletes
    Terminates
CHECK_DEADLOCK FALSE
