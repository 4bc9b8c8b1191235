SPECIFICATION Spec
CONSTANTS
    Callers = {c1}
    Uuids = {1, 2, 3}
    Keys = {"a", "b"}
    Fields <- MCFields
    RowFields <- MCRowFields
    Values <- MCValues
    DefaultValue <- MCDefault
    Unset = Unset
    NoRecord = NoRecord
    Jobs <- PresentJobs
    HasApply = TRUE
    PageSize = 50
    MaxAttempts = 1
    InitialStores <- EmptyStore
    MaxRuns = 2
    MaxLate = 0
INVARIANTS
    QuiescentIsApplied
CHECK_DEADLOCK FALSE
