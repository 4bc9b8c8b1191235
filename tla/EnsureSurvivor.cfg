SPECIFICATION Spec
CONSTANTS
    Callers = {c1, c2}
    Uuids = {1, 2, 3, 4}
    Keys = {"a", "b"}
    Fields <- MCFields
    RowFields <- MCRowFields
    Values <- MCValues
    DefaultValue <- MCDefault
    Unset = Unset
    NoRecord = NoRecord
    Jobs <- KeepJobs
    HasApply = TRUE
    PageSize = 2
    MaxAttempts = 2
    InitialStores <- HiddenStores
    MaxRuns = 1
    MaxLate = 1
INVARIANTS
    ElderSurvives
SYMMETRY Symmetric
CHECK_DEADLOCK FALSE
