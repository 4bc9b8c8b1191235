SPECIFICATION Spec
CONSTANTS
    Callers = {c1}
    Uuids = {1, 2, 3, 4}
    Keys = {"a", "b"}
    Fields <- MCFields
    RowFields <- MCRowFields
    Values <- MCValues
    DefaultValue <- MCDefault
    Unset = Unset
    NoRecord = NoRecord
    Jobs <- AllJobs
    HasApply = TRUE
    PageSize = 50
    MaxAttempts = 2
    InitialStores <- SomeStores
    MaxRuns = 2
    MaxLate = 0
INVARIANTS
    TypeOK
    CheckModeIsSilent
    ReportsMatchEffects
    Converged
    OneMatch
CHECK_DEADLOCK FALSE
