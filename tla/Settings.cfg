SPECIFICATION FairSpec
CONSTANTS
    Callers = {c1, c2}
    Fields <- MCFields
    Values = {"v", "w"}
    Unset = Unset
    Calls <- MCCalls
    HasApply = TRUE
    MaxAttempts = 2
    MaxLate = 1
INVARIANTS
    TypeOK
    OwnFieldsStay
    QuietIsLoaded
    ReportsMatchEffects
PROPERTIES
    Terminates
CHECK_DEADLOCK FALSE
