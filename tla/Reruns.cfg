SPECIFICATION Spec
CONSTANTS
    Managers <- MCManagers
    Ways = {"given", "empty"}
    DisplayFields <- MCDisplayFields
    DefaultedFields <- MCDefaultedFields
    Immediate <- MCImmediate
    HandedTo <- MCHandedTo
    NoApply <- MCNoApply
    Ids = {u1, u2, u3}
    MaxCalls = 2
    NoCall = NoCall
INVARIANTS
    TypeOK
    NoSecondCopy
    ReportedChangeRuns
PROPERTIES
    OthersStay
SYMMETRY Symmetric
CHECK_DEADLOCK FALSE
