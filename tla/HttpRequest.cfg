SPECIFICATION FairSpec
CONSTANTS
    NotGiven = NotGiven
    DefaultRetries = 3
    RetryArgs <- MCRetryArgs
    Codes <- ListedCodes
INVARIANTS
    TypeOK
    ExecutionsBounded
    FirstRefusalIsFinal
PROPERTIES
    Settles
    ImplementsCall
CHECK_DEADLOCK FALSE
