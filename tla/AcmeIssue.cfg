SPECIFICATION FairSpec
CONSTANTS
    Callers = {c1}
    Calls <- MCCalls
    MaxAttempts = 2
    MaxPolls = 2
    MaxLate = 1
    MaxBackground = 2
INVARIANTS
    TypeOK
    OutcomeIsFresh
PROPERTIES
    Terminates
CHECK_DEADLOCK FALSE
