SPECIFICATION FairSpec
CONSTANTS
    Packages = {"p", "q"}
    NoPackage = NoPackage
    Listed = {"p"}
    Versions = {"v1", "v2"}
    Offer <- MCOffer
    NextVersion <- MCNext
    Callers = {c1, c2}
    Calls <- MCCalls
    MaxAttempts = 2
    Timeout = 1
    VerifyRetries = 1
INVARIANTS
    TypeOK
    ReportedStateIsReal
PROPERTIES
    Terminates
CHECK_DEADLOCK FALSE
