SPECIFICATION FairReleaseSpec
CONSTANTS
    Packages = {"p"}
    NoPackage = NoPackage
    Listed = {"p"}
    Versions = {"v1", "v2", "v3"}
    Offer <- MCOffer
    NextVersion <- MCNext
    Requests <- AimedRequests
    Hits <- MCHits
    NoTarget = NoTarget
    MaxTries = 3
    CheckTimeout = 1
    WaitTimeout = 3
    StrangerLimit = 2
INVARIANTS
    ReleaseTypeOK
    NoopIsTrue
    ReachedIsSettled
PROPERTIES
    MajorOnlyWhenAsked
    ReleaseTerminates
CHECK_DEADLOCK FALSE
