SPECIFICATION FairSpec
CONSTANTS
    MaxNonce = 1
    MaxCrashes = 3
    MaxDrops = 1
INVARIANTS
    TypeOK
    PaidOnce
PROPERTIES
    VerificationEnds
CHECK_DEADLOCK FALSE
