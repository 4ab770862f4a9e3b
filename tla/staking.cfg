SPECIFICATION FairSpec
CONSTANTS
    Configs <- MCConfigs
    Balances = {1, 2}
    IgnoreElections = FALSE
    InRound = TRUE
    MaxRound = 1
    MaxTime = 2
    MaxChanges = 1
    MaxBlock = 2
INVARIANTS
    TypeOK
    LoopNotStale
    RewardsCovered
PROPERTIES
    ElectionsProgress
    VotesInElections
CHECK_DEADLOCK FALSE
