SPECIFICATION FairSpec
CONSTANTS
    MaxConnectors = 2
    Target <- MCTarget
    Ton = {"transfer"}
    Code <- MCCode
    Refused = {}
    Ends = {0, 1}
    FirstEnd <- MCFirstEnd
    MaxTime = 2
    MaxSets = 1
INVARIANTS
    TypeOK
    CountersExact
    EndsFollow
    NoneForgotten
PROPERTIES
    RemovedOnlyExpired
    ConfigurationsKnown
CHECK_DEADLOCK FALSE
