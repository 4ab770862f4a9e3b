SPECIFICATION FairSpec
CONSTANTS
    r1 = r1
    r2 = r2
    Readers = {r1, r2}
    Intervals = {0, 1}
    MaxGen = 3
    MaxReloads = 2
INVARIANTS
    ScrapesMonotone
PROPERTIES
    CollectionsContinue
    ReloadEnds
CHECK_DEADLOCK FALSE
