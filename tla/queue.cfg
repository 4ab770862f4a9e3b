SPECIFICATION FairSpec
CONSTANTS
    m1 = m1
    m2 = m2
    m3 = m3
    s1 = s1
    s2 = s2
    Msgs = {m1, m2, m3}
    Shards = {s1, s2}
    Home <- MCHome
    U32Max = 3
INVARIANTS
    TypeOK
    MinExpireAtExact
    CountExact
    WaiterHasEntry
PROPERTIES
    Refinement
    Resolved
