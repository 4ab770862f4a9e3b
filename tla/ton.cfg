SPECIFICATION FairSpec
CONSTANTS
    a1 = a1
    s1 = s1
    s2 = s2
    x = x
    y = y
    w1 = w1
    w2 = w2
    w3 = w3
    o1 = o1
    Shards = {s1, s2}
    Accounts = {a1}
    Home <- MCHome
    Target <- MCTarget
    Observed <- MCObserved
    Actives = {x, y}
    Waiters = {w1, w2, w3}
    Getters = {w3}
    Observers = {o1}
    MaxTime = 1
INVARIANTS
    SubscriptionsKept
PROPERTIES
    ReturnsLatest
    ImplementsStates
    WaiterServed
    StartReturns
