SPECIFICATION Spec
CONSTANTS
    a1 = a1
    t1 = t1
    t2 = t2
    t3 = t3
    Accounts = {a1}
    Tasks = {t1, t2, t3}
    Kinds = {"Eth", "Ton"}
    InitStatus = {"Initializing"}
    MaxDeploys = 1
    Faults = FALSE
INVARIANT
    NotAbandoned
CHECK_DEADLOCK FALSE
