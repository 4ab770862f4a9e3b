SPECIFICATION Spec
CONSTANTS
    a1 = a1
    t1 = t1
    t2 = t2
    t3 = t3
    Accounts = {a1}
    Tasks = {t1, t2, t3}
    Kinds = {"Eth", "Ton"}
    InitStatus = {"None", "Initializing", "Pending", "Confirmed", "Rejected"}
    MaxDeploys = 3
    Faults = TRUE
INVARIANTS
    TypeOK
    OneVoter
PROPERTY
    DroppedOnlyWhenUseless
CHECK_DEADLOCK FALSE
