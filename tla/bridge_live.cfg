SPECIFICATION FairSpec
CONSTANTS
    a1 = a1
    t1 = t1
    t2 = t2
    t3 = t3
    Accounts = {a1}
    Tasks = {t1, t2, t3}
    Kinds = {"Eth", "Ton"}
    InitStatus = {"None", "Pending", "Confirmed", "Rejected"}
    MaxDeploys = 2
    Faults = FALSE
INVARIANT
    NotAbandoned
PROPERTY
    DutyDone
CHECK_DEADLOCK FALSE
