SPECIFICATION Spec
CONSTANTS
    i1 = i1
    i2 = i2
    c1 = c1
    c2 = c2
    c3 = c3
    Ids = {i1}
    Calls = {c1, c2}
    Id <- MCId
    Block <- MCBlock
    Hash <- MCHash
    Genuine = {c1, c2}
    Conf <- MCConf
    MaxReorg = 2
    MaxReorgs = 1
    MaxHeight = 4
    MaxRange = 2
INVARIANT
    RejectIsFinal
