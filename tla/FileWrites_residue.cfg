SPECIFICATION FairSpec
CONSTANTS
    o1 = o1
    o2 = o2
    Ops = {o1}
    First = v0
    Home = p1
    Paths = {p1}
    Workers = {w1}
    Bytes <- Units
    Quota = 2
    Asks <- Overwrites
    PartialWrites = TRUE
    MaxFaults <- OneBudget
    None = None
PROPERTIES
    EveryOperationSettles
CHECK_DEADLOCK FALSE
