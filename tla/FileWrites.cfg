SPECIFICATION FairSpec
CONSTANTS
    o1 = o1
    o2 = o2
    Ops = {o1, o2}
    First = v0
    Home = p1
    Paths = {p1, p2}
    Workers = {w1}
    Bytes <- Units
    Quota = 2
    Asks <- Pair
    PartialWrites = TRUE
    MaxFaults <- PairBudget
    None = None
INVARIANTS
    TypeOK
    ContentKept
    NothingLeaks
    QuotaExact
    CallsApart
    ReferencedStays
PROPERTIES
    ImplementsLibrary
    SettlesUnlessResidue
CHECK_DEADLOCK FALSE
