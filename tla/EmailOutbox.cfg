SPECIFICATION FairSpec
CONSTANTS
    Messages = {m1}
    Dispatchers = {d1, d2}
    MaxAttempts = 3
    MaxCrashes = 2
    MaxSlow = 2
INVARIANTS
    TypeOK
    ErasedOnlyWhenTaken
    ExclusiveUnlessSlow
    SendsBounded
PROPERTIES
    EveryMessageSettles
    FinalUnlessSlow
