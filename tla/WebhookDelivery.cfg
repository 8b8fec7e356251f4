SPECIFICATION FairSpec
CONSTANTS
    Endpoints = {n1}
    Events = {e1}
    Hosts = {h1, h2}
    Attempts = 3
    MaxFaults = 2
    MaxChanges = 2
INVARIANTS
    TypeOK
    RowTellsLastAttempt
    EachAttemptPostsOnce
PROPERTIES
    ImplementsBoundedDelivery
    EveryDeliverySettles
