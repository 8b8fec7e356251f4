SPECIFICATION FairMailSpec
CONSTANTS
    Users = {u1}
    Emails = {e1, e2}
    Loops = {l1, l2}
    MaxInvitations = 1
    MaxAttempts = 2
    MaxFaults = 1
    PendingLimit = 2
    EmailLimit = 2
    OrganizationLimit = 3
    ActorLimit = 3
CHECK_DEADLOCK FALSE
INVARIANTS
    TypeOK
    SentAtMostOnce
    VerdictIsTrue
    AuditAgrees
PROPERTIES
    EveryMailIsTakenUp
