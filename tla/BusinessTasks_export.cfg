SPECIFICATION FairSpec
CONSTANTS
    Tasks <- OneTask
    Actors = {"ann"}
    ActorOf <- OneActor
    Exports = {1}
    Intents = {"x"}
    Requests = {"r1"}
    TaskOf <- OneRequest
    IntentOf <- OneRequestIntent
    Slots = {"w1", "w2"}
    Attempts = 2
    MaxStalledCount = 1
    PageSize = 1
    Standings = {"member", "PERMISSION_DENIED"}
    MaxFaults = 1
    MaxChanges = 1
INVARIANTS
    LedgerMatchesStatus
    ResultMatchesStatus
    CompletedJobHasResult
PROPERTIES
    EveryTaskSettles
    ImplementsSettlement
