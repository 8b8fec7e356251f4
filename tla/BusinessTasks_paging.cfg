SPECIFICATION FairSpec
CONSTANTS
    Tasks <- TwoTasks
    Actors = {"ann", "bob"}
    ActorOf <- TwoActors
    Exports = {}
    Intents = {"x"}
    Requests = {"r1", "r2"}
    TaskOf <- ToEach
    IntentOf <- SameIntent
    Slots = {"w1"}
    Attempts = 1
    MaxStalledCount = 0
    PageSize = 1
    Standings = {"member", "PERMISSION_DENIED"}
    MaxFaults = 0
    MaxChanges = 0
PROPERTIES
    EveryTaskSettles
