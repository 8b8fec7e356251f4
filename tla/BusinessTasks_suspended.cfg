SPECIFICATION FairSpec
CONSTANTS
    Tasks <- TwoTasks
    Actors = {"ann", "bob"}
    ActorOf <- TwoActors
    Exports = {2}
    Intents = {"x"}
    Requests = {"r1", "r2"}
    TaskOf <- ToEach
    IntentOf <- SameIntent
    Slots = {"w1"}
    Attempts = 2
    MaxStalledCount = 1
    PageSize = 1
    Standings = {"member", "ACCOUNT_SUSPENDED"}
    MaxFaults = 1
    MaxChanges = 1
PROPERTIES
    MembersTaskSettles
