SPECIFICATION Spec
CONSTANTS
    Tasks <- OneTask
    Actors = {"ann"}
    ActorOf <- OneActor
    Exports = {}
    Intents = {"x", "y"}
    Requests = {"r1", "r2"}
    TaskOf <- ToFirst
    IntentOf <- OtherIntent
    Slots = {"w1", "w2"}
    Attempts = 2
    MaxStalledCount = 1
    PageSize = 1
    Standings = {"member", "PERMISSION_DENIED"}
    MaxFaults = 1
    MaxChanges = 2
INVARIANTS
    TypeOK
    IntentAgrees
    EffectsMatchStatus
PROPERTIES
    SettledIsFinal
    NeverBackwards
