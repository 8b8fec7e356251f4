SPECIFICATION Spec
CONSTANTS
    Tasks <- OneTask
    Actors = {"ann"}
    ActorOf <- OneActor
    Exports = {}
    Intents = {"x"}
    Requests = {"r1"}
    TaskOf <- OneRequest
    IntentOf <- OneRequestIntent
    Slots = {"w1"}
    Attempts = 2
    MaxStalledCount = 1
    PageSize = 1
    Standings = {"member", "PERMISSION_DENIED"}
    MaxFaults = 0
    MaxChanges = 1
PROPERTIES
    RefusalSettlesRejected
