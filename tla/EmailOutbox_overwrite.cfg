SPECIFICATION Spec
CONSTANTS
    Messages = {m1}
    Dispatchers = {d1, d2}
    MaxAttempts = 3
    MaxCrashes = 0
    MaxSlow = 1
PROPERTIES
    AcceptedIsFinal
