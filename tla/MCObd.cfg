\* Safety and liveness of the transport; liveness of the session under edits.
SPECIFICATION ObdSpec
CONSTANTS
    Parts = {"transport", "session"}
    a1 = a1
    NoAddress = NoAddress
    Ops <- AllOps
    MaxId = 7
    MaxGeneration = 2
    MaxAttempts = 2
    MaxConfirms = 2
INVARIANTS
    OneLink
PROPERTIES
    DisconnectsSettle
    ImplementsFence
    ObdAdvances
CHECK_DEADLOCK FALSE
