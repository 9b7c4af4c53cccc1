\* Operation, push and automatic mute, safety and liveness.
SPECIFICATION DetectorSpec
CONSTANTS
    Parts = {"operation", "push", "mute"}
    MaxOperation = 1
    MaxPush = 1
    MaxBoots = 1
    MaxTrouble = 1
    Acknowledged = TRUE
INVARIANTS
    OperationSafe
PROPERTIES
    PushSafe
    DriverWins
    DetectorReleased
CHECK_DEADLOCK FALSE
