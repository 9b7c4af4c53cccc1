\* The coordinator and the owners of the volume, safety and liveness.
SPECIFICATION DriveSpec
CONSTANTS
    Parts = {"cycle", "volume"}
    Contexts <- MCContexts
    MaxAge = 3
    ScanFallback = 3
    SettleQuiet = 1
    SettleFallback = 2
    SettleDeadline = 3
    ScanWindow = 2
    RetryInterval = 3
    ProxyWindow = 2
    AckTimeout = 1
    Choices <- MCChoices
    FadeTo = 2
    DropTo = 0
    Threats = {"k1", "unnamed"}
    Detectors = {"d1", "d2"}
    MaxEvents = 2
    MaxAir = 1
INVARIANTS
    TypeOK
    PhaseNeedsV1
    VerifyEdgeIsThisCycles
    AttemptAnchored
    LeaseIsExclusive
PROPERTIES
    NoShortcutToObd
    CycleAdvances
    RestoresTheChoice
    NotLeftQuiet
