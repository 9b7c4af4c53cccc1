\* Safety of the OBD session against an open radio and every admission.
SPECIFICATION Spec
CONSTANTS
    a1 = a1
    a2 = a2
    NoAddress = NoAddress
    Address <- Adapters
    Contexts <- MCContexts
    InitLength <- OneInit
    Retries = 1
    MaxFailures = 2
    MaxErrors = 1
    CutErrors = 2
    IdleBackoffs = 1
SYMMETRY Twins
INVARIANTS
    SessionSafe
PROPERTIES
    SessionSteps
    ImplementsFence
CHECK_DEADLOCK FALSE
