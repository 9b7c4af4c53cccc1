\* Safety and liveness of the V1 client, of its notifications and of the backup.
SPECIFICATION BesidesSpec
CONSTANTS
    Parts = {"v1", "stream", "backup"}
    MaxAttempts = 2
    HardResetAt = 2
    MaxFound = 1
    MaxDisconnects = 1
INVARIANTS
    LinkSafe
    StreamSafe
    TrustNeedsAFreshTable
PROPERTIES
    BackupKept
    WaitsEnd
CHECK_DEADLOCK FALSE
