\* The transactions over three stores and the credentials, each under failures
\* and power losses, with what they settle in the end.
SPECIFICATION StorageSpec
CONSTANTS
    Parts = {"transactions", "credentials"}
    Contents = {p}
    Networks = {a, b}
    None = None
    Open = Open
    Absent = Absent
    a = a
    b = b
    p = p
    MaxToken = 2
    MaxTrouble = 2
INVARIANTS
    TransactionsSafe
PROPERTIES
    StorageSettles
CHECK_DEADLOCK FALSE
