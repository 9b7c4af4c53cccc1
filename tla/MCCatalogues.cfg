\* Two slots of two networks over three generations, with the slots of an older
\* firmware, booted with and without the card.
SPECIFICATION ListsSpec
CONSTANTS
    Parts = {"credentials", "devices"}
    Slots = {0, 1}
    a = a
    b = b
    p = p
    q = q
    None = None
    Open = Open
    Absent = Absent
    Networks = {a, b}
    Passwords = {p}
    MaxGeneration = 3
    Media = {"card", "none"}
    Upgraded = TRUE
INVARIANTS
    CredentialsSafe
PROPERTIES
    ImplementsVault
    DevicesKept
SYMMETRY AnyNetwork
CHECK_DEADLOCK FALSE
