\* A label edit keeps the password: refuted while a journal is pending.
CONSTANTS
    Slots = {0}
    Networks = {a, b}
    Passwords = {p, q}
    None = None
    Open = Open
    Absent = Absent
    MaxGeneration = 3
    Media = {"card", "flash"}
    Upgraded = FALSE
    a = a
    b = b
    p = p
    q = q
SYMMETRY AnyNetwork
SPECIFICATION Spec
PROPERTY
    EditKeepsPassword
