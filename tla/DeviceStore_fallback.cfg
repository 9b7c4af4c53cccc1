\* A drive without storage is remembered: refuted.
CONSTANTS
    Addresses = {"a", "b"}
    Values = {0, 1}
    MaxDevices = 1
    MaxEdits = 2
    MaxTrouble = 1
    MaxBoots = 3
SPECIFICATION Spec
PROPERTY
    DegradedDriveIsKept
CHECK_DEADLOCK FALSE
