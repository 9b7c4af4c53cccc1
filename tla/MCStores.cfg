\* Settings that carry a committed generation, or none at all, with erasure that
\* can be cut; profiles against failures and missing media.
SPECIFICATION StoresSpec
CONSTANTS
    Parts = {"settings", "profiles"}
    v0 = v0
    v1 = v1
    profileA = profileA
    profileB = profileB
    None = None
    Contents <- MCContents
    MaxVersion = 3
    MaxTrouble = 2
    Torn = Torn
    Defaults = v0
    Values <- MCValues
    Rank <- MCRank
    MaxGeneration = 4
    Worlds = {"committed", "generationless"}
    StepwiseErase = TRUE
INVARIANTS
    TypeOK
    OneAuthority
    UnsavedIsPending
    ProfilesKept
PROPERTIES
    LoadsDurable
    ImplementsRegister
CHECK_DEADLOCK FALSE
SYMMETRY Alike
