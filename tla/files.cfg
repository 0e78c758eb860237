SPECIFICATION MCSpec
CONSTANTS
    Platforms = {"windows", "linux"}
    PictureTypes = {"png", "jpg"}
    Contents = {"A", "B"}
    Domains = {"x", "y"}
    EntryTTL = 1
    LastTime = 3
    AddressBits = 2
    MaxRules = 3
    RawRules <- MCRules
INVARIANTS
    VerdictKept
    BackgroundExists
    RemovedStaysAway
    ImportKeepsMeaning
PROPERTIES
    RestoreIsExact
    RestartKeeps
