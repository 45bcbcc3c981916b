CONSTANTS
    w1 = w1
    Writers = {w1}
    ReadOps = {"get", "iter", "snap"}
    Keys = {1}
    Kinds = {1}
    MemCap = 1
    L0Threshold = 2
    NumLevels = 3
    BaseLevelTarget = 1
    LevelMultiplier = 2
    FileTarget = 4
    MaxSeq = 3
    MaxMems = 3
    MaxFiles = 4
    MaxRestarts = 1
    ClosingLives = 1
    Faults = {"flush", "compact", "manifest"}
SPECIFICATION Spec
INVARIANTS TypeOK ManifestRecoverable FilesReadable ReadCovers
PROPERTIES ImplementsStore
CHECK_DEADLOCK FALSE
