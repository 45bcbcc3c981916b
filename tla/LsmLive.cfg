CONSTANTS
    w1 = w1
    w2 = w2
    Writers = {w1, w2}
    ReadOps = {}
    Keys = {1}
    Kinds = {0, 1}
    MemCap = 1
    L0Threshold = 2
    NumLevels = 3
    BaseLevelTarget = 1
    LevelMultiplier = 2
    FileTarget = 4
    MaxSeq = 3
    MaxMems = 3
    MaxFiles = 6
    MaxRestarts = 1
    ClosingLives = 1
    Faults = {}
SPECIFICATION FairSpec
PROPERTIES SealedFlushed CloseCompletes ImplementsStore
CHECK_DEADLOCK FALSE
