CONSTANTS
    w1 = w1
    Writers = {w1}
    ReadOps = {}
    Keys = {1}
    Kinds = {1}
    MemCap = 1
    L0Threshold = 2
    NumLevels = 3
    BaseLevelTarget = 1
    LevelMultiplier = 2
    FileTarget = 4
    MaxSeq = 5
    MaxMems = 5
    MaxFiles = 8
    MaxRestarts = 0
    ClosingLives = 0
    Faults = {}
SPECIFICATION Spec
INVARIANTS NewestFirst
CHECK_DEADLOCK FALSE
