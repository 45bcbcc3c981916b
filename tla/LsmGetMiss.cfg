CONSTANTS
    w1 = w1
    Writers = {w1}
    ReadOps = {"get"}
    Keys = {1, 2}
    Kinds = {1}
    MemCap = 1
    L0Threshold = 2
    NumLevels = 3
    BaseLevelTarget = 1
    LevelMultiplier = 2
    FileTarget = 4
    MaxSeq = 3
    MaxMems = 4
    MaxFiles = 4
    MaxRestarts = 0
    ClosingLives = 0
    Faults = {}
SPECIFICATION Spec
INVARIANTS GetFresh
CHECK_DEADLOCK FALSE
