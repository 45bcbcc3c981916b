CONSTANTS
    w1 = w1
    Writers = {w1}
    ReadOps = {}
    Keys = {1, 2}
    Kinds = {1}
    MemCap = 2
    L0Threshold = 1
    NumLevels = 3
    BaseLevelTarget = 1
    LevelMultiplier = 2
    FileTarget = 1
    MaxSeq = 6
    MaxMems = 5
    MaxFiles = 10
    MaxRestarts = 1
    ClosingLives = 0
    Faults = {}
SPECIFICATION Spec
INVARIANTS SeqUnique RangesDisjoint FreshOnTop
PROPERTY ImplementsStore
CHECK_DEADLOCK FALSE
