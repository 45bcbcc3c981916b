CONSTANTS
    MaxByte = 3
    LineBits = 8
    BitsPerKey = 4
    BloomHash <- MCHash
    BlockSize = 24
    RestartInterval = 2
    Writes <- MCTwoKeys
    Targets = {}
    MaxTables = 1
    MaxEntries = 2
    MaxLone = 2
    CacheCapacity = 30
    MaxOther = 0
SPECIFICATION Spec
INVARIANTS IteratesLive
