CONSTANTS
    MaxByte = 3
    LineBits = 8
    BitsPerKey = 4
    BloomHash <- MCHash
    BlockSize = 24
    RestartInterval = 2
    Writes <- MCWrites
    Targets <- MCTargets
    MaxTables = 2
    MaxEntries = 3
    MaxLone = 5
    CacheCapacity = 30
    MaxOther = 1
SPECIFICATION Spec
INVARIANTS SeekExact ScanExact GetExact IteratorExact
PROPERTIES ImplementsLruCache
