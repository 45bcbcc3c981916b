CONSTANTS
    w1 = w1
    w2 = w2
    Writers = {w1, w2}
    Readers = {w2}
    Keys = {1, 2}
    SeqNum <- MCSeqNum
    KeySize <- MCKeySize
    NodeSize = 2
    Alignment = 2
    Capacity = 18
    MaxHeight = 2
SPECIFICATION FairSpec
INVARIANTS TypeOK AllocsDisjoint ListsSound NoPanic SeqRangeCovers
PROPERTIES CallsReturn ImplementsOrderedSet
