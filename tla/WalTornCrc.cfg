CONSTANTS
    SegmentSize = 0
    PageUnits = 8
    MaxRecords = 2
    MaxCrashes = 1
    Faults = {"zeroed"}
SPECIFICATION Spec
INVARIANTS ChainContinuous
