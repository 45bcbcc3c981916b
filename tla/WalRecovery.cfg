CONSTANTS
    SegmentSize = 3
    PageUnits = 2
    MaxRecords = 4
    MaxCrashes = 2
    Faults = {"create", "zeroed"}
SPECIFICATION Spec
INVARIANTS ReadAllExact AckedSurvive OpenSucceeds SealedDurable DecodedGenuine
PROPERTY OnlyTailsLost
