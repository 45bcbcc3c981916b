CONSTANTS
    p1 = p1
    p2 = p2
    p3 = p3
    Procs = {p1, p2, p3}
    MaxAppends = 2
    Faults = {"write", "fsync"}
SPECIFICATION FairSpec
INVARIANTS SyncCovers OneLeader WaitersOwned
PROPERTIES ImplementsGroupCommit FollowerAnswered LeaderReleased
