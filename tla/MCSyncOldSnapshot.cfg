SPECIFICATION Spec
CONSTANTS
    DataPlane = {d1}
    Rejected = {2}
    Unusable = {}
    Owners = {"Ours", "Other", "Missing"}
    MaxUid = 2
    MaxRevision = 2
    MaxMoves = 0
    Budgets <- OneCreation
CHECK_DEADLOCK FALSE
INVARIANT NoSnapshotOfTheOldUid
