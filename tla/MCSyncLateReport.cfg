SPECIFICATION Spec
CONSTANTS
    DataPlane = {d1}
    Rejected = {}
    Unusable = {}
    Owners = {"Ours", "Other", "Missing"}
    MaxUid = 1
    MaxRevision = 1
    MaxMoves = 0
    Budgets <- OneStop
CHECK_DEADLOCK FALSE
INVARIANT LeaveIsFinal
