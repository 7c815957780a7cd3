SPECIFICATION Spec
CONSTANTS
    DataPlane = {d1}
    Rejected = {}
    Unusable = {}
    Owners = {"Ours", "Other", "Missing"}
    MaxUid = 2
    MaxRevision = 1
    MaxMoves = 0
    Budgets <- OneCreation
CHECK_DEADLOCK FALSE
PROPERTY DropsOnlyTheGone
