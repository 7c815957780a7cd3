SPECIFICATION FairSpec
CONSTANTS
    DataPlane = {d1}
    Rejected = {3}
    Unusable = {2}
    Owners = {"Ours", "Other", "Missing"}
    MaxUid = 2
    MaxRevision = 3
    MaxMoves = 1
    Budgets <- MCBudgets
CHECK_DEADLOCK FALSE
INVARIANTS NoOrphanSlot ConfirmsWhatIsServed NoRefusedVersionReportedApplied
PROPERTIES GoneOnlyWhileUnstored Converges
