SPECIFICATION Spec
CONSTANTS
    Proc = {p1, p2}
    NoOne = NoOne
    LEASE_DURATION = 6
    RENEW_DEADLINE = 1
    RETRY_PERIOD = 1
    MAX_RETRY = 1
    SLACK = 1
    MaxTime = 6
    MaxInFlight = 2
SYMMETRY Symmetry
CHECK_DEADLOCK FALSE
INVARIANTS AtMostOneLeader LeaderHoldsLease LeadsOnlyWhileRenewed
PROPERTY TakeoverWaitsForExpiry
