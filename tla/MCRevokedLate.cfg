SPECIFICATION Spec
CONSTANTS
    g1 = g1
    g2 = g2
    i1 = i1
    i2 = i2
    Parts = {"auth"}
    Clusters <- MCClusters
    Respecs <- MCRespecs
    MaxEdits = 1
    Gateway = {g1, g2}
    Budgets <- MCBudgets
    GwName = {"g1", "g2"}
    Object = {"r"}
    Worlds <- MCWorlds
    Instance = {i1, i2}
    Hold = 2
    MaxNow = 8
    Histories <- MCHistories
    Caller = {c1, c2}
    Peer = {"q1", "q2"}
    Token = {"t1", "t2", "u1", "f1", "f2", "x"}
    Pod = {"p1", "p2"}
    Claimed <- MCClaimed
    Barred = {"own"}
    CacheTtl = 2
    StaleTtl = 2
    ReviewTimeout = 1
    MaxVerdicts = 2
    PerPod = 1
    UnknownPermits = 1
    RenewalPermits = 1
    PerPeer = 1
    ReviewBurst = 2
    ReviewRate = 1
    RatedPeers = 1
    AuthWorlds <- MCAuthWorlds
    Controller = {"r1", "r2"}
    TrustWorlds <- MCTrustWorlds
    PrivilegedMax = 2
    PoolBase = 4
    AdminPort = 5
    MaxPort = 9
    ProvisionWorlds <- MCProvisionWorlds
    KindOf <- MCKindOf
    WatchWorlds <- MCWatchWorlds
INVARIANT
    RevokedWithinTwoTerms
CHECK_DEADLOCK FALSE
