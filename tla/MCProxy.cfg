SPECIFICATION Spec
CONSTANTS
    c1 = c1
    c2 = c2
    a1 = a1
    RunParts = {"http", "rate", "listener", "routing", "head", "chunked", "stream", "bridge", "transport"}
    Setups <- MCSetups
    Address = {a1}
    MaxIdle = 1
    MaxConns = 2
    MaxInterim = 1
    MaxBlame = 1
    r1 = r1
    r2 = r2
    Asker = {r1, r2}
    Limits <- MCLimits
    Cost = 2
    Wrap = 14
    Backwards = 7
    Stale = 2
    Interval = 1
    Delay = 1
    IdleUntil = 7
    MaxClock = 15
    Snapshots <- MCSnapshots
    FileConfigs <- MCFileConfigs
    Interfaces = {"ip1", "ip2"}
    Pinned = {"ip1"}
    Names <- MCNames
    Holdable <- MCHoldable
    q1 = q1
    q2 = q2
    Requester = {q1, q2}
    Configs <- MCConfigs
    StreamHeads <- MCStreamHeads
    RequestHeads <- MCRequestHeads
    ResponseHeads <- MCResponseHeads
    RuleFilters <- MCRuleFilters
    MaxStripSpans = 1
    SizeBase = 2
    SizeTop = 2
    MaxRead = 2
    WriteBudgets = {0, 2}
    KernelRoom = 1
    TlsRoom = 3
    CloseBudget = 4
    LingerIdle = 2
    ReadOff = 3
    MaxArrived = 2
    BridgeWorlds <- MCBridgeWorlds
    MaxStreams = 1
    PipeRoom = 2
    UploadWindow = 2
    MaxWindow = 1
    MaxLinks = 4
    MaxConnections = 3
    PeerShare = 2
    MaxBodyReads = 1
    PeerTimeout = 1
    ReviewTimeout = 1
    HoldTime = 2
    ConnectTimeout = 1
    FirstBackoff = 1
    StandbyRetry = 1
    SocketRoom = 1
    AnswerSize = 2
    TransportWorlds <- MCTransportWorlds
INVARIANTS
    ActedOnOnce
    OneRequestAtATime
    AnswersMatch
    AnswersWhole
    NoLostWakeup
    GrantsBounded
    ListenersHold
    RoutedAsConfigured
    HeadsReadAlike
    EndsAgree
    StallsBounded
    BridgeHolds
    ConnectionsHold
CHECK_DEADLOCK FALSE
