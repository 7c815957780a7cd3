SPECIFICATION FairSpec
CONSTANTS
    Addr = {b1}
    Pruner = {p1, p2}
    Worker = {w1, w2}
    FAILURE_THRESHOLD = 2
    Probe = {q1, q2, q3}
    MaxReports = 4
    MaxSwaps = 2
    MaxOutages = 1
    Config = {c1, c2, bad}
    Unbuildable = {bad}
    Resolution = {r1, r2}
    Nothing = Nothing
    MaxTables = 5
    MaxDnsChanges = 3
    Listener = {l1, l2}
    Client = {c1}
    Backend = {b1, b2}
    Address = {a1, a2, a3}
    Nowhere = Nowhere
    MaxSessions = 1
    MaxDatagrams = 3
    MaxTableSwaps = 2
CHECK_DEADLOCK FALSE
INVARIANTS
    NoEntryUntracked
    ProbesMatch
    PublishedIsLive
    SlotsCounted
    SentWhereRouted
PROPERTIES
    Recovers
    Implements
    ComesToBeFresh
    GivenBack
