SPECIFICATION Spec
CONSTANTS
    Hosts = {"any", "bad"}
    Rules <- DenyThenDecide
    Default = "allow"
    Caching = TRUE
    r1 = r1
    r2 = r2
    Requests = {r1, r2}
    DeciderSays = {"allow", "failed"}
    BufferCap = 2
    MaxReconnects = 2
    MaxLinks = 2
    EarlyClose = FALSE
    TimeoutsRace = TRUE
    Nil = Nil
SYMMETRY RequestSymmetry
INVARIANTS
    FailClosed
    OneVerdictPerHost
    PendingExact
    AuditOrdered
    OneChannel
CHECK_DEADLOCK FALSE
