SPECIFICATION Spec
CONSTANTS
    Hosts = {"any"}
    Rules <- DecideAll
    Default = "deny"
    Caching = TRUE
    r1 = r1
    Requests = {r1}
    DeciderSays = {"allow"}
    BufferCap = 8
    MaxReconnects = 2
    MaxLinks = 3
    EarlyClose = TRUE
    TimeoutsRace = TRUE
    Nil = Nil
INVARIANT NoOrphan
CHECK_DEADLOCK FALSE
