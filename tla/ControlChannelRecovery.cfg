SPECIFICATION Spec
CONSTANTS
    Hosts = {"any"}
    Rules <- DecideAll
    Default = "deny"
    Caching = TRUE
    r1 = r1
    r2 = r2
    Requests = {r1, r2}
    DeciderSays = {"allow", "deny"}
    BufferCap = 8
    MaxReconnects = 2
    MaxLinks = 2
    EarlyClose = FALSE
    TimeoutsRace = FALSE
    Nil = Nil
INVARIANT RequestsRecover
CHECK_DEADLOCK FALSE
