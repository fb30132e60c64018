SPECIFICATION MCSpec
CONSTANTS
    SidecarUid = "sidecar"
    WorkspaceUids = {"agent"}
    ProxyPort = 15001
    MaxRuns = 2
    c1 = c1
    c2 = c2
    s1 = s1
    s2 = s2
    Conns = {c1, c2}
    Names = {"good", "bad", "ip", "cut"}
    Hosts = {"good", "bad", "ip", "cut"}
    NoConfig = NoConfig
    Rules <- DenyThenDecide
    Default = "allow"
    Caching = FALSE
    Streams = {s1, s2}
    MaxChunks = 2
    Nil = Nil
    Letters = {"a", "b"}
    MaxPattern = 5
    MaxHost = 5
INVARIANTS
    NoLoop
    OneLeafPerHost
    NothingDropped
    AlignedGlobsAgree
    SidecarNarrower
PROPERTIES
    ImplementsRequestLife
    EndsReachPeers
    StreamsAnswered
CHECK_DEADLOCK FALSE
