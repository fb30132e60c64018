SPECIFICATION FairSpec
CONSTANTS
    Workers = {w1, w2}
    MaxCalls = 2
    Requests <- SomeRequests
    NoFile = NoFile
    Nil = Nil
INVARIANTS
    ExecInItsCwd
    VmAccounted
PROPERTIES
    EditPrecise
    CallsReturn
    StopsAfterCalls
CHECK_DEADLOCK FALSE
