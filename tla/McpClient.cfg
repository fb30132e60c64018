SPECIFICATION FairSpec
CONSTANTS
    c1 = c1
    c2 = c2
    Callers = {c1, c2}
    MaxMail = 1
    SlowSends = TRUE
    Nil = Nil
INVARIANTS
    CallerTracked
    OwnAnswer
PROPERTIES
    NothingLeftBehind
    CallReturns
CHECK_DEADLOCK FALSE
