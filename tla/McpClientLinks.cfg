SPECIFICATION Spec
CONSTANTS
    c1 = c1
    Callers = {c1}
    MaxMail = 3
    SlowSends = FALSE
    Nil = Nil
INVARIANT SessionContinues
CHECK_DEADLOCK FALSE
