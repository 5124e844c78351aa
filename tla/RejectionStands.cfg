\* A rejected product whose next renewal does not reach the edge.
SPECIFICATION Spec
CONSTANTS
    None = None
    Token = {t1, t2}
    Request = {r1}
    Identity <- OneHost
    ByUid = FALSE
    Ttl = 1
    Grace = 1
    Window = 1
    Serve = 1
    EndOfTerm = None
    MaxTime = 3
    LastChange = 2
    RedisMayLose = FALSE
PROPERTY RejectionStands
CHECK_DEADLOCK FALSE
