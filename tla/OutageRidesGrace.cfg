\* A deployment whose edge answers too late, or not at all.
SPECIFICATION Spec
CONSTANTS
    None = None
    Token = {t1, t2}
    Request = {r1}
    Identity <- OneHost
    ByUid = FALSE
    Ttl = 1
    Grace = 1
    Window = 1
    Serve = 1
    EndOfTerm = None
    MaxTime = 3
    LastChange = 2
    RedisMayLose = FALSE
PROPERTY OutageRidesGrace
CHECK_DEADLOCK FALSE
