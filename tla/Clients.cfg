\* A product with a lease, on one host and on a host that moves, with two requests
\* under way; and a product with an offline license, in two processes, against two
\* generations of the revocation list.
SPECIFICATION ClientsSpec
CONSTANTS
    None = None
    Token = {v1, v2}
    Request = {w1, w2}
    Identity <- HostMoves
    ByUid = FALSE
    Ttl = 1
    Grace = 1
    Window = 0
    Serve = 1
    EndOfTerm = 2
    MaxTime = 5
    LastChange = 0
    RedisMayLose = TRUE
    MovesMaxTime = 1
    NoValue = NoValue
    Offline = {l1}
    Held = l1
    Generator = {v1, v2}
    MaxVersion = 2
    Verifier = {w1, w2}
    MaxMonth = 2
    Term = "1m"
    ActiveFrom = 0
    Skew = 1
    MaxAge = 1
SYMMETRY Symmetry
VIEW VerdictAside
INVARIANTS BarredGetsNoLease HeldTokenRenewable
PROPERTIES UnlockedEnds RefusalLasts ExpiryLasts
CHECK_DEADLOCK FALSE
