\* The components that share no state, each on its own small instance.
SPECIFICATION Spec
CONSTANTS
    None = None
    Offline = {l1, l2}
    Generator = {g1, g2}
    MaxVersion = 3
    User = {u1, u2}
    Request = {r1, r2}
    Person = {n1, n2, n3}
    Email = {e1, e2}
    PartialIndex = TRUE
    Sid = {s1, s2}
    Attempt = {a1, a2}
    Threshold = 2
    MaxCrashes = 1
    MaxFails = 4
    Product = {p1, p2}
    Customer = {c1}
    Replica = {i1, i2}
    KeysInit = {k1}
    LockWaits = FALSE
    Process = {x1, x2}
    MaxStarts = 3
    MaxChanges = 1
    License = {m1, m2, m3}
    PoolSize = 1
    Message = {w1, w2, w3}
    MaxFailures = 4
    Secret = {t1, t2, t3}
    Kek = {f1, f2}
    Malformed = Malformed
    MaxEdits = 2
INVARIANTS
    VersionsInOrder ListsGrow ListedAfterStamp
    SuperAdminRemains LookupUnambiguous GlobalLogout UnindexedSessionsRaced
    GuessesBounded IssuedWhileOffered
    ReadyToServe OneKeyPerPurpose
    HostRecognised RefusedOnlyIfIdLost DowngradesAreReversible
    SessionEndsWithRequest FailuresBounded LoginAsksForProvedSecret ServingRolesSign
PROPERTIES LedgerSpec WithdrawnStaysWithdrawn
CHECK_DEADLOCK FALSE
