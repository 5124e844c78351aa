\* A deployment and its copy whose requests may all fail, on a license that ends;
\* and two installations of one machine that compete for a license with an old
\* binding, which reapers may find without heartbeat.
SPECIFICATION PartSpec
CONSTANTS
    None = None
    Token = {t1, t2}
    Request = {r1}
    ByUid = FALSE
    Ttl = 1
    Grace = 1
    Window = 0
    Serve = 0
    EndOfTerm = 1
    MaxTime = 3
    LastChange = 1
    RedisMayLose = FALSE
    Activation = {a1, a2}
    Reaper = {w1}
    Slot = {s1}
    SeatLimit = 1
    Fingerprint = {"h1"}
    Uid = {}
    Install = {"i1", "i2"}
    Signal = {}
    Perpetual = FALSE
    Requests <- TwoInstallations
    LegacyRows <- OldSdkRow
INVARIANT SeatMutex
PROPERTIES LockedForGood EveryRequestAnswered SeatLockComesFree PoolSpec
CHECK_DEADLOCK FALSE
