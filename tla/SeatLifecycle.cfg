\* Two activations of look-alike hosts on a license with an old binding, against
\* a reaper, the sweep, revocation and deletion; and three hosts that race for its
\* only seat.
SPECIFICATION PartsSpec
CONSTANTS
    None = None
    Activation = {a1, a2, a3}
    Third = a3
    Reaper = {w1}
    Slot = {s1, s2, s3}
    Spare = s3
    SeatLimit = 1
    Fingerprint = {"h1", "h2", "h3"}
    Uid = {"u1"}
    Install = {}
    Signal <- MixedSignals
    Perpetual = TRUE
    Requests <- AllHosts
    LegacyRows <- OldSdkRow
SYMMETRY PartsSymmetry
VIEW AlertAside
INVARIANTS TypeOK SeatUsedWithinRows RevokedRefused HostHoldsOneSeat SeatOvershootBounded
PROPERTIES ClusterIdentityHolds
CHECK_DEADLOCK FALSE
