\* Two hosts race for the only seat.
SPECIFICATION Spec
CONSTANTS
    None = None
    Activation = {a1, a2}
    Reaper = {}
    Slot = {s1, s2}
    SeatLimit = 1
    Fingerprint = {h1, h2}
    Uid = {}
    Install = {}
    Signal = {}
    Perpetual = TRUE
    Requests <- DistinctHosts
    LegacyRows <- NoLegacy
INVARIANT SeatLimitHolds
CHECK_DEADLOCK FALSE
