\* Two installations of one machine race to fill the install_id of an old binding.
SPECIFICATION Spec
CONSTANTS
    None = None
    Activation = {a1, a2}
    Reaper = {}
    Slot = {s1}
    SeatLimit = 1
    Fingerprint = {"h1"}
    Uid = {}
    Install = {"i1", "i2"}
    Signal = {}
    Perpetual = TRUE
    Requests <- TwoInstallations
    LegacyRows <- OldSdkRow
PROPERTY InstallLockHolds
CHECK_DEADLOCK FALSE
