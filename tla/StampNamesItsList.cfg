\* A license is revoked while the only generation runs.
SPECIFICATION CrlSpec
CONSTANTS
    Offline = {l1}
    Generator = {g1}
    MaxVersion = 2
INVARIANT StampNamesItsList
CHECK_DEADLOCK FALSE
