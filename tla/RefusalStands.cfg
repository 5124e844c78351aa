\* A product that recorded a refusal, and a check that is given no list.
SPECIFICATION OfflineSpec
CONSTANTS
    NoValue = NoValue
    Offline = {l1}
    Held = l1
    Generator = {g1}
    MaxVersion = 1
    Verifier = {p1}
    MaxMonth = 1
    Term = "1y"
    ActiveFrom = 0
    Skew = 1
    MaxAge = NoValue
PROPERTY RefusalStands
CHECK_DEADLOCK FALSE
