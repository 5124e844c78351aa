\* Two messages at a time and a primary that may fail and recover.
SPECIFICATION FairSpec
CONSTANTS
    Message = {w1, w2}
    Threshold = 2
    MaxFailures = 4
    None = None
PROPERTY BreakerCloses
CHECK_DEADLOCK FALSE
