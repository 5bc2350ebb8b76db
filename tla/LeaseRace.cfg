\* Two instances, no fault at all: they start together.
SPECIFICATION Spec
CONSTANTS
    Instance = {i1, i2}
    None = None
    TTL = 4
    RenewGap = 2
    Lag = 1
    ClaimTimeout = 1
    MaxFaults = 0
INVARIANT SingleWriter
CHECK_DEADLOCK FALSE
