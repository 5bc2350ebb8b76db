\* Three instances and three faults: a leader, its successor and a bystander.
SPECIFICATION FairSpec
CONSTANTS
    Instance = {i1, i2, i3}
    None = None
    TTL = 4
    RenewGap = 2
    Lag = 1
    ClaimTimeout = 1
    MaxFaults = 3
INVARIANTS
    TimelyLeaseHealthy
PROPERTIES
    SoleLeaderStays
    TakeOver
    OrderlySingle
CHECK_DEADLOCK FALSE
