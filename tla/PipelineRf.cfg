\* A node that passes L1 in the cloud and at a validator, nothing fails.
SPECIFICATION Spec
CONSTANTS
    Node = {n1}
    TcpFamily = {}
    Tester = {t1}
    Edge = {rf1}
    Cloud = cloud
    BatchSize = 1
    ValL2Top = 1
    MaxDeliver = 1
    MaxJobs = 2
    MaxPlanned = 2
    MaxRuns = 2
    MaxTime = 2
    MaxFaults = 0
    FaultKinds = {}
    None = None
    FreshRetest = 1
    StaleRetest = 2
    FreshWindow = 2
    BackoffUnit = 1
    BackoffCap = 2
PROPERTIES
    ValidatedIsRf
CHECK_DEADLOCK FALSE
