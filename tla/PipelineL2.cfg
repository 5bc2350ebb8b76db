\* An L1 pass, then an L2 pass.
SPECIFICATION Spec
CONSTANTS
    Node = {n1}
    TcpFamily = {}
    Tester = {t1}
    Edge = {}
    Cloud = cloud
    BatchSize = 1
    ValL2Top = 1
    MaxDeliver = 1
    MaxJobs = 2
    MaxPlanned = 2
    MaxRuns = 2
    MaxTime = 2
    MaxFaults = 0
    FaultKinds = {}
    None = None
    FreshRetest = 1
    StaleRetest = 2
    FreshWindow = 2
    BackoffUnit = 1
    BackoffCap = 2
PROPERTIES
    SpeedTestKeepsAlive
CHECK_DEADLOCK FALSE
