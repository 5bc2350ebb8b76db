\* A batch of two nodes, two deliveries of each message, one fault of any kind.
SPECIFICATION FairSpec
CONSTANTS
    Node = {n1, n2}
    TcpFamily = {}
    Tester = {t1}
    Edge = {}
    Cloud = cloud
    BatchSize = 2
    ValL2Top = 1
    MaxDeliver = 2
    MaxJobs = 1
    MaxPlanned = 1
    MaxRuns = 3
    MaxTime = 1
    MaxFaults = 1
    FaultKinds = {"worker", "coordinator", "db", "net"}
    None = None
    FreshRetest = 1
    StaleRetest = 2
    FreshWindow = 2
    BackoffUnit = 1
    BackoffCap = 2
INVARIANTS
    TypeOK
    NoResultLost
PROPERTIES
    JobSettles
    IsLedger
CHECK_DEADLOCK FALSE
