\* A node of the TCP family, with its L0 job and the L1 jobs that follow, and a node
\* that begins with L1, planned again for a retest at the next instant, L2 or a
\* validator: three jobs, two executions, two deliveries of each message and one fault
\* of any kind.
SPECIFICATION Spec
CONSTANTS
    Node = {n1, n2}
    TcpFamily = {n1}
    Tester = {t1}
    Edge = {rf1}
    Cloud = cloud
    BatchSize = 1
    ValL2Top = 1
    MaxDeliver = 2
    MaxJobs = 3
    MaxPlanned = 2
    MaxRuns = 2
    MaxTime = 2
    MaxFaults = 1
    FaultKinds = {"worker", "coordinator", "db", "net"}
    None = None
    FreshRetest = 0
    StaleRetest = 1
    FreshWindow = 2
    BackoffUnit = 0
    BackoffCap = 1
INVARIANTS
    OneL1PerPass
    AggregateFresh
    CostlyProbesEarned
PROPERTIES
    IsLedger
CHECK_DEADLOCK FALSE
