\* Three probes, one slot, two ports: a body that outlives its call meets the next
\* call, and two of them leave the third without a port.
SPECIFICATION FairSpec
CONSTANTS
    Probe = {p1, p2, p3}
    SpeedTest = {p2, p3}
    Port = {x1, x2}
    Concurrency = 1
    Targets = 2
    None = None
    MaxHangs = 1
INVARIANTS
    TypeOK
    PortsExclusive
    OwnTunnel
    PortsConserved
    ProcessBound
PROPERTIES
    CallReturns
    PortReturns
CHECK_DEADLOCK FALSE
