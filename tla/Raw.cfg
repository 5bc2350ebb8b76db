\* A source of up to three nodes, which fill a batch and a half; a fetch takes both.
SPECIFICATION FairSpec
CONSTANTS
    Node = {n1, n2, n3}
    Source = {s1}
    None = None
    Batch = 2
    FetchSize = 2
    MaxDeliver = 2
    MaxPasses = 1
    MaxMessages = 2
    MaxFaults = 2
INVARIANTS
    TypeOK
    CountedAccounted
    RowsLocated
PROPERTIES
    LocatedOnce
    RawSettles
CHECK_DEADLOCK FALSE
