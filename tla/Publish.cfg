\* Two nodes, of which one may change unnoticed; two minutes to a period; three
\* versions for a client whose channel has room for one.
SPECIFICATION FairSpec
CONSTANTS
    Node = {n1, n2}
    Client = {c1}
    Period = 2
    Percent = 60
    Buffer = 1
    MaxVersions = 3
    MaxChanges = 2
    MaxFaults = 2
INVARIANTS
    TypeOK
    EntryHasRow
PROPERTIES
    IsLog
    SkipJustified
    CatchesUp
    ClientHears
CHECK_DEADLOCK FALSE
