\* A validator and a tester, two requests of the administrator and one fault.
SPECIFICATION FairSpec
CONSTANTS
    rf1 = rf1
    eu1 = eu1
    Vantage = {rf1, eu1}
    Role <- RoleOf
    MaxEdits = 2
    MaxFaults = 1
INVARIANTS
    TypeOK
    RetiredStay
PROPERTIES
    JobsWhereWanted
    Registered
    AttachEnds
