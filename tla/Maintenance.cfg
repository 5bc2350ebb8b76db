\* Months of three and four days; what is ahead spans the longest of them, a pause and
\* it no two.
SPECIFICATION Spec
CONSTANTS
    p1 = p1
    p2 = p2
    Node = {n1}
    Migrator = {p1, p2}
    Month <- MonthOf
    Ahead = 5
    Keep = 4
    Grace = 2
    Pause = 2
    LastDay = 9
SYMMETRY Migrators
INVARIANTS
    TypeOK
    MigrationsResume
    ResultsFit
PROPERTIES
    RawKept
    GraceKept
