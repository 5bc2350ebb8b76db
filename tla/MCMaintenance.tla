---------------------------- MODULE MCMaintenance ----------------------------
EXTENDS Maintenance, FiniteSets, TLC
CONSTANTS p1, p2
\* The first day of each month; day 0 is the last of its own.
FirstDays == {1, 4, 8, 12, 15}
MonthOf == [d \in Day |-> Cardinality({f \in FirstDays : f <= d})]
Migrators == Permutations({p1, p2})
=============================================================================
