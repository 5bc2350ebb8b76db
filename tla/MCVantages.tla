----------------------------- MODULE MCVantages -----------------------------
EXTENDS Vantages, TLC
CONSTANTS rf1, eu1
RoleOf == rf1 :> "validator" @@ eu1 :> "tester"
=============================================================================
