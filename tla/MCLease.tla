------------------------------- MODULE MCLease -------------------------------
EXTENDS Lease, TLC
=============================================================================
