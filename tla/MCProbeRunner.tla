---------------------------- MODULE MCProbeRunner ----------------------------
EXTENDS ProbeRunner, TLC
=============================================================================
