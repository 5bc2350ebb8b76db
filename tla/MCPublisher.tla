---------------------------- MODULE MCPublisher ----------------------------
EXTENDS Publisher, TLC
=============================================================================
