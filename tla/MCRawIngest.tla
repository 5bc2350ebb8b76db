---------------------------- MODULE MCRawIngest ----------------------------
EXTENDS RawIngest, TLC
=============================================================================
