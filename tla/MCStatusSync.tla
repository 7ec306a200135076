---------------------------- MODULE MCStatusSync ----------------------------
EXTENDS StatusSync
=============================================================================
