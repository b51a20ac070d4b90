------------------------------ MODULE MCMemory ------------------------------
EXTENDS SessionMemory, TLC
=============================================================================
