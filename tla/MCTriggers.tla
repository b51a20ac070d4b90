----------------------------- MODULE MCTriggers -----------------------------
EXTENDS LocalTriggers, TLC
CONSTANTS t1, t2
=============================================================================
