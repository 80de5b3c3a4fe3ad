--------------------------- MODULE MCReliableSession ---------------------------
EXTENDS ReliableSession, TLC
Symmetry == Permutations(Upstreams)
================================================================================
