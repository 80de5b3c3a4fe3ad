---------------------------- MODULE MCUpstreamHealth ---------------------------
EXTENDS UpstreamHealth, TLC
\* Slots, endpoints and requests are interchangeable.
Symmetry == Permutations(Slots) \cup Permutations(Keys) \cup Permutations(Requests)
================================================================================
