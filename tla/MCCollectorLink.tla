-------------------------- MODULE MCCollectorLink ---------------------------
EXTENDS CollectorLink, TLC

Symmetry == Permutations(Channels) \cup Permutations(Tasks)
=============================================================================
