------------------------- MODULE MCCollectorBuffer --------------------------
EXTENDS CollectorBuffer, TLC

Symmetry == Permutations(Messages) \cup Permutations(Flushes)
=============================================================================
