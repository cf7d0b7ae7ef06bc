------------------------------ MODULE MCAiBatch ------------------------------
EXTENDS AiBatch, TLC

WorkerSymmetry == Permutations(Workers)
=============================================================================
