----------------------------- MODULE MCCapture ------------------------------
EXTENDS Capture, TLC
Symmetry == Permutations(Threads) \cup Permutations(Writers)
=============================================================================
