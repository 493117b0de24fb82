---------------------------- MODULE MCPublication ----------------------------
EXTENDS Publication, TLC

Symmetry == Permutations(Callers) \cup Permutations(Heads)
==============================================================================
