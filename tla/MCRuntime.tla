------------------------------ MODULE MCRuntime ------------------------------
EXTENDS Runtime, TLC

Symmetry == Permutations(Runtimes)
==============================================================================
