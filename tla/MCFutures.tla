------------------------------ MODULE MCFutures ------------------------------
EXTENDS Futures, TLC

Symmetry ==
  Permutations(Addrs) \cup Permutations(Ops) \cup Permutations(Tasks)
    \cup Permutations(Transfers)
==============================================================================
