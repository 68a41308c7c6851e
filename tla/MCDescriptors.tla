---------------------------- MODULE MCDescriptors ----------------------------
EXTENDS Descriptors, TLC

Symmetry == Permutations(Streams) \cup Permutations(Numbers) \cup Permutations(Ops)
==============================================================================
