------------------------------ MODULE MCReactor ------------------------------
EXTENDS Reactor, TLC

(* Registrations and threads are interchangeable. *)
Symmetry == Permutations(Regs) \cup Permutations(Threads)
==============================================================================
