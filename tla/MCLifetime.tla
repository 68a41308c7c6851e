------------------------------ MODULE MCLifetime ------------------------------
EXTENDS Lifetime, TLC

(* One memory for each ring, with the array right behind the fixed fields *)
SeparateRings ==
  [sq |-> [head |-> 0, tail |-> 64, ring_mask |-> 128, ring_entries |-> 132,
           flags |-> 140, dropped |-> 136, array |-> 144],
   cq |-> [head |-> 0, tail |-> 64, ring_mask |-> 128, ring_entries |-> 132,
           overflow |-> 136, cqes |-> 144]]

(* One memory for both rings: the fields lie between those of the other    *)
(* ring, and the index array behind the completions.                       *)
SharedRings ==
  [sq |-> [head |-> 0, tail |-> 64, ring_mask |-> 256, ring_entries |-> 264,
           flags |-> 276, dropped |-> 272, array |-> 384],
   cq |-> [head |-> 128, tail |-> 192, ring_mask |-> 260, ring_entries |-> 268,
           overflow |-> 284, cqes |-> 320]]

MCLayouts == {SeparateRings, SharedRings}

Symmetry == Permutations(Threads)
==============================================================================
