------------------------------ MODULE RingIndex ------------------------------
(***************************************************************************)
(* Arithmetic on the free-running 32 bit indices of the two io_uring rings *)
(* (io-uring/src/lib.rs).  Indices are never masked when they are stored:  *)
(* they count modulo IndexLimit (2^32 in the code), and only the access to *)
(* a ring element masks them.                                              *)
(***************************************************************************)
EXTENDS Integers

CONSTANTS
  Entries,     \* ring_entries: the number of elements of the ring
  IndexLimit   \* the number of values of an index, 2^32 in the code

(* The constructors assert that ring_entries is a power of two; what the   *)
(* arithmetic needs of it is that it divides the number of index values.   *)
ASSUME RingAssumption ==
  /\ Entries \in Nat \ {0}
  /\ IndexLimit \in Nat
  /\ \E k \in 2..IndexLimit : IndexLimit = k * Entries

Index == 0..(IndexLimit - 1)

Slots == 0..(Entries - 1)

(* ndx.wrapping_add(1) *)
WrapIncr(i) == IF i + 1 = IndexLimit THEN 0 ELSE i + 1

(* i.wrapping_add(n), for n at most IndexLimit *)
WrapAdd(i, n) == IF i + n >= IndexLimit THEN i + n - IndexLimit ELSE i + n

(* The unsigned difference t - h: the number of increments from h to t. *)
WrapSub(t, h) == IF t >= h THEN t - h ELSE t - h + IndexLimit

(* ndx & ring_mask, with ring_mask = ring_entries - 1 *)
Slot(i) == i % Entries

(* Faulty variant: the mask has one bit too many. *)
SameSlotWide(a, b) == a % (2 * Entries) = b % (2 * Entries)

(* 0 == ((a ^ b) & ring_mask): both indices address the same element. *)
SameSlot(a, b) == Slot(a) = Slot(b)

(* The elements of ring from index first up to but excluding end, as a     *)
(* sequence                                                                *)
Window(ring, first, end) ==
  [n \in 1..WrapSub(end, first) |-> ring[Slot(WrapAdd(first, n - 1))]]
==============================================================================
