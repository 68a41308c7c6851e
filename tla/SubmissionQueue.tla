--------------------------- MODULE SubmissionQueue ---------------------------
(***************************************************************************)
(* The submission queue of io-uring/src/lib.rs: user space fills entries   *)
(* of the array sces and publishes them by storing k_tail, the kernel      *)
(* takes them and frees their places by storing k_head.  User space works  *)
(* on a private tail and on a cached copy of k_head that it refreshes only *)
(* when the ring looks full.  The kernel runs concurrently (with SQPOLL in *)
(* a thread of its own, else inside io_uring_enter); it is external.       *)
(***************************************************************************)
EXTENDS RingIndex, Sequences

CONSTANTS
  Items,           \* the submissions the callers' closures write
  Zeroed,          \* an entry after SubmissionEntry::clear
  NoItem,          \* nothing taken yet
  OverflowChecks   \* TRUE for a build with overflow checks (debug)

ASSUME SubmissionAssumption ==
  /\ Zeroed \notin Items
  /\ NoItem \notin Items \cup {Zeroed}
  /\ OverflowChecks \in BOOLEAN

VARIABLES
  k_head,       \* shared: entries before it were consumed by the kernel
  k_tail,       \* shared: entries before it are published
  sces,         \* shared: the array of entries
  cached_head,  \* user: last value seen of k_head
  local_tail,   \* user: next entry to fill
  pc,           \* user: "idle", "bulk" (a BulkSubmission is alive),
                \* "fill" (inside the closure of submit_with), "panic"
  reply,        \* user: outcome of the last call, <<call, value>>
  sq_head,      \* kernel: next entry to take
  taken         \* kernel: its copy of the entry taken last

userVars == <<cached_head, local_tail, pc, reply>>
kernelVars == <<sq_head, taken>>
vars == <<k_head, k_tail, sces, userVars, kernelVars>>

Bit(b) == IF b THEN 1 ELSE 0

(* SubmissionQueue::new: the indices are read from a fresh ring, the index *)
(* array is the identity, so the entry of index i is sces[Slot(i)].        *)
Init ==
  /\ k_head = 0
  /\ k_tail = 0
  /\ sces = [s \in Slots |-> Zeroed]
  /\ cached_head = k_head
  /\ local_tail = k_tail
  /\ pc = "idle"
  /\ reply = <<"none", 0>>
  /\ sq_head = 0
  /\ taken = NoItem

------------------------------------------------------------------------------
(* Faulty variant: the cached head is never refreshed. *)
HeadReadStale == cached_head

(* head(): the cached head, refreshed if the ring is not empty and its     *)
(* ends address the same entry.                                            *)
HeadRead ==
  IF cached_head # local_tail /\ SameSlot(cached_head, local_tail)
    THEN k_head ELSE cached_head

(* Faulty variant: the test for a full ring is missing. *)
NeverFull(head) == FALSE

(* is_full(), given the head that head() returned *)
FullAt(head) == head # local_tail /\ SameSlot(head, local_tail)

bulk ==
  /\ pc = "idle"
  /\ pc' = "bulk"
  /\ UNCHANGED <<k_head, k_tail, sces, cached_head, local_tail, reply, kernelVars>>

is_full ==
  /\ pc \in {"idle", "bulk"}
  /\ cached_head' = HeadRead
  /\ reply' = <<"is_full", Bit(FullAt(HeadRead))>>
  /\ UNCHANGED <<k_head, k_tail, sces, local_tail, pc, kernelVars>>

(* submit_with when is_full(): the closure is not called. *)
SubmitQueueFull ==
  /\ pc = "bulk"
  /\ FullAt(HeadRead)
  /\ cached_head' = HeadRead
  /\ reply' = <<"full", 0>>
  /\ UNCHANGED <<k_head, k_tail, sces, local_tail, pc, kernelVars>>

(* submit_with up to the call of the closure: the entry is cleared. *)
SubmitBegin ==
  /\ pc = "bulk"
  /\ ~FullAt(HeadRead)
  /\ cached_head' = HeadRead
  /\ sces' = [sces EXCEPT ![Slot(local_tail)] = Zeroed]
  /\ pc' = "fill"
  /\ UNCHANGED <<k_head, k_tail, local_tail, reply, kernelVars>>

(* The closure wrote x and returned Ok: the entry is staged. *)
SubmitFilled(x) ==
  /\ pc = "fill"
  /\ sces' = [sces EXCEPT ![Slot(local_tail)] = x]
  /\ local_tail' = WrapIncr(local_tail)
  /\ reply' = <<"ok", 0>>
  /\ pc' = "bulk"
  /\ UNCHANGED <<k_head, k_tail, cached_head, kernelVars>>

(* The closure returned Err, whatever it wrote: FillError, nothing staged. *)
SubmitFillError(x) ==
  /\ pc = "fill"
  /\ sces' = [sces EXCEPT ![Slot(local_tail)] = x]
  /\ reply' = <<"err", 0>>
  /\ pc' = "bulk"
  /\ UNCHANGED <<k_head, k_tail, cached_head, local_tail, kernelVars>>

(* Drop of BulkSubmission: flush_tail() publishes what was staged. *)
DropBulk ==
  /\ pc = "bulk"
  /\ k_tail' = local_tail
  /\ pc' = "idle"
  /\ UNCHANGED <<k_head, sces, cached_head, local_tail, reply, kernelVars>>

has_pending_submissions ==
  /\ pc = "idle"
  /\ cached_head' = k_head
  /\ reply' = <<"has_pending", Bit(k_head # local_tail)>>
  /\ UNCHANGED <<k_head, k_tail, sces, local_tail, pc, kernelVars>>

(* local_tail - refresh_head() is a plain subtraction of u32 values: it    *)
(* wraps in a release build and panics in a build with overflow checks.    *)
pending_submissions ==
  /\ pc = "idle"
  /\ cached_head' = k_head
  /\ IF OverflowChecks /\ local_tail < k_head
       THEN pc' = "panic" /\ UNCHANGED reply
       ELSE reply' = <<"pending", WrapSub(local_tail, k_head)>> /\ UNCHANGED pc
  /\ UNCHANGED <<k_head, k_tail, sces, local_tail, kernelVars>>

------------------------------------------------------------------------------
(* External: the kernel copies the next published entry. *)
KernelTake ==
  /\ sq_head # k_tail
  /\ taken' = sces[Slot(sq_head)]
  /\ sq_head' = WrapIncr(sq_head)
  /\ UNCHANGED <<k_head, k_tail, sces, userVars>>

(* External: the kernel frees the places of the entries it took. *)
KernelCommitHead ==
  /\ k_head # sq_head
  /\ k_head' = sq_head
  /\ UNCHANGED <<k_tail, sces, userVars, kernelVars>>

User ==
  \/ bulk \/ is_full \/ SubmitQueueFull \/ SubmitBegin
  \/ \E x \in Items : SubmitFilled(x)
  \/ \E x \in Items \cup {Zeroed} : SubmitFillError(x)
  \/ DropBulk \/ has_pending_submissions \/ pending_submissions

Kernel == KernelTake \/ KernelCommitHead

Next == User \/ Kernel

Spec == Init /\ [][Next]_vars
------------------------------------------------------------------------------
TypeOK ==
  /\ {k_head, k_tail, cached_head, local_tail, sq_head} \subseteq Index
  /\ sces \in [Slots -> Items \cup {Zeroed}]
  /\ pc \in {"idle", "bulk", "fill", "panic"}
  /\ reply \in {"none", "ok", "full", "err", "is_full", "has_pending", "pending"} \X Nat
  /\ taken \in Items \cup {Zeroed, NoItem}

(* The indices, starting from the cached head, are passed in the order     *)
(* cached_head, k_head, sq_head, k_tail, local_tail within one ring.       *)
IndexOrder ==
    WrapSub(k_head, cached_head) + WrapSub(sq_head, k_head)
      + WrapSub(k_tail, sq_head) + WrapSub(local_tail, k_tail) <= Entries

(* While an entry is being filled there is a place for it, and tails agree *)
(* when no BulkSubmission is alive.                                        *)
PhaseInv ==
  /\ pc = "fill" => WrapSub(local_tail, cached_head) < Entries
  /\ pc \in {"idle", "panic"} => k_tail = local_tail

(* Index i is staged or published, and not yet taken by the kernel. *)
Pending(i) == WrapSub(i, sq_head) < WrapSub(local_tail, sq_head)

(* Every entry between the kernel's head and the private tail holds a      *)
(* completely written submission: the closure's writes, the clear() before *)
(* them and a failed fill never touch an entry the kernel may still read.  *)
PendingFilled ==
  /\ \A i \in Index : Pending(i) => sces[Slot(i)] \in Items
  /\ taken # Zeroed

IInv == TypeOK /\ IndexOrder /\ PhaseInv /\ PendingFilled

(* A submission that is staged or published keeps its content until the    *)
(* kernel takes it, through wrap-around of the ring and of the indices.    *)
PendingIntact ==
  [][\A i \in Index : Pending(i) /\ Pending(i)' =>
        sces'[Slot(i)] = sces[Slot(i)]]_vars

Fifo == INSTANCE StagedFifo WITH
  Capacity  <- Entries,
  staged    <- Window(sces, k_tail, local_tail),
  published <- Window(sces, sq_head, k_tail),
  held      <- WrapSub(sq_head, k_head),
  got       <- taken

(* The ring implements the bounded queue: submissions reach the kernel     *)
(* once each and in order, QueueFull is returned only when every place is  *)
(* taken, and the pending queries count exactly the unconsumed entries.    *)
ImplementsFifo == Fifo!Spec

(* pending_submissions() returns: "pending submissions: [head..tail]"      *)
(* (io-uring-sys/src/lib.rs:179) is defined for every head and tail.       *)
PendingNeverPanics == pc # "panic"
==============================================================================
