--------------------------- MODULE CompletionQueue ---------------------------
(***************************************************************************)
(* The completion queue of io-uring/src/lib.rs: the kernel writes entries  *)
(* of the array k_cqes and publishes them by storing k_tail, user space    *)
(* iterates over them and frees their places by storing k_head when the    *)
(* iterator is dropped.  The iterator works on a private head and on a     *)
(* cached copy of k_tail that it refreshes only when it has caught up.     *)
(* The kernel is external; it drops a completion that it cannot queue.  It *)
(* counts them in k_overflow, which no other operation looks at.           *)
(***************************************************************************)
EXTENDS RingIndex, Sequences

CONSTANTS
  Items,      \* the completions the kernel posts
  Garbage,    \* the content of an entry that was never written
  NoItem      \* nothing read yet

ASSUME CompletionAssumption ==
  /\ Garbage \notin Items
  /\ NoItem \notin Items \cup {Garbage}

VARIABLES
  k_head,       \* shared: entries before it may be overwritten
  k_tail,       \* shared: entries before it are published
  k_cqes,       \* shared: the array of entries
  local_head,   \* user: next entry to read
  cached_tail,  \* user: last value seen of k_tail
  pc,           \* user: "idle" or "iter" (a BulkCompletion is alive)
  item,         \* user: the completion next() returned last
  cq_tail,      \* kernel: next entry to write
  posted        \* kernel: outcome of the last attempt to post, <<call, value>>

userVars == <<local_head, cached_tail, pc, item>>
kernelVars == <<cq_tail, posted>>
vars == <<k_head, k_tail, k_cqes, userVars, kernelVars>>

(* CompletionQueue::new on a fresh ring *)
Init ==
  /\ k_head = 0
  /\ k_tail = 0
  /\ k_cqes = [s \in Slots |-> Garbage]
  /\ local_head = k_head
  /\ cached_tail = k_tail
  /\ pc = "idle"
  /\ item = NoItem
  /\ cq_tail = 0
  /\ posted = <<"none", 0>>

------------------------------------------------------------------------------
(* Faulty variant: the cached tail is never refreshed. *)
TailReadStale == cached_tail

(* is_empty(): the tail is refreshed when the iterator has caught up. *)
TailRead == IF cached_tail = local_head THEN k_tail ELSE cached_tail

into_iter ==
  /\ pc = "idle"
  /\ pc' = "iter"
  /\ UNCHANGED <<k_head, k_tail, k_cqes, local_head, cached_tail,
                 item, kernelVars>>

(* Faulty variant: an item is returned without is_empty(). *)
NextSomeUnchecked ==
  /\ pc = "iter"
  /\ cached_tail' = TailRead
  /\ item' = k_cqes[Slot(local_head)]
  /\ local_head' = WrapIncr(local_head)
  /\ UNCHANGED <<k_head, k_tail, k_cqes, pc, kernelVars>>

(* next() that returns a completion: the entry is copied out. *)
NextSome ==
  /\ pc = "iter"
  /\ TailRead # local_head
  /\ cached_tail' = TailRead
  /\ item' = k_cqes[Slot(local_head)]
  /\ local_head' = WrapIncr(local_head)
  /\ UNCHANGED <<k_head, k_tail, k_cqes, pc, kernelVars>>

NextNone ==
  /\ pc = "iter"
  /\ TailRead = local_head
  /\ cached_tail' = TailRead
  /\ UNCHANGED <<k_head, k_tail, k_cqes, local_head, pc, item, kernelVars>>

(* Faulty variant: entries not yet read are freed too. *)
DropIterFreesAll ==
  /\ pc = "iter"
  /\ k_head' = cached_tail
  /\ pc' = "idle"
  /\ UNCHANGED <<k_tail, k_cqes, local_head, cached_tail, item,
                 kernelVars>>

(* Drop of BulkCompletion, exhausted or not: flush_head(). *)
DropIter ==
  /\ pc = "iter"
  /\ k_head' = local_head
  /\ pc' = "idle"
  /\ UNCHANGED <<k_tail, k_cqes, local_head, cached_tail, item,
                 kernelVars>>

------------------------------------------------------------------------------
(* External: head and tail address the same entry but are not equal. *)
RingFull == cq_tail # k_head /\ SameSlot(cq_tail, k_head)

(* External: the kernel writes a completion into the next entry. *)
KernelPost(x) ==
  /\ ~RingFull
  /\ k_cqes' = [k_cqes EXCEPT ![Slot(cq_tail)] = x]
  /\ cq_tail' = WrapIncr(cq_tail)
  /\ posted' = <<"ok", 0>>
  /\ UNCHANGED <<k_head, k_tail, userVars>>

(* External: the ring is full, the completion is lost. *)
KernelOverflow ==
  /\ RingFull
  /\ posted' = <<"full", 0>>
  /\ UNCHANGED <<k_head, k_tail, k_cqes, userVars, cq_tail>>

(* External: the kernel makes the entries it wrote visible. *)
KernelCommitTail ==
  /\ k_tail # cq_tail
  /\ k_tail' = cq_tail
  /\ UNCHANGED <<k_head, k_cqes, userVars, kernelVars>>

User == into_iter \/ NextSome \/ NextNone \/ DropIter

Kernel == (\E x \in Items : KernelPost(x)) \/ KernelOverflow \/ KernelCommitTail

Next == User \/ Kernel

Spec == Init /\ [][Next]_vars

(* The kernel publishes what it wrote, and user space iterates again and   *)
(* again, asking each iterator for an item, as Inner::check_completions    *)
(* (tokio-uring-reactor/src/reactor.rs:134) does on every park.            *)
Fairness ==
  /\ WF_vars(KernelCommitTail)
  /\ WF_vars(into_iter)
  /\ SF_vars(NextSome)
  /\ WF_vars(DropIter)

FairSpec == Spec /\ Fairness
------------------------------------------------------------------------------
TypeOK ==
  /\ {k_head, k_tail, local_head, cached_tail, cq_tail} \subseteq Index
  /\ k_cqes \in [Slots -> Items \cup {Garbage}]
  /\ pc \in {"idle", "iter"}
  /\ item \in Items \cup {Garbage, NoItem}
  /\ posted \in {"none", "ok", "full"} \X {0}

(* Within one ring the indices are passed in the order k_head, local_head, *)
(* cached_tail, k_tail, cq_tail.                                           *)
IndexOrder ==
    WrapSub(local_head, k_head) + WrapSub(cached_tail, local_head)
      + WrapSub(k_tail, cached_tail) + WrapSub(cq_tail, k_tail) <= Entries

PhaseInv == pc = "idle" => k_head = local_head

(* Index i was written by the kernel and not yet read by the iterator. *)
Unread(i) == WrapSub(i, local_head) < WrapSub(cq_tail, local_head)

(* Every entry the iterator may still read holds a completion: the tail it *)
(* caches never runs ahead of what the kernel wrote.                       *)
UnreadWritten ==
  /\ \A i \in Index : Unread(i) => k_cqes[Slot(i)] \in Items
  /\ item # Garbage

IInv == TypeOK /\ IndexOrder /\ PhaseInv /\ UnreadWritten

(* The kernel reuses an entry only after flush_head(): a completion keeps  *)
(* its content as long as the iterator has not copied it out.              *)
UnreadIntact ==
  [][\A i \in Index : Unread(i) /\ Unread(i)' =>
        k_cqes'[Slot(i)] = k_cqes[Slot(i)]]_vars

Fifo == INSTANCE StagedFifo WITH
  Capacity  <- Entries,
  staged    <- Window(k_cqes, k_tail, cq_tail),
  published <- Window(k_cqes, local_head, k_tail),
  held      <- WrapSub(local_head, k_head),
  got       <- item,
  reply     <- posted

(* The ring implements the bounded queue: a completion that was posted is  *)
(* returned by next() once, in order and unchanged, and one is lost to     *)
(* overflow only while every place is taken.                               *)
ImplementsFifo == Fifo!Spec

(* None is returned only when the iterator has read everything that was    *)
(* published when the tail was refreshed, and what is published is read    *)
(* sooner or later: no completion stays behind a stale cached_tail.        *)
PublishedIsRead ==
  \A i \in Index :
    (Unread(i) /\ WrapSub(i, local_head) < WrapSub(k_tail, local_head)) ~> ~Unread(i)
==============================================================================
