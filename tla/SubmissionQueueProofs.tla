------------------------ MODULE SubmissionQueueProofs ------------------------
(***************************************************************************)
(* IInv of SubmissionQueue is inductive, for every ring size, every index  *)
(* width and every set of submissions; the safety properties follow.       *)
(***************************************************************************)
EXTENDS SubmissionQueue, RingIndexProofs

(* The members of TypeOK's set of indices, one by one. *)
LEMMA IndexTypes ==
  ASSUME TypeOK
  PROVE  /\ k_head \in Index /\ k_tail \in Index
         /\ cached_head \in Index /\ local_tail \in Index
         /\ sq_head \in Index
BY DEF TypeOK

(* What the index order means for the distances the code measures: the     *)
(* tail is at most one ring ahead of the cached head, of the shared head   *)
(* and of the kernel's head.                                               *)
LEMMA Distances ==
  ASSUME TypeOK, IndexOrder
  PROVE  /\ WrapSub(local_tail, cached_head) \in 0..Entries
         /\ WrapSub(local_tail, k_head) \in 0..Entries
         /\ WrapSub(local_tail, sq_head) \in 0..Entries
         /\ WrapSub(local_tail, sq_head) <= WrapSub(local_tail, k_head)
         /\ WrapSub(local_tail, k_head) <= WrapSub(local_tail, cached_head)
BY IndexTypes, TwoRings DEF IndexOrder, Index, WrapSub

(* is_full() returning false means that there is a free place: the test on *)
(* masked indices agrees with the distance.                                *)
LEMMA NotFullHasRoom ==
  ASSUME TypeOK, IndexOrder, NEW head \in {cached_head, k_head}, ~FullAt(head)
  PROVE  WrapSub(local_tail, head) < Entries
<1>1. head \in Index /\ local_tail \in Index
  BY IndexTypes
<1>2. WrapSub(local_tail, head) \in 0..Entries
  BY Distances
<1>3. SameSlot(local_tail, head) <=> WrapSub(local_tail, head) \in {0, Entries}
  BY <1>1, <1>2, SameSlotIff
<1>4. SameSlot(head, local_tail) <=> SameSlot(local_tail, head)
  BY DEF SameSlot
<1>5. head = local_tail => WrapSub(local_tail, head) = 0
  BY <1>1 DEF WrapSub, Index
<1>6. WrapSub(local_tail, head) # Entries
  BY <1>3, <1>4, <1>5, TwoRings DEF FullAt
<1> QED BY <1>2, <1>6, TwoRings

(* SubmitBegin may write to the entry at the tail. *)
LEMMA RoomAtTail ==
  ASSUME TypeOK, IndexOrder, WrapSub(local_tail, k_head) < Entries,
         NEW i \in Index, Pending(i)
  PROVE  Slot(i) # Slot(local_tail)
<1>1. WrapSub(local_tail, sq_head) < Entries
  BY Distances, IndexTypes, WrapTypes, TwoRings
<1> QED BY <1>1, IndexTypes, LiveSlotsDiffer DEF Pending

(* While the closure fills an entry, and when it is about to, there is     *)
(* room at the tail.                                                       *)
LEMMA RoomToFill ==
  ASSUME IInv, pc = "fill" \/ SubmitBegin
  PROVE  WrapSub(local_tail, k_head) < Entries
<1>1. TypeOK /\ IndexOrder
  BY DEF IInv
<1>2. WrapSub(local_tail, k_head) <= WrapSub(local_tail, cached_head)
  BY <1>1, Distances
<1>3. CASE pc = "fill"
  <2>1. WrapSub(local_tail, cached_head) < Entries
    BY <1>3 DEF IInv, PhaseInv
  <2> QED BY <2>1, <1>1, <1>2, IndexTypes, WrapTypes, TwoRings
<1>4. CASE SubmitBegin
  <2>1. HeadRead \in {cached_head, k_head} /\ ~FullAt(HeadRead)
    BY <1>4 DEF SubmitBegin, HeadRead
  <2>2. WrapSub(local_tail, HeadRead) < Entries
    BY <2>1, <1>1, NotFullHasRoom
  <2>3. /\ WrapSub(local_tail, k_head) \in Nat
        /\ WrapSub(local_tail, cached_head) \in Nat
    BY <1>1, IndexTypes, WrapTypes
  <2>4. CASE HeadRead = cached_head
    BY <2>2, <2>3, <2>4, <1>2, TwoRings
  <2>5. CASE HeadRead = k_head
    BY <2>2, <2>5
  <2> QED BY <2>1, <2>4, <2>5
<1> QED BY <1>3, <1>4

(* Init: a fresh ring. *)
LEMMA InitIInv == Init => IInv
<1> SUFFICES ASSUME Init PROVE IInv
  OBVIOUS
<1>1. 0 \in Index
  BY TwoRings DEF Index
<1>2. TypeOK
  BY <1>1 DEF Init, TypeOK
<1>3. WrapSub(0, 0) = 0
  BY DEF WrapSub
<1>4. IndexOrder
  BY <1>3, TwoRings DEF Init, IndexOrder
<1>5. PhaseInv
  BY DEF Init, PhaseInv
<1>6. \A i \in Index : ~Pending(i)
  BY <1>3, TwoRings DEF Init, Pending, WrapSub, Index
<1>7. PendingFilled
  BY <1>6, SubmissionAssumption DEF Init, PendingFilled
<1> QED BY <1>2, <1>4, <1>5, <1>7 DEF IInv

(* The indices stay indices and the entries stay entries. *)
LEMMA NextTypeOK ==
  ASSUME IInv, [Next]_vars
  PROVE  TypeOK'
<1>1. TypeOK /\ IndexOrder
  BY DEF IInv
<1> USE IndexTypes, <1>1
<1>s. \A a \in Index : Slot(a) \in Slots /\ WrapIncr(a) \in Index
  BY SlotType, WrapTypes
<1>h. HeadRead \in Index
  BY DEF HeadRead
<1>2. CASE bulk
  BY <1>2 DEF bulk, TypeOK, kernelVars
<1>3. CASE is_full
  BY <1>3, <1>h DEF is_full, TypeOK, kernelVars, Bit
<1>4. CASE SubmitQueueFull
  BY <1>4, <1>h DEF SubmitQueueFull, TypeOK, kernelVars
<1>5. CASE SubmitBegin
  BY <1>5, <1>h, <1>s DEF SubmitBegin, TypeOK, kernelVars
<1>6. ASSUME NEW x \in Items, SubmitFilled(x) PROVE TypeOK'
  BY <1>6, <1>s DEF SubmitFilled, TypeOK, kernelVars
<1>7. ASSUME NEW x \in Items \cup {Zeroed}, SubmitFillError(x) PROVE TypeOK'
  BY <1>7, <1>s DEF SubmitFillError, TypeOK, kernelVars
<1>8. CASE DropBulk
  BY <1>8 DEF DropBulk, TypeOK, kernelVars
<1>9. CASE has_pending_submissions
  BY <1>9 DEF has_pending_submissions, TypeOK, kernelVars, Bit
<1>10. CASE pending_submissions
  <2>1. WrapSub(local_tail, k_head) \in Nat
    BY WrapTypes
  <2> QED BY <2>1, <1>10 DEF pending_submissions, TypeOK, kernelVars
<1>11. CASE KernelTake
  BY <1>11, <1>s DEF KernelTake, TypeOK, userVars
<1>12. CASE KernelCommitHead
  BY <1>12 DEF KernelCommitHead, TypeOK, userVars, kernelVars
<1>13. CASE UNCHANGED vars
  BY <1>13 DEF TypeOK, vars, userVars, kernelVars
<1> QED
  BY <1>2, <1>3, <1>4, <1>5, <1>6, <1>7, <1>8, <1>9, <1>10, <1>11, <1>12, <1>13
  DEF Next, User, Kernel

(* The indices keep their order: only a fill moves the tail away from the  *)
(* heads, and it has room to.                                              *)
LEMMA NextIndexOrder ==
  ASSUME IInv, [Next]_vars
  PROVE  IndexOrder'
<1>1. TypeOK /\ IndexOrder
  BY DEF IInv
<1> USE IndexTypes, <1>1, TwoRings DEF IndexOrder, Index, WrapSub
<1>2. CASE UNCHANGED <<k_head, k_tail, cached_head, local_tail, sq_head>>
  BY <1>2
<1>3. CASE /\ cached_head' \in {cached_head, k_head}
           /\ UNCHANGED <<k_head, k_tail, local_tail, sq_head>>
  BY <1>3
<1>4. ASSUME NEW x \in Items, SubmitFilled(x) PROVE IndexOrder'
  <2>1. WrapSub(local_tail, cached_head) < Entries
    BY <1>4 DEF IInv, PhaseInv, SubmitFilled
  <2> QED BY <1>4, <2>1 DEF SubmitFilled, WrapIncr, kernelVars
<1>5. CASE DropBulk
  BY <1>5 DEF DropBulk, kernelVars
<1>6. CASE KernelTake
  <2>1. /\ k_tail # sq_head /\ sq_head' = WrapIncr(sq_head)
        /\ UNCHANGED <<k_head, k_tail, cached_head, local_tail>>
    BY <1>6 DEF KernelTake, userVars
  <2>2. WrapSub(k_tail, sq_head') = WrapSub(k_tail, sq_head) - 1
    BY <2>1, WrapSteps
  <2>3. WrapSub(sq_head', k_head) = WrapSub(sq_head, k_head) + 1
    <3>1. WrapSub(k_tail, sq_head) >= 1
      BY ONLY <2>1, IndexTypes, TypeOK, TwoRings DEF WrapSub, Index
    <3>2. /\ WrapSub(k_head, cached_head) \in Nat /\ WrapSub(sq_head, k_head) \in Nat
          /\ WrapSub(k_tail, sq_head) \in Nat /\ WrapSub(local_tail, k_tail) \in Nat
      BY WrapTypes
    <3>3. WrapSub(sq_head, k_head) < IndexLimit - 1
      BY ONLY <3>1, <3>2, IndexOrder, TwoRings DEF IndexOrder
    <3> QED BY ONLY <2>1, <3>3, WrapSteps, IndexTypes, TypeOK
  <2>4. IndexOrder' <=>
          WrapSub(k_head, cached_head) + WrapSub(sq_head', k_head)
            + WrapSub(k_tail, sq_head') + WrapSub(local_tail, k_tail) <= Entries
    BY <2>1
  <2> QED BY <2>2, <2>3, <2>4
<1>7. CASE KernelCommitHead
  BY <1>7 DEF KernelCommitHead, userVars, kernelVars
<1> QED
  BY <1>2, <1>3, <1>4, <1>5, <1>6, <1>7
  DEF Next, User, Kernel, vars, userVars, kernelVars, bulk, is_full,
      SubmitQueueFull, SubmitBegin, SubmitFillError, has_pending_submissions,
      pending_submissions, HeadRead

(* A fill begins only with room for it, and a BulkSubmission flushes the   *)
(* tail when it is dropped.                                                *)
LEMMA NextPhaseInv ==
  ASSUME IInv, [Next]_vars
  PROVE  PhaseInv'
<1>1. TypeOK /\ IndexOrder /\ PhaseInv
  BY DEF IInv
<1>2. CASE SubmitBegin
  <2>1. HeadRead \in {cached_head, k_head} /\ ~FullAt(HeadRead)
    BY <1>2 DEF SubmitBegin, HeadRead
  <2>2. WrapSub(local_tail, HeadRead) < Entries
    BY <2>1, <1>1, NotFullHasRoom
  <2> QED BY <2>2, <1>2 DEF SubmitBegin, PhaseInv
<1>3. CASE KernelTake \/ KernelCommitHead \/ UNCHANGED vars
  BY <1>3, <1>1 DEF KernelTake, KernelCommitHead, vars, userVars, PhaseInv
<1>4. CASE User /\ ~SubmitBegin
  BY <1>4, <1>1
  DEF User, bulk, is_full, SubmitQueueFull, SubmitFilled, SubmitFillError, DropBulk,
      has_pending_submissions, pending_submissions, PhaseInv, kernelVars
<1> QED BY <1>2, <1>3, <1>4 DEF Next, Kernel

(* Every pending entry stays filled, and the kernel takes filled entries.  *)
LEMMA NextPendingFilled ==
  ASSUME IInv, [Next]_vars
  PROVE  PendingFilled'
<1>1. TypeOK /\ IndexOrder /\ PhaseInv /\ PendingFilled
  BY DEF IInv
<1> USE IndexTypes, <1>1
<1>s. \A i \in Index : Slot(i) \in Slots
  BY SlotType
<1>2. CASE UNCHANGED <<sces, sq_head, local_tail, taken>>
  BY <1>2 DEF PendingFilled, Pending
<1>3. CASE SubmitBegin
  <2>1. \A i \in Index : Pending(i) => Slot(i) # Slot(local_tail)
    BY <1>3, RoomToFill, RoomAtTail
  <2> QED BY <1>3, <2>1, <1>s
          DEF SubmitBegin, PendingFilled, Pending, kernelVars, TypeOK
<1>4. ASSUME NEW x \in Items \cup {Zeroed}, SubmitFillError(x) PROVE PendingFilled'
  <2>1. \A i \in Index : Pending(i) => Slot(i) # Slot(local_tail)
    BY <1>4, RoomToFill, RoomAtTail DEF SubmitFillError
  <2> QED BY <1>4, <2>1, <1>s
          DEF SubmitFillError, PendingFilled, Pending, kernelVars, TypeOK
<1>5. ASSUME NEW x \in Items, SubmitFilled(x) PROVE PendingFilled'
  <2>1. \A i \in Index : Pending(i) => Slot(i) # Slot(local_tail)
    BY <1>5, RoomToFill, RoomAtTail DEF SubmitFilled
  <2>2. ASSUME NEW i \in Index, Pending(i)' PROVE Pending(i) \/ i = local_tail
    <3>1. /\ local_tail' = WrapIncr(local_tail) /\ sq_head' = sq_head
          /\ WrapSub(i, sq_head) < WrapSub(local_tail', sq_head)
      BY <1>5, <2>2 DEF SubmitFilled, kernelVars, Pending
    <3>2. WrapSub(local_tail, sq_head) < IndexLimit - 1
      <4>1. WrapSub(local_tail, cached_head) < Entries
        BY <1>5 DEF PhaseInv, SubmitFilled
      <4> QED BY <4>1, Distances, TwoRings, WrapTypes
    <3>3. WrapSub(local_tail', sq_head) = WrapSub(local_tail, sq_head) + 1
      BY <3>1, <3>2, WrapSteps
    <3>4. WrapSub(i, sq_head) = WrapSub(local_tail, sq_head) => i = local_tail
      BY TwoRings DEF WrapSub, Index
    <3> QED BY <3>1, <3>3, <3>4, WrapTypes DEF Pending
  <2> QED BY <1>5, <2>1, <2>2, <1>s
          DEF SubmitFilled, PendingFilled, kernelVars, TypeOK
<1>6. CASE KernelTake
  <2>1. /\ k_tail # sq_head /\ sq_head' = WrapIncr(sq_head)
        /\ taken' = sces[Slot(sq_head)]
        /\ UNCHANGED <<sces, local_tail>>
    BY <1>6 DEF KernelTake, userVars
  <2>2. WrapSub(local_tail, sq_head) >= 1
    <3>1. local_tail # sq_head
      BY <2>1, TwoRings DEF IndexOrder, WrapSub, Index
    <3> QED BY <3>1, TwoRings DEF WrapSub, Index
  <2>3. Pending(sq_head)
    <3>1. WrapSub(sq_head, sq_head) = 0
      BY DEF WrapSub, Index
    <3> QED BY <2>2, <3>1, WrapTypes DEF Pending
  <2>4. taken' # Zeroed
    BY <2>1, <2>3, SubmissionAssumption DEF PendingFilled
  <2>5. ASSUME NEW i \in Index, Pending(i)' PROVE Pending(i)
    <3>1. WrapSub(i, WrapIncr(sq_head)) < WrapSub(local_tail, WrapIncr(sq_head))
      BY <2>1, <2>5 DEF Pending
    <3> QED BY <3>1, <2>2, TwoRings DEF Pending, WrapSub, WrapIncr, Index
  <2> QED BY <2>1, <2>4, <2>5 DEF PendingFilled
<1> QED
  BY <1>2, <1>3, <1>4, <1>5, <1>6
  DEF Next, User, Kernel, vars, userVars, kernelVars, bulk, is_full, SubmitQueueFull,
      DropBulk, has_pending_submissions, pending_submissions, KernelCommitHead

(* The strengthened invariant holds in every reachable state: the indices  *)
(* of user space and kernel keep their order within one ring, although     *)
(* each side works on stale copies of the other's index.                   *)
THEOREM SubmissionIInv == Spec => []IInv
<1>1. IInv /\ [Next]_vars => IInv'
  BY NextTypeOK, NextIndexOrder, NextPhaseInv, NextPendingFilled DEF IInv
<1> QED BY InitIInv, <1>1, PTL DEF Spec

(* Type correctness: the indices wrap within their range. *)
THEOREM SubmissionTypeOK == Spec => []TypeOK
<1>1. IInv => TypeOK
  BY DEF IInv
<1> QED BY <1>1, SubmissionIInv, PTL

(* Every entry the kernel may still read, or has read, is a completely     *)
(* written submission: clear() and the closure of submit_with, successful  *)
(* or not, only ever touch an entry that is free.                          *)
THEOREM SubmissionPendingFilled == Spec => []PendingFilled
<1>1. IInv => PendingFilled
  BY DEF IInv
<1> QED BY <1>1, SubmissionIInv, PTL

(* A staged or published submission keeps its content until it is taken.   *)
THEOREM SubmissionPendingIntact == Spec => PendingIntact
<1> DEFINE Keeps == \A i \in Index : Pending(i) /\ Pending(i)' =>
                      sces'[Slot(i)] = sces[Slot(i)]
<1>1. ASSUME IInv, [Next]_vars PROVE [Keeps]_vars
  <2>1. TypeOK /\ IndexOrder
    BY <1>1 DEF IInv
  <2>s. \A i \in Index : Slot(i) \in Slots
    BY SlotType
  <2>2. CASE UNCHANGED sces
    BY <2>2
  <2>3. CASE \E x : /\ pc = "fill" \/ SubmitBegin
                    /\ sces' = [sces EXCEPT ![Slot(local_tail)] = x]
    <3>1. \A i \in Index : Pending(i) => Slot(i) # Slot(local_tail)
      BY <1>1, <2>1, <2>3, RoomToFill, RoomAtTail
    <3> QED BY <2>3, <3>1, <2>1, <2>s DEF TypeOK
  <2> QED
    BY <1>1, <2>2, <2>3
    DEF Next, User, Kernel, vars, userVars, kernelVars, bulk, is_full, SubmitQueueFull,
        SubmitBegin, SubmitFilled, SubmitFillError, DropBulk, has_pending_submissions,
        pending_submissions, KernelTake, KernelCommitHead
<1>2. IInv /\ [Next]_vars => [Keeps]_vars
  BY <1>1
<1> QED BY <1>2, SubmissionIInv, PTL DEF Spec, PendingIntact

(***************************************************************************)
(* The refinement of StagedFifo.                                           *)
(***************************************************************************)
Staged == Window(sces, k_tail, local_tail)
Published == Window(sces, sq_head, k_tail)
Held == WrapSub(sq_head, k_head)

(* What the queue contains, in terms of the indices; the shared indices    *)
(* split the distance from k_head to local_tail.                           *)
LEMMA Contents ==
  ASSUME TypeOK, IndexOrder
  PROVE  /\ Len(Staged) = WrapSub(local_tail, k_tail)
         /\ Len(Published) = WrapSub(k_tail, sq_head)
         /\ WrapSub(local_tail, sq_head) = WrapSub(k_tail, sq_head) + WrapSub(local_tail, k_tail)
         /\ Fifo!Total = WrapSub(local_tail, k_head)
         /\ Fifo!Total \in 0..Entries
<1> DEFINE S == Items \cup {Zeroed}
<1>1. sces \in [Slots -> S]
  BY DEF TypeOK
<1> HIDE DEF S
<1>2. Len(Staged) = WrapSub(local_tail, k_tail)
  BY IndexTypes, WindowLen DEF Staged
<1>3. Len(Published) = WrapSub(k_tail, sq_head)
  BY IndexTypes, WindowLen DEF Published
<1>4. /\ WrapSub(local_tail, sq_head) = WrapSub(k_tail, sq_head) + WrapSub(local_tail, k_tail)
      /\ WrapSub(local_tail, k_head) = WrapSub(local_tail, k_tail) + WrapSub(k_tail, sq_head)
                                         + WrapSub(sq_head, k_head)
  BY IndexTypes, TwoRings DEF IndexOrder, Index, WrapSub
<1>5. Fifo!Total = Len(Staged) + Len(Published) + Held
  BY DEF Fifo!Total, Staged, Published, Held
<1> QED
  BY <1>2, <1>3, <1>4, <1>5, Distances DEF Held

(* is_full() is right about the ring, with its stale head or the fresh one *)
LEMMA FullIsFull ==
  ASSUME TypeOK, IndexOrder
  PROVE  FullAt(HeadRead) <=> Fifo!Total = Entries
<1>1. /\ WrapSub(local_tail, k_head) \in 0..Entries
      /\ WrapSub(local_tail, k_head) <= WrapSub(local_tail, cached_head)
      /\ WrapSub(local_tail, cached_head) \in 0..Entries
      /\ Fifo!Total = WrapSub(local_tail, k_head)
  BY Distances, Contents
<1>2. CASE HeadRead = k_head
  <2>1. SameSlot(local_tail, k_head) <=> WrapSub(local_tail, k_head) \in {0, Entries}
    BY <1>1, IndexTypes, SameSlotIff
  <2>2. local_tail = k_head <=> WrapSub(local_tail, k_head) = 0
    BY IndexTypes, TwoRings DEF WrapSub, Index
  <2>3. SameSlot(local_tail, k_head) <=> SameSlot(k_head, local_tail)
    BY DEF SameSlot
  <2> QED BY <1>1, <1>2, <2>1, <2>2, <2>3, TwoRings DEF FullAt
<1>3. CASE HeadRead # k_head
  <2>1. HeadRead = cached_head /\ ~FullAt(cached_head)
    BY <1>3 DEF HeadRead, FullAt
  <2>2. WrapSub(local_tail, cached_head) < Entries
    BY <2>1, NotFullHasRoom
  <2> QED BY <1>1, <2>1, <2>2, TwoRings
<1> QED BY <1>2, <1>3

(* A write to the free entry at the tail leaves both windows alone. *)
LEMMA WriteAtTail ==
  ASSUME IInv, pc = "fill" \/ SubmitBegin, NEW x \in Items \cup {Zeroed},
         sces' = [sces EXCEPT ![Slot(local_tail)] = x]
  PROVE  /\ Window(sces', k_tail, local_tail) = Staged
         /\ Window(sces', sq_head, k_tail) = Published
         /\ sces' \in [Slots -> Items \cup {Zeroed}]
         /\ sces'[Slot(local_tail)] = x
<1> DEFINE S == Items \cup {Zeroed}
<1>1. TypeOK /\ IndexOrder
  BY DEF IInv
<1>2. \A i \in Index : Pending(i) => Slot(i) # Slot(local_tail)
  BY <1>1, RoomToFill, RoomAtTail
<1>3. /\ sces \in [Slots -> S] /\ sces' \in [Slots -> S]
      /\ sces'[Slot(local_tail)] = x
      /\ \A i \in Index : Pending(i) => sces'[Slot(i)] = sces[Slot(i)]
  BY <1>1, <1>2, IndexTypes, SlotType DEF TypeOK
<1>4. ASSUME NEW i \in Index, \/ WrapSub(i, k_tail) < WrapSub(local_tail, k_tail)
                              \/ WrapSub(i, sq_head) < WrapSub(k_tail, sq_head)
      PROVE  Pending(i)
  BY <1>1, <1>4, IndexTypes, TwoRings DEF Pending, IndexOrder, WrapSub, Index
<1> HIDE DEF S
<1>5. Agree(sces, sces', k_tail, local_tail) /\ Agree(sces, sces', sq_head, k_tail)
  BY <1>3, <1>4 DEF Agree
<1>6. Window(sces', k_tail, local_tail) = Window(sces, k_tail, local_tail)
  BY <1>1, <1>3, <1>5, IndexTypes, WindowSame
<1>7. Window(sces', sq_head, k_tail) = Window(sces, sq_head, k_tail)
  BY <1>1, <1>3, <1>5, IndexTypes, WindowSame
<1> QED
  BY <1>3, <1>6, <1>7 DEF S, Staged, Published

(* A step that changes neither the entries nor the indices *)
FifoIdle == UNCHANGED <<Staged, Published, Held, taken>>

LEMMA FifoStep ==
  ASSUME IInv, [Next]_vars
  PROVE  [Fifo!Next]_(Fifo!vars)
<1> USE DEF kernelVars, userVars
<1> DEFINE S == Items \cup {Zeroed}
<1>0. TypeOK /\ IndexOrder /\ PhaseInv /\ sces \in [Slots -> S]
  BY DEF IInv, TypeOK
<1>i. UNCHANGED <<sces, k_head, k_tail, sq_head, local_tail, taken>> => FifoIdle
  BY DEF FifoIdle, Staged, Published, Held
<1>v. FifoIdle /\ reply' = reply => UNCHANGED Fifo!vars
  BY DEF FifoIdle, Staged, Published, Held, Fifo!vars
<1>q. FifoIdle /\ reply' \in {<<"is_full", Bit(Fifo!Total = Entries)>>,
                              <<"has_pending", Bit(Fifo!Total > 0)>>,
                              <<"pending", Fifo!Total>>} => Fifo!Next
  BY DEF FifoIdle, Staged, Published, Held, Fifo!Next, Fifo!Query, Fifo!Bit, Bit
<1>1. CASE bulk \/ UNCHANGED vars
  BY <1>1, <1>i, <1>v DEF bulk, vars
<1>2. CASE is_full
  <2>1. FifoIdle
    BY <1>2, <1>i DEF is_full
  <2>2. reply' = <<"is_full", Bit(Fifo!Total = Entries)>>
    BY <1>0, <1>2, FullIsFull DEF is_full, Bit
  <2> QED BY <2>1, <2>2, <1>q
<1>3. CASE SubmitQueueFull
  <2>1. FifoIdle /\ reply' = <<"full", 0>>
    BY <1>3, <1>i DEF SubmitQueueFull
  <2>2. Fifo!Total = Entries
    BY <1>0, <1>3, FullIsFull DEF SubmitQueueFull
  <2> QED BY <2>1, <2>2 DEF FifoIdle, Staged, Published, Held, Fifo!Next, Fifo!Refuse
<1>4. CASE SubmitBegin
  <2>1. /\ Window(sces', k_tail, local_tail) = Staged
        /\ Window(sces', sq_head, k_tail) = Published
    BY <1>4, WriteAtTail DEF SubmitBegin
  <2>2. FifoIdle /\ reply' = reply
    BY <1>4, <2>1 DEF SubmitBegin, FifoIdle, Staged, Published, Held
  <2> QED BY <2>2, <1>v
<1>5. ASSUME NEW x \in Items, SubmitFilled(x) PROVE Fifo!Next
  <2>1. /\ Window(sces', k_tail, local_tail) = Staged
        /\ Window(sces', sq_head, k_tail) = Published
        /\ sces' \in [Slots -> S] /\ sces'[Slot(local_tail)] = x
    BY <1>5, WriteAtTail DEF SubmitFilled
  <2>2. WrapSub(local_tail, k_head) < Entries
    BY <1>5, RoomToFill DEF SubmitFilled
  <2>3. WrapSub(local_tail, k_tail) < IndexLimit - 1
    BY <1>0, <2>2, IndexTypes, TwoRings DEF IndexOrder, WrapSub, Index
  <2>4. Window(sces', k_tail, WrapIncr(local_tail)) = Append(Staged, x)
    BY <1>0, <2>1, <2>3, IndexTypes, WindowAppend
  <2>5. /\ Staged' = Append(Staged, x) /\ UNCHANGED <<Published, Held, taken>>
        /\ reply' = <<"ok", 0>>
    BY <1>5, <2>1, <2>4 DEF SubmitFilled, Staged, Published, Held
  <2>6. Fifo!Total < Entries
    BY <1>0, <2>2, Contents
  <2>7. Fifo!Put(x)
    BY <2>5, <2>6 DEF Fifo!Put, Staged, Published, Held
  <2> QED BY <2>7 DEF Fifo!Next
<1>6. ASSUME NEW x \in S, SubmitFillError(x) PROVE Fifo!Next
  <2>1. /\ Window(sces', k_tail, local_tail) = Staged
        /\ Window(sces', sq_head, k_tail) = Published
    BY <1>6, WriteAtTail DEF SubmitFillError
  <2>2. FifoIdle /\ reply' = <<"err", 0>>
    BY <1>6, <2>1 DEF SubmitFillError, FifoIdle, Staged, Published, Held
  <2> QED BY <2>2 DEF FifoIdle, Staged, Published, Held, Fifo!Next, Fifo!Abandon
<1>7. CASE DropBulk
  <2>1. Published \o Staged = Window(sces, sq_head, local_tail)
    BY <1>0, Contents, IndexTypes, WindowJoin DEF Staged, Published
  <2>2. Window(sces, local_tail, local_tail) = <<>>
    BY <1>0, IndexTypes, WindowEmpty
  <2>3. /\ Published' = Published \o Staged /\ Staged' = <<>>
        /\ UNCHANGED <<Held, taken, reply>>
    BY <1>7, <2>1, <2>2 DEF DropBulk, Staged, Published, Held
  <2>4. Fifo!Publish
    BY <2>3 DEF Fifo!Publish, Staged, Published, Held
  <2> QED BY <2>4 DEF Fifo!Next
<1>8. CASE has_pending_submissions
  <2>1. FifoIdle
    BY <1>8, <1>i DEF has_pending_submissions
  <2>2. k_head # local_tail <=> Fifo!Total > 0
    <3>1. k_head = local_tail <=> WrapSub(local_tail, k_head) = 0
      BY <1>0, IndexTypes, TwoRings DEF WrapSub, Index
    <3> QED BY <1>0, <3>1, Contents, TwoRings
  <2>3. reply' = <<"has_pending", Bit(Fifo!Total > 0)>>
    BY <1>8, <2>2 DEF has_pending_submissions, Bit
  <2> QED BY <2>1, <2>3, <1>q
<1>9. CASE pending_submissions
  <2>1. FifoIdle
    BY <1>9, <1>i DEF pending_submissions
  <2>2. CASE reply' = reply
    BY <2>1, <2>2, <1>v
  <2>3. CASE reply' # reply
    BY <1>0, <1>9, <2>1, <2>3, <1>q, Contents DEF pending_submissions
  <2> QED BY <2>2, <2>3
<1>10. CASE KernelTake
  <2>0. sq_head # k_tail
    BY <1>10 DEF KernelTake
  <2>1. /\ Head(Published) = sces[Slot(sq_head)]
        /\ Tail(Published) = Window(sces, WrapIncr(sq_head), k_tail)
    BY <1>0, <2>0, IndexTypes, WindowHeadTail DEF Published
  <2>5. Published # <<>>
    BY <1>0, <2>0, IndexTypes, WindowEmpty DEF Published
  <2>2. WrapSub(WrapIncr(sq_head), k_head) = Held + 1
    <3>1. WrapSub(sq_head, k_head) < IndexLimit - 1
      <4>1. WrapSub(k_tail, sq_head) > 0
        BY <1>0, <1>10, IndexTypes, TwoRings DEF KernelTake, WrapSub, Index
      <4> QED BY <1>0, <4>1, IndexTypes, TwoRings DEF IndexOrder, WrapSub, Index
    <3> QED BY <1>0, <3>1, IndexTypes, WrapSteps DEF Held
  <2>3. /\ taken' = Head(Published) /\ Published' = Tail(Published) /\ Held' = Held + 1
        /\ UNCHANGED <<Staged, reply>>
    BY <1>10, <2>1, <2>2 DEF KernelTake, Staged, Published, Held
  <2>4. Fifo!Get
    BY <2>3, <2>5 DEF Fifo!Get, Staged, Published, Held
  <2> QED BY <2>4 DEF Fifo!Next
<1>11. CASE KernelCommitHead
  <2>1. WrapSub(sq_head, sq_head) = 0
    BY <1>0, IndexTypes DEF WrapSub, Index
  <2>2. Held' = 0 /\ UNCHANGED <<Staged, Published, taken, reply>>
    BY <1>11, <2>1 DEF KernelCommitHead, Staged, Published, Held
  <2>3. Fifo!Release
    BY <2>2 DEF Fifo!Release, Staged, Published, Held
  <2> QED BY <2>3 DEF Fifo!Next
<1> QED
  BY <1>1, <1>2, <1>3, <1>4, <1>5, <1>6, <1>7, <1>8, <1>9, <1>10, <1>11
  DEF Next, User, Kernel

LEMMA FifoInit == Init => Fifo!Init
<1> SUFFICES ASSUME Init PROVE Fifo!Init
  OBVIOUS
<1>1. 0 \in Index /\ sces \in [Slots -> {Zeroed}] /\ WrapSub(0, 0) = 0
  BY TwoRings DEF Init, Index, WrapSub
<1>2. Window(sces, 0, 0) = <<>>
  BY <1>1, WindowEmpty
<1> QED
  BY <1>1, <1>2 DEF Init, Fifo!Init

(* The submission ring is a bounded queue: what submit_with stages reaches *)
(* the kernel once and in order, published by the drop of BulkSubmission,  *)
(* and QueueFull is returned only when no place is free, for every ring    *)
(* size and through every wrap-around of the indices.                      *)
THEOREM SubmissionImplementsFifo == Spec => ImplementsFifo
<1>1. IInv /\ [Next]_vars => [Fifo!Next]_(Fifo!vars)
  BY FifoStep
<1> QED
  BY FifoInit, <1>1, SubmissionIInv, PTL DEF Spec, ImplementsFifo, Fifo!Spec
==============================================================================
