------------------------ MODULE CompletionQueueProofs ------------------------
(***************************************************************************)
(* IInv of CompletionQueue is inductive, for every ring size, every index  *)
(* width and every set of completions; the safety properties follow.       *)
(***************************************************************************)
EXTENDS CompletionQueue, RingIndexProofs

(* The members of TypeOK's set of indices, one by one. *)
LEMMA IndexTypes ==
  ASSUME TypeOK
  PROVE  /\ k_head \in Index /\ k_tail \in Index
         /\ local_head \in Index /\ cached_tail \in Index
         /\ cq_tail \in Index
BY DEF TypeOK

(* The kernel is at most one ring ahead of both heads of user space, and   *)
(* of the private one by no more than of the shared one.                   *)
LEMMA Distances ==
  ASSUME TypeOK, IndexOrder
  PROVE  /\ WrapSub(cq_tail, k_head) \in 0..Entries
         /\ WrapSub(cq_tail, local_head) \in 0..Entries
         /\ WrapSub(cq_tail, local_head) <= WrapSub(cq_tail, k_head)
BY IndexTypes, TwoRings DEF IndexOrder, Index, WrapSub

(* A kernel that does not see a full ring writes to an element that no     *)
(* unread completion occupies.                                             *)
LEMMA RoomAtTail ==
  ASSUME TypeOK, IndexOrder, ~RingFull
  PROVE  /\ WrapSub(cq_tail, k_head) < Entries
         /\ \A i \in Index : Unread(i) => Slot(i) # Slot(cq_tail)
<1>1. WrapSub(cq_tail, k_head) \in 0..Entries
  BY Distances
<1>2. SameSlot(cq_tail, k_head) <=> WrapSub(cq_tail, k_head) \in {0, Entries}
  BY <1>1, IndexTypes, SameSlotIff
<1>3. cq_tail = k_head => WrapSub(cq_tail, k_head) = 0
  BY IndexTypes DEF WrapSub, Index
<1>4. WrapSub(cq_tail, k_head) < Entries
  BY <1>1, <1>2, <1>3, TwoRings DEF RingFull
<1>5. WrapSub(cq_tail, local_head) < Entries
  BY <1>4, Distances, IndexTypes, WrapTypes, TwoRings
<1>6. \A i \in Index : Unread(i) => Slot(i) # Slot(cq_tail)
  BY <1>5, IndexTypes, LiveSlotsDiffer DEF Unread
<1> QED BY <1>4, <1>6

(* An iterator that is not empty has an entry of the kernel before it. *)
LEMMA TailAhead ==
  ASSUME TypeOK, IndexOrder, TailRead # local_head
  PROVE  cq_tail # local_head
<1> USE IndexTypes, TwoRings DEF IndexOrder, WrapSub, Index
<1>1. CASE cached_tail = local_head
  BY <1>1 DEF TailRead
<1>2. CASE cached_tail # local_head
  <2>1. /\ WrapSub(cq_tail, cached_tail)
             <= WrapSub(k_tail, cached_tail) + WrapSub(cq_tail, k_tail)
        /\ WrapSub(local_head, k_head) >= 0
    OBVIOUS
  <2>2. WrapSub(cached_tail, local_head) + WrapSub(cq_tail, cached_tail) <= Entries
    BY <2>1
  <2> QED BY ONLY <1>2, <2>2, IndexTypes, TwoRings, TypeOK DEF WrapSub, Index
<1> QED BY <1>1, <1>2

(* Init: a fresh ring. *)
LEMMA InitIInv == Init => IInv
<1> SUFFICES ASSUME Init PROVE IInv
  OBVIOUS
<1>1. 0 \in Index
  BY TwoRings DEF Index
<1>2. TypeOK
  BY <1>1 DEF Init, TypeOK
<1>3. WrapSub(0, 0) = 0
  BY DEF WrapSub
<1>4. IndexOrder
  BY <1>3, TwoRings DEF Init, IndexOrder
<1>5. PhaseInv
  BY DEF Init, PhaseInv
<1>6. \A i \in Index : ~Unread(i)
  BY <1>3, TwoRings DEF Init, Unread, WrapSub, Index
<1>7. UnreadWritten
  BY <1>6, CompletionAssumption DEF Init, UnreadWritten
<1> QED BY <1>2, <1>4, <1>5, <1>7 DEF IInv

(* The indices stay indices and the entries stay entries. *)
LEMMA NextTypeOK ==
  ASSUME IInv, [Next]_vars
  PROVE  TypeOK'
<1>1. TypeOK
  BY DEF IInv
<1> USE IndexTypes, <1>1
<1>s. \A a \in Index : Slot(a) \in Slots /\ WrapIncr(a) \in Index
  BY SlotType, WrapTypes
<1>2. CASE into_iter \/ NextNone \/ DropIter
  BY <1>2 DEF into_iter, NextNone, DropIter, TailRead, TypeOK, kernelVars
<1>3. CASE NextSome
  BY <1>3, <1>s DEF NextSome, TailRead, TypeOK, kernelVars
<1>4. ASSUME NEW x \in Items, KernelPost(x) PROVE TypeOK'
  BY <1>4, <1>s DEF KernelPost, TypeOK, userVars
<1>5. CASE KernelOverflow \/ KernelCommitTail
  BY <1>5, <1>s DEF KernelOverflow, KernelCommitTail, TypeOK, userVars, kernelVars
<1>6. CASE UNCHANGED vars
  BY <1>6 DEF TypeOK, vars, userVars, kernelVars
<1> QED BY <1>2, <1>3, <1>4, <1>5, <1>6 DEF Next, User, Kernel

(* The indices keep their order: user space reads up to the tail it has    *)
(* seen and no further, the kernel writes only while there is room.        *)
LEMMA NextIndexOrder ==
  ASSUME IInv, [Next]_vars
  PROVE  IndexOrder'
<1>1. TypeOK /\ IndexOrder
  BY DEF IInv
<1> USE IndexTypes, <1>1, TwoRings DEF IndexOrder, Index, WrapSub
<1>2. CASE UNCHANGED <<k_head, k_tail, local_head, cached_tail, cq_tail>>
  BY <1>2
<1>3. CASE NextNone
  BY <1>3 DEF NextNone, TailRead, kernelVars
<1>4. CASE NextSome
  <2>1. /\ cached_tail' \in {cached_tail, k_tail} /\ cached_tail' # local_head
        /\ local_head' = WrapIncr(local_head)
        /\ UNCHANGED <<k_head, k_tail, cq_tail>>
    BY <1>4 DEF NextSome, TailRead, kernelVars
  <2>2. WrapSub(cached_tail', local_head') = WrapSub(cached_tail', local_head) - 1
    BY <2>1, WrapSteps
  <2>3. WrapSub(local_head', k_head) = WrapSub(local_head, k_head) + 1
    <3>1. WrapSub(local_head, k_head) < IndexLimit - 1
      BY <2>1
    <3> QED BY ONLY <3>1, <2>1, WrapSteps, IndexTypes, TypeOK
  <2>4. WrapSub(local_head, k_head) + WrapSub(cached_tail', local_head)
          + WrapSub(k_tail, cached_tail') + WrapSub(cq_tail, k_tail) <= Entries
    BY <2>1
  <2>5. IndexOrder' <=>
          WrapSub(local_head', k_head) + WrapSub(cached_tail', local_head')
            + WrapSub(k_tail, cached_tail') + WrapSub(cq_tail, k_tail) <= Entries
    BY <2>1
  <2>6. /\ WrapSub(local_head, k_head) \in Int
        /\ WrapSub(cached_tail', local_head) \in Int
        /\ WrapSub(k_tail, cached_tail') \in Int
        /\ WrapSub(cq_tail, k_tail) \in Int
    BY <2>1
  <2> QED BY ONLY <2>2, <2>3, <2>4, <2>5, <2>6, TwoRings
<1>5. CASE DropIter
  BY <1>5 DEF DropIter, kernelVars
<1>6. ASSUME NEW x \in Items, KernelPost(x) PROVE IndexOrder'
  <2>1. WrapSub(cq_tail, k_head) < Entries
    BY <1>6, RoomAtTail DEF KernelPost
  <2> QED BY <1>6, <2>1 DEF KernelPost, WrapIncr, userVars
<1>7. CASE KernelCommitTail
  BY <1>7 DEF KernelCommitTail, userVars, kernelVars
<1> QED
  BY <1>2, <1>3, <1>4, <1>5, <1>6, <1>7
  DEF Next, User, Kernel, vars, userVars, kernelVars, into_iter, KernelOverflow

(* Between two iterators everything that was read has been given back. *)
LEMMA NextPhaseInv ==
  ASSUME IInv, [Next]_vars
  PROVE  PhaseInv'
BY DEF IInv, PhaseInv, Next, User, Kernel, vars, userVars, kernelVars, into_iter,
       NextSome, NextNone, DropIter, KernelPost, KernelOverflow, KernelCommitTail

(* Every unread entry stays written, and next() returns written entries. *)
LEMMA NextUnreadWritten ==
  ASSUME IInv, [Next]_vars
  PROVE  UnreadWritten'
<1>1. TypeOK /\ IndexOrder /\ UnreadWritten
  BY DEF IInv
<1> USE IndexTypes, <1>1
<1>s. \A i \in Index : Slot(i) \in Slots
  BY SlotType
<1>2. CASE UNCHANGED <<k_cqes, local_head, cq_tail, item>>
  BY <1>2 DEF UnreadWritten, Unread
<1>3. ASSUME NEW x \in Items, KernelPost(x) PROVE UnreadWritten'
  <2>1. /\ WrapSub(cq_tail, k_head) < Entries
        /\ \A i \in Index : Unread(i) => Slot(i) # Slot(cq_tail)
    BY <1>3, RoomAtTail DEF KernelPost
  <2>2. ASSUME NEW i \in Index, Unread(i)' PROVE Unread(i) \/ i = cq_tail
    <3>1. /\ cq_tail' = WrapIncr(cq_tail) /\ local_head' = local_head
          /\ WrapSub(i, local_head) < WrapSub(cq_tail', local_head)
      BY <1>3, <2>2 DEF KernelPost, userVars, Unread
    <3>2. WrapSub(cq_tail, local_head) < IndexLimit - 1
      BY <2>1, Distances, TwoRings, WrapTypes
    <3>3. WrapSub(cq_tail', local_head) = WrapSub(cq_tail, local_head) + 1
      BY <3>1, <3>2, WrapSteps
    <3>4. WrapSub(i, local_head) = WrapSub(cq_tail, local_head) => i = cq_tail
      BY TwoRings DEF WrapSub, Index
    <3>5. WrapSub(i, local_head) \in Nat /\ WrapSub(cq_tail, local_head) \in Nat
      BY WrapTypes
    <3> QED BY <3>1, <3>3, <3>4, <3>5 DEF Unread
  <2> QED BY <1>3, <2>1, <2>2, <1>s DEF KernelPost, UnreadWritten, userVars, TypeOK
<1>4. CASE NextSome
  <2>1. /\ TailRead # local_head /\ local_head' = WrapIncr(local_head)
        /\ item' = k_cqes[Slot(local_head)]
        /\ UNCHANGED <<k_cqes, cq_tail>>
    BY <1>4 DEF NextSome, kernelVars
  <2>2. WrapSub(cq_tail, local_head) >= 1
    <3>1. cq_tail # local_head
      BY <2>1, TailAhead
    <3> QED BY <3>1, TwoRings DEF WrapSub, Index
  <2>3. Unread(local_head)
    <3>1. WrapSub(local_head, local_head) = 0
      BY DEF WrapSub, Index
    <3>2. WrapSub(cq_tail, local_head) \in Nat
      BY WrapTypes
    <3> QED BY <2>2, <3>1, <3>2 DEF Unread
  <2>4. item' # Garbage
    BY <2>1, <2>3, CompletionAssumption DEF UnreadWritten
  <2>5. ASSUME NEW i \in Index, Unread(i)' PROVE Unread(i)
    <3>1. WrapSub(i, WrapIncr(local_head)) < WrapSub(cq_tail, WrapIncr(local_head))
      BY <2>1, <2>5 DEF Unread
    <3> QED BY <3>1, <2>2, TwoRings DEF Unread, WrapSub, WrapIncr, Index
  <2> QED BY <2>1, <2>4, <2>5 DEF UnreadWritten
<1> QED
  BY <1>2, <1>3, <1>4
  DEF Next, User, Kernel, vars, userVars, kernelVars, into_iter, NextNone, DropIter,
      KernelOverflow, KernelCommitTail

(* The strengthened invariant holds in every reachable state: kernel and   *)
(* iterator keep their indices in order within one ring.                   *)
THEOREM CompletionIInv == Spec => []IInv
<1>1. IInv /\ [Next]_vars => IInv'
  BY NextTypeOK, NextIndexOrder, NextPhaseInv, NextUnreadWritten DEF IInv
<1> QED BY InitIInv, <1>1, PTL DEF Spec

(* Type correctness: the indices of both sides wrap within their range. *)
THEOREM CompletionTypeOK == Spec => []TypeOK
<1>1. IInv => TypeOK
  BY DEF IInv
<1> QED BY <1>1, CompletionIInv, PTL

(* next() only returns completions the kernel wrote, whatever the kernel   *)
(* does between is_empty() and the copy and however often the ring wraps.  *)
THEOREM CompletionUnreadWritten == Spec => []UnreadWritten
<1>1. IInv => UnreadWritten
  BY DEF IInv
<1> QED BY <1>1, CompletionIInv, PTL

(* A completion the iterator has not copied yet is not overwritten: places *)
(* are given back by flush_head() only after they were read.               *)
THEOREM CompletionUnreadIntact == Spec => UnreadIntact
<1> DEFINE Keeps == \A i \in Index : Unread(i) /\ Unread(i)' =>
                      k_cqes'[Slot(i)] = k_cqes[Slot(i)]
<1>1. ASSUME IInv, [Next]_vars PROVE [Keeps]_vars
  <2>1. TypeOK /\ IndexOrder
    BY <1>1 DEF IInv
  <2>s. \A i \in Index : Slot(i) \in Slots
    BY SlotType
  <2>2. CASE UNCHANGED k_cqes
    BY <2>2
  <2>3. ASSUME NEW x \in Items, KernelPost(x) PROVE Keeps
    <3>1. \A i \in Index : Unread(i) => Slot(i) # Slot(cq_tail)
      BY <2>1, <2>3, RoomAtTail DEF KernelPost
    <3> QED BY <2>3, <3>1, <2>1, <2>s DEF KernelPost, TypeOK
  <2> QED
    BY <1>1, <2>2, <2>3
    DEF Next, User, Kernel, vars, userVars, kernelVars, into_iter, NextSome, NextNone,
        DropIter, KernelOverflow, KernelCommitTail
<1>2. IInv /\ [Next]_vars => [Keeps]_vars
  BY <1>1
<1> QED BY <1>2, CompletionIInv, PTL DEF Spec, UnreadIntact

(***************************************************************************)
(* The refinement of StagedFifo.                                           *)
(***************************************************************************)
Staged == Window(k_cqes, k_tail, cq_tail)
Published == Window(k_cqes, local_head, k_tail)
Held == WrapSub(local_head, k_head)

(* What the queue contains, in terms of the indices; local_head and k_tail *)
(* split the distance from k_head to cq_tail.                              *)
LEMMA Contents ==
  ASSUME TypeOK, IndexOrder
  PROVE  /\ Len(Staged) = WrapSub(cq_tail, k_tail)
         /\ Len(Published) = WrapSub(k_tail, local_head)
         /\ WrapSub(cq_tail, local_head) = WrapSub(k_tail, local_head) + WrapSub(cq_tail, k_tail)
         /\ Fifo!Total = WrapSub(cq_tail, k_head)
         /\ Fifo!Total \in 0..Entries
<1> DEFINE S == Items \cup {Garbage}
<1>1. k_cqes \in [Slots -> S]
  BY DEF TypeOK
<1> HIDE DEF S
<1>2. Len(Staged) = WrapSub(cq_tail, k_tail)
  BY IndexTypes, WindowLen DEF Staged
<1>3. Len(Published) = WrapSub(k_tail, local_head)
  BY IndexTypes, WindowLen DEF Published
<1>4. /\ WrapSub(cq_tail, local_head) = WrapSub(k_tail, local_head) + WrapSub(cq_tail, k_tail)
      /\ WrapSub(cq_tail, k_head) = WrapSub(cq_tail, k_tail) + WrapSub(k_tail, local_head)
                                      + WrapSub(local_head, k_head)
  BY IndexTypes, TwoRings DEF IndexOrder, Index, WrapSub
<1>5. Fifo!Total = Len(Staged) + Len(Published) + Held
  BY DEF Fifo!Total, Staged, Published, Held
<1> QED
  BY <1>2, <1>3, <1>4, <1>5, Distances DEF Held

(* A completion is lost to overflow only when every place is taken. *)
LEMMA FullIsFull ==
  ASSUME TypeOK, IndexOrder, RingFull
  PROVE  Fifo!Total = Entries
<1>1. WrapSub(cq_tail, k_head) \in 0..Entries /\ Fifo!Total = WrapSub(cq_tail, k_head)
  BY Distances, Contents
<1>2. SameSlot(cq_tail, k_head) <=> WrapSub(cq_tail, k_head) \in {0, Entries}
  BY <1>1, IndexTypes, SameSlotIff
<1>3. WrapSub(cq_tail, k_head) = 0 => cq_tail = k_head
  BY IndexTypes, TwoRings DEF WrapSub, Index
<1> QED
  BY <1>1, <1>2, <1>3 DEF RingFull

(* An iterator that is not empty has a published entry before it. *)
LEMMA PublishedAhead ==
  ASSUME TypeOK, IndexOrder, TailRead # local_head
  PROVE  k_tail # local_head
<1> USE IndexTypes, TwoRings DEF IndexOrder, WrapSub, Index
<1>1. CASE cached_tail = local_head
  BY <1>1 DEF TailRead
<1>2. CASE cached_tail # local_head
  <2>1. WrapSub(local_head, k_head) >= 0 /\ WrapSub(cq_tail, k_tail) >= 0
    OBVIOUS
  <2>2. WrapSub(cached_tail, local_head) + WrapSub(k_tail, cached_tail) <= Entries
    BY <2>1
  <2> QED BY ONLY <1>2, <2>2, IndexTypes, TwoRings, TypeOK DEF WrapSub, Index
<1> QED BY <1>1, <1>2

LEMMA FifoStep ==
  ASSUME IInv, [Next]_vars
  PROVE  [Fifo!Next]_(Fifo!vars)
<1> USE DEF kernelVars, userVars
<1> DEFINE S == Items \cup {Garbage}
<1>0. TypeOK /\ IndexOrder /\ k_cqes \in [Slots -> S]
  BY DEF IInv, TypeOK
<1>1. CASE into_iter \/ NextNone \/ UNCHANGED vars
  BY <1>1 DEF into_iter, NextNone, vars, Fifo!vars
<1>2. CASE NextSome
  <2>1. local_head # k_tail
    BY <1>0, <1>2, PublishedAhead DEF NextSome
  <2>2. /\ Head(Published) = k_cqes[Slot(local_head)]
        /\ Tail(Published) = Window(k_cqes, WrapIncr(local_head), k_tail)
    BY <1>0, <2>1, IndexTypes, WindowHeadTail DEF Published
  <2>3. Published # <<>>
    BY <1>0, <2>1, IndexTypes, WindowEmpty DEF Published
  <2>4. WrapSub(WrapIncr(local_head), k_head) = Held + 1
    <3>1. WrapSub(k_tail, local_head) > 0
      BY <1>0, <2>1, IndexTypes, TwoRings DEF WrapSub, Index
    <3>2. WrapSub(local_head, k_head) < IndexLimit - 1
      BY <1>0, <3>1, IndexTypes, TwoRings DEF IndexOrder, WrapSub, Index
    <3> QED BY <1>0, <3>2, IndexTypes, WrapSteps DEF Held
  <2>5. /\ item' = Head(Published) /\ Published' = Tail(Published) /\ Held' = Held + 1
        /\ UNCHANGED <<Staged, posted>>
    BY <1>2, <2>2, <2>4 DEF NextSome, Staged, Published, Held
  <2>6. Fifo!Get
    BY <2>3, <2>5 DEF Fifo!Get, Staged, Published, Held
  <2> QED BY <2>6 DEF Fifo!Next
<1>3. CASE DropIter
  <2>1. WrapSub(local_head, local_head) = 0
    BY <1>0, IndexTypes DEF WrapSub, Index
  <2>2. Held' = 0 /\ UNCHANGED <<Staged, Published, item, posted>>
    BY <1>3, <2>1 DEF DropIter, Staged, Published, Held
  <2>3. Fifo!Release
    BY <2>2 DEF Fifo!Release, Staged, Published, Held
  <2> QED BY <2>3 DEF Fifo!Next
<1>4. ASSUME NEW x \in Items, KernelPost(x) PROVE Fifo!Next
  <2>1. /\ WrapSub(cq_tail, k_head) < Entries
        /\ \A i \in Index : Unread(i) => Slot(i) # Slot(cq_tail)
    BY <1>0, <1>4, RoomAtTail DEF KernelPost
  <2>2. ASSUME NEW i \in Index, \/ WrapSub(i, k_tail) < WrapSub(cq_tail, k_tail)
                                \/ WrapSub(i, local_head) < WrapSub(k_tail, local_head)
        PROVE  Unread(i)
    BY <1>0, <2>2, IndexTypes, TwoRings DEF Unread, IndexOrder, WrapSub, Index
  <2>3. /\ k_cqes' \in [Slots -> S] /\ k_cqes'[Slot(cq_tail)] = x
        /\ \A i \in Index : Unread(i) => k_cqes'[Slot(i)] = k_cqes[Slot(i)]
    BY <1>0, <1>4, <2>1, IndexTypes, SlotType DEF KernelPost
  <2>4. Agree(k_cqes, k_cqes', k_tail, cq_tail) /\ Agree(k_cqes, k_cqes', local_head, k_tail)
    BY <2>2, <2>3 DEF Agree
  <2>5. /\ Window(k_cqes', k_tail, cq_tail) = Staged
        /\ Window(k_cqes', local_head, k_tail) = Published
    BY <1>0, <2>4, IndexTypes, WindowSame DEF Staged, Published
  <2>6. WrapSub(cq_tail, k_tail) < IndexLimit - 1
    BY <1>0, <2>1, IndexTypes, TwoRings DEF IndexOrder, WrapSub, Index
  <2>7. Window(k_cqes', k_tail, WrapIncr(cq_tail)) = Append(Staged, x)
    BY <1>0, <2>3, <2>5, <2>6, IndexTypes, WindowAppend
  <2>8. /\ Staged' = Append(Staged, x) /\ UNCHANGED <<Published, Held, item>>
        /\ posted' = <<"ok", 0>>
    BY <1>4, <2>5, <2>7 DEF KernelPost, Staged, Published, Held
  <2>9. Fifo!Total < Entries
    BY <1>0, <2>1, Contents
  <2>10. Fifo!Put(x)
    BY <2>8, <2>9 DEF Fifo!Put, Staged, Published, Held
  <2> QED BY <2>10 DEF Fifo!Next
<1>5. CASE KernelOverflow
  <2>1. Fifo!Total = Entries
    BY <1>0, <1>5, FullIsFull DEF KernelOverflow
  <2>2. Fifo!Refuse
    BY <1>5, <2>1 DEF KernelOverflow, Fifo!Refuse
  <2> QED BY <2>2 DEF Fifo!Next
<1>6. CASE KernelCommitTail
  <2>1. Published \o Staged = Window(k_cqes, local_head, cq_tail)
    BY <1>0, Contents, IndexTypes, WindowJoin DEF Staged, Published
  <2>2. Window(k_cqes, cq_tail, cq_tail) = <<>>
    BY <1>0, IndexTypes, WindowEmpty
  <2>3. /\ Published' = Published \o Staged /\ Staged' = <<>>
        /\ UNCHANGED <<Held, item, posted>>
    BY <1>6, <2>1, <2>2 DEF KernelCommitTail, Staged, Published, Held
  <2>4. Fifo!Publish
    BY <2>3 DEF Fifo!Publish, Staged, Published, Held
  <2> QED BY <2>4 DEF Fifo!Next
<1> QED
  BY <1>1, <1>2, <1>3, <1>4, <1>5, <1>6 DEF Next, User, Kernel

LEMMA FifoInit == Init => Fifo!Init
<1> SUFFICES ASSUME Init PROVE Fifo!Init
  OBVIOUS
<1>1. 0 \in Index /\ k_cqes \in [Slots -> {Garbage}] /\ WrapSub(0, 0) = 0
  BY TwoRings DEF Init, Index, WrapSub
<1>2. Window(k_cqes, 0, 0) = <<>>
  BY <1>1, WindowEmpty
<1> QED
  BY <1>1, <1>2 DEF Init, Fifo!Init

(* The completion ring is a bounded queue: what the kernel posts is        *)
(* returned by next() once, in order and unchanged, and its place is only  *)
(* reused after the drop of BulkCompletion, for every ring size and        *)
(* through every wrap-around of the indices.                               *)
THEOREM CompletionImplementsFifo == Spec => ImplementsFifo
<1>1. IInv /\ [Next]_vars => [Fifo!Next]_(Fifo!vars)
  BY FifoStep
<1> QED
  BY FifoInit, <1>1, CompletionIInv, PTL DEF Spec, ImplementsFifo, Fifo!Spec
==============================================================================
