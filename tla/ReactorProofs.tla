---------------------------- MODULE ReactorProofs ----------------------------
(***************************************************************************)
(* IInv of Reactor is inductive, for any number of operations, threads and *)
(* places in the queues and any size of the pipe; the safety properties of *)
(* the reactor thread follow.                                              *)
(***************************************************************************)
EXTENDS Reactor, FiniteSetTheorems, TLAPS

(* The user_data in use: finitely many registrations and two of its own. *)
LEMMA UserDataFinite ==
  /\ IsFiniteSet(UserData)
  /\ TIMER \in UserData /\ PARK \in UserData /\ TIMER # PARK
  /\ \A r \in Regs : r \in UserData /\ r # TIMER /\ r # PARK
<1>1. IsFiniteSet((Regs \cup {TIMER}) \cup {PARK})
  BY ReactorAssumption, FS_AddElement
<1>2. UserData = (Regs \cup {TIMER}) \cup {PARK}
  BY DEF UserData
<1> QED BY <1>1, <1>2, ReactorAssumption DEF UserData, TIMER, PARK

(* A bag without duplicates has as many entries as it has members. *)
LEMMA CountMembers ==
  ASSUME NEW bag \in [UserData -> 0..1]
  PROVE  /\ Count(bag) = Cardinality({u \in UserData : bag[u] = 1})
         /\ IsFiniteSet({u \in UserData : bag[u] = 1})
<1> DEFINE S == {u \in UserData : bag[u] = 1}
           T == UNION {{u} \X (1..bag[u]) : u \in UserData}
<1>1. IsFiniteSet(S)
  BY UserDataFinite, FS_Subset
<1>2. T = S \X {1}
  <2>1. ASSUME NEW x \in T PROVE x \in S \X {1}
    <3>1. PICK u \in UserData : x \in {u} \X (1..bag[u])
      BY <2>1
    <3>2. bag[u] \in 0..1
      OBVIOUS
    <3>3. bag[u] = 1 /\ x = <<u, 1>>
      BY <3>1, <3>2
    <3> QED BY <3>3
  <2>2. ASSUME NEW x \in S \X {1} PROVE x \in T
    <3>1. PICK u \in S : x = <<u, 1>>
      BY <2>2
    <3>2. x \in {u} \X (1..bag[u])
      BY <3>1
    <3> QED BY <3>1, <3>2
  <2> QED BY <2>1, <2>2
<1>3. IsFiniteSet({1}) /\ Cardinality({1}) = 1
  BY FS_Singleton
<1>4. Cardinality(S \X {1}) = Cardinality(S) * Cardinality({1})
  BY <1>1, <1>3, FS_Product
<1>5. Cardinality(S) \in Nat
  BY <1>1, FS_CardinalityType
<1> HIDE DEF S, T
<1>6. Cardinality(T) = Cardinality(S)
  BY <1>2, <1>3, <1>4, <1>5
<1> QED BY <1>1, <1>6 DEF Count, S, T

(* The places of an operation whose bookkeeping is right *)
LEMMA PlacesSmall ==
  ASSUME TypeOK, PlaceInv
  PROVE  /\ sq \in [UserData -> 0..1]
         /\ inflight \in [UserData -> 0..1]
         /\ cq \in [UserData -> 0..1]
<1>1. /\ sq \in [UserData -> Nat] /\ inflight \in [UserData -> Nat]
      /\ cq \in [UserData -> Nat]
  BY DEF TypeOK
<1>2. \A u \in UserData : sq[u] + inflight[u] + cq[u] <= 1
  BY <1>1 DEF PlaceInv, Outstanding
<1>3. \A u \in UserData : sq[u] \in 0..1 /\ inflight[u] \in 0..1 /\ cq[u] \in 0..1
  <2> TAKE u \in UserData
  <2>1. sq[u] \in Nat /\ inflight[u] \in Nat /\ cq[u] \in Nat
    BY <1>1
  <2>2. sq[u] + inflight[u] + cq[u] <= 1
    BY <1>2
  <2> QED BY ONLY <2>1, <2>2
<1> QED BY <1>1, <1>3

(* One more entry in a bag that did not have it *)
LEMMA CountAdd ==
  ASSUME NEW bag \in [UserData -> 0..1], NEW u \in UserData, bag[u] = 0
  PROVE  /\ Count([bag EXCEPT ![u] = @ + 1]) = Count(bag) + 1
         /\ Count(bag) \in Nat
<1> DEFINE new == [bag EXCEPT ![u] = @ + 1]
           S == {v \in UserData : bag[v] = 1}
<1>1. new \in [UserData -> 0..1]
  OBVIOUS
<1>2. {v \in UserData : new[v] = 1} = S \cup {u} /\ u \notin S
  OBVIOUS
<1>3. Count(new) = Cardinality(S \cup {u}) /\ Count(bag) = Cardinality(S) /\ IsFiniteSet(S)
  BY <1>1, <1>2, CountMembers
<1> HIDE DEF new, S
<1>4. Count(new) = Count(bag) + 1 /\ Count(bag) \in Nat
  BY <1>2, <1>3, FS_AddElement, FS_CardinalityType
<1> QED BY <1>4 DEF new

(* Entries that are taken out of a bag make it no larger. *)
LEMMA CountSubbag ==
  ASSUME NEW bag \in [UserData -> 0..1], NEW less \in [UserData -> 0..1],
         \A u \in UserData : less[u] <= bag[u]
  PROVE  Count(less) <= Count(bag)
<1> DEFINE S == {u \in UserData : bag[u] = 1}
           T == {u \in UserData : less[u] = 1}
<1>1. T \in SUBSET S
  OBVIOUS
<1>2. IsFiniteSet(S) /\ Count(less) = Cardinality(T) /\ Count(bag) = Cardinality(S)
  BY CountMembers
<1> HIDE DEF S, T
<1> QED BY <1>1, <1>2, FS_Subset

(* The empty bag *)
LEMMA CountNone == None \in [UserData -> 0..1] /\ Count(None) = 0
<1>1. None \in [UserData -> 0..1] /\ {u \in UserData : None[u] = 1} = {}
  BY DEF None
<1> QED BY <1>1, CountMembers, FS_EmptySet

(* The initial state: nothing is queued, the reactor's polls are due. *)
LEMMA InitIInv == Init => IInv
<1> SUFFICES ASSUME Init PROVE IInv
  OBVIOUS
<1>1. UnparkTypeOK
  <2>1. pending \in BOOLEAN /\ entered \in BOOLEAN
    BY Zenon DEF Init, UnparkInit
  <2> QED BY <2>1, UnparkAssumption DEF Init, UnparkInit, UnparkTypeOK, Flags
<1>2. TypeOK
  <2>1. {requeue_timer, timer_pending, requeue_park, wait, timeout} \subseteq BOOLEAN
    BY Zenon DEF Init
  <2> QED BY <1>1, <2>1, CountNone, UserDataFinite, ReactorAssumption DEF Init, TypeOK
<1>3. \A u \in UserData : ~Expected(u)
  <2> SUFFICES ASSUME NEW u \in UserData PROVE ~Expected(u)
    OBVIOUS
  <2>1. CASE u \in Regs
    BY <2>1, UserDataFinite DEF Init, Expected
  <2>2. CASE u \in {TIMER, PARK}
    BY <2>2, UserDataFinite DEF Init, Expected
  <2> QED BY <2>1, <2>2 DEF UserData
<1>4. Cardinality({u \in UserData : Expected(u)}) = 0
  BY <1>3, FS_EmptySet
<1>5. PlaceInv
  BY <1>3, <1>4 DEF Init, PlaceInv, Outstanding, None
<1>6. ClearEventNeverBlocks /\ PhaseInv /\ WakeInv
  BY UserDataFinite DEF Init, UnparkInit, ClearEventNeverBlocks, PhaseInv, WakeInv, None
<1> QED BY <1>2, <1>5, <1>6 DEF IInv

------------------------------------------------------------------------------
(* Type correctness *)

(* The flags stay Boolean. *)
LEMMA NextBooleans ==
  ASSUME TypeOK, [Next]_vars
  PROVE  /\ {requeue_timer, timer_pending, requeue_park, wait, timeout}' \subseteq BOOLEAN
         /\ pending' \in BOOLEAN /\ entered' \in BOOLEAN
<1> DEFINE state == {requeue_timer, timer_pending, requeue_park, wait, timeout}
           Good == /\ state' \subseteq BOOLEAN
                   /\ pending' \in BOOLEAN /\ entered' \in BOOLEAN
<1>0. state \subseteq BOOLEAN /\ pending \in BOOLEAN /\ entered \in BOOLEAN
  BY DEF TypeOK, UnparkTypeOK
<1> USE DEF stateVars, callVars, parkVars
<1>1. ASSUME NEW r \in Regs, RunTask(r) PROVE Good
  BY <1>0, <1>1, Zenon
  DEF RunTask, QueueAsync, QueueAsyncFull, PollNotReady, PollReady, DropFuture, TaskIdle
<1>2. CASE CallPark
  BY <1>0, <1>2, Zenon DEF CallPark, Park
<1>3. ASSUME NEW r \in Regs, HandleOperation(r) PROVE Good
  BY <1>0, <1>3, Zenon DEF HandleOperation, TakeCompletion, NotifyTask, UnparkSelf
<1>4. CASE HandleTimer \/ HandlePark
  BY <1>0, <1>4, Zenon DEF HandleTimer, HandlePark, TakeCompletion, clear_event
<1>5. CASE EndCheck \/ EnterFails \/ EnterReturns \/ EnterInterrupted \/ TimerExpires
  BY <1>0, <1>5, Zenon
  DEF EndCheck, EnterFails, EnterReturns, EnterInterrupted, TimerExpires
<1>6. CASE PeekPending \/ ArmTimer \/ QueuePark \/ ParkAllow
  BY <1>0, <1>6, Zenon DEF PeekPending, ArmTimer, QueuePark, ParkAllow
<1>7. CASE ParkEnter \/ LeavePark
  BY <1>0, <1>7, Zenon DEF ParkEnter, EnterStore, PendingSeen, LeavePark, DropEntered
<1>8. ASSUME NEW part \in SUBSET UserData, EnterSubmit(part) PROVE Good
  BY <1>0, <1>8, Zenon DEF EnterSubmit
<1>9. ASSUME NEW u \in UserData, KernelCompletes(u) \/ KernelFails(u) \/ KernelOverflows(u)
      PROVE Good
  BY <1>0, <1>9, Zenon DEF KernelCompletes, KernelFails, KernelPosts, KernelOverflows
<1>10. ASSUME NEW t \in Threads, UnparkStep(t) \/ \E r \in Regs : Notify(t, r) PROVE Good
  BY <1>0, <1>10, Zenon DEF UnparkStep, UnparkSwap, UnparkLoad, UnparkWrite, Notify
<1>11. ASSUME NEW f \in Flags, MemoryStep(f) PROVE Good
  BY <1>0, <1>11, Zenon DEF MemoryStep, StoreVisible
<1>12. CASE UNCHANGED vars
  BY <1>0, <1>12, Zenon DEF vars
<1>13. UserData \in SUBSET UserData
  OBVIOUS
<1> QED
  BY <1>1, <1>2, <1>3, <1>4, <1>5, <1>6, <1>7, <1>8, <1>9, <1>10, <1>11, <1>12, <1>13
  DEF Next, ParkInner, Kernel

(* What QueueEntry does to a submission queue that is not full and has no  *)
(* such entry yet                                                          *)
LEMMA QueueEntryFits ==
  ASSUME TypeOK, PlaceInv, NEW u \in UserData, ~Expected(u), ~SqFull, QueueEntry(u)
  PROVE  /\ sq' \in [UserData -> Nat] /\ Count(sq') <= SQEntries
         /\ active_wait' \in Nat
<1>1. sq \in [UserData -> 0..1] /\ sq[u] = 0
  <2>1. Outstanding(u) = 0
    BY DEF PlaceInv
  <2>2. sq[u] \in Nat /\ inflight[u] \in Nat /\ cq[u] \in Nat
    BY DEF TypeOK
  <2> QED BY <2>1, <2>2, PlacesSmall DEF Outstanding
<1>2. Count(sq') = Count(sq) + 1 /\ Count(sq) \in Nat
  BY <1>1, CountAdd DEF QueueEntry
<1> QED BY <1>1, <1>2, ReactorAssumption DEF QueueEntry, SqFull, TypeOK

(* Everything else has its type after a step. *)
LEMMA NextTypeOK ==
  ASSUME IInv, [Next]_vars
  PROVE  TypeOK'
<1>0. TypeOK /\ PlaceInv /\ PhaseInv
  BY DEF IInv
<1> DEFINE Booleans == /\ {requeue_timer, timer_pending, requeue_park, wait, timeout}'
                             \subseteq BOOLEAN
                       /\ pending' \in BOOLEAN /\ entered' \in BOOLEAN
<1>b. Booleans
  BY <1>0, NextBooleans
<1> HIDE DEF Booleans
<1>u. TIMER \in UserData /\ PARK \in UserData /\ Regs \subseteq UserData
  BY UserDataFinite
<1> USE DEF stateVars, ringVars, callVars, taskVars, parkVars
<1>1. ASSUME NEW r \in Regs, RunTask(r) PROVE TypeOK'
  <2>1. CASE QueueAsync(r)
    <3>1. ~Expected(r)
      BY <2>1, UserDataFinite DEF QueueAsync, Expected
    <3>2. /\ sq' \in [UserData -> Nat] /\ Count(sq') <= SQEntries
          /\ active_wait' \in Nat
      BY <1>0, <1>u, <2>1, <3>1, QueueEntryFits DEF QueueAsync
    <3> QED BY <1>0, <1>b, <2>1, <3>2 DEF QueueAsync, TypeOK, UnparkTypeOK, Booleans
  <2>2. CASE QueueAsyncFull(r) \/ PollNotReady(r) \/ TaskIdle(r)
    BY <1>0, <1>b, <2>2
    DEF QueueAsyncFull, PollNotReady, TaskIdle, TypeOK, UnparkTypeOK, Booleans
  <2>3. CASE PollReady(r) \/ DropFuture(r)
    BY <1>0, <1>b, <2>3 DEF PollReady, DropFuture, TypeOK, UnparkTypeOK, Booleans
  <2> QED BY <1>1, <2>1, <2>2, <2>3 DEF RunTask
<1>2. CASE CallPark
  BY <1>0, <1>b, <1>2 DEF CallPark, Park, TypeOK, UnparkTypeOK, Booleans
<1>3. ASSUME NEW u \in UserData, TakeCompletion(u)
      PROVE  cq' \in [UserData -> Nat] /\ held' \in Nat /\ active_wait' \in Nat
  <2>1. cq[u] \in Nat /\ cq[u] > 0 /\ cq \in [UserData -> Nat] /\ held \in Nat
    BY <1>0, <1>3 DEF TakeCompletion, TypeOK
  <2>2. Expected(u)
    <3>1. sq[u] \in Nat /\ inflight[u] \in Nat
      BY <1>0 DEF TypeOK
    <3> QED BY <1>0, <2>1, <3>1 DEF PlaceInv, Outstanding
  <2>3. active_wait \in Nat /\ active_wait > 0
    <3> DEFINE E == {v \in UserData : Expected(v)}
    <3>1. IsFiniteSet(E)
      BY UserDataFinite, FS_Subset
    <3>2. Cardinality(E) \in Nat /\ Cardinality(E) # 0
      BY <2>2, <3>1, FS_CardinalityType, FS_EmptySet
    <3> QED BY <1>0, <3>2 DEF PlaceInv
  <2> QED BY <1>3, <2>1, <2>3 DEF TakeCompletion, CountedDown
<1>4. ASSUME NEW r \in Regs, HandleOperation(r) PROVE TypeOK'
  <2>1. cq' \in [UserData -> Nat] /\ held' \in Nat /\ active_wait' \in Nat
    BY <1>3, <1>4, <1>u DEF HandleOperation
  <2>2. ready' \subseteq Regs /\ sbuf' \subseteq Flags /\ pipe' \in 0..PipeSize /\ upc' = upc
    BY <1>0, <1>4, UnparkAssumption
    DEF HandleOperation, NotifyTask, UnparkSelf, PipeAfterWrite, TypeOK, UnparkTypeOK
  <2> QED
    BY <1>0, <1>b, <1>4, <2>1, <2>2
    DEF HandleOperation, NotifyTask, TakeCompletion, TypeOK, UnparkTypeOK, Booleans
<1>5. CASE HandleTimer
  <2>1. cq' \in [UserData -> Nat] /\ held' \in Nat /\ active_wait' \in Nat
    BY <1>3, <1>5, <1>u DEF HandleTimer
  <2> QED
    BY <1>0, <1>b, <1>5, <2>1 DEF HandleTimer, TakeCompletion, TypeOK, UnparkTypeOK, Booleans
<1>6. CASE HandlePark
  <2>1. cq' \in [UserData -> Nat] /\ held' \in Nat /\ active_wait' \in Nat
    BY <1>3, <1>6, <1>u DEF HandlePark
  <2>2. pipe' \in 0..PipeSize
    BY <1>0, <1>6, UnparkAssumption DEF HandlePark, clear_event, TypeOK, UnparkTypeOK
  <2> QED
    BY <1>0, <1>b, <1>6, <2>1, <2>2
    DEF HandlePark, clear_event, TakeCompletion, TypeOK, UnparkTypeOK, Booleans
<1>7. CASE EndCheck \/ EnterFails \/ EnterReturns \/ EnterInterrupted \/ TimerExpires
  BY <1>0, <1>b, <1>7
  DEF EndCheck, EnterFails, EnterReturns, EnterInterrupted, TimerExpires, TypeOK,
      UnparkTypeOK, Booleans
<1>8. CASE PeekPending \/ ParkAllow
  BY <1>0, <1>b, <1>8 DEF PeekPending, ParkAllow, TypeOK, UnparkTypeOK, Booleans
<1>9. CASE ArmTimer
  <2>1. /\ sq' \in [UserData -> Nat] /\ Count(sq') <= SQEntries
        /\ active_wait' \in Nat
    <3>1. CASE TimerDue /\ ~SqFull
      <4>1. ~Expected(TIMER)
        BY <3>1, UserDataFinite DEF TimerDue, Expected
      <4> QED BY <1>0, <1>9, <1>u, <3>1, <4>1, QueueEntryFits DEF ArmTimer, queue_timer_poll
    <3>2. CASE ~(TimerDue /\ ~SqFull)
      BY <1>0, <1>9, <3>2 DEF ArmTimer, TypeOK
    <3> QED BY <3>1, <3>2
  <2> QED
    BY <1>0, <1>b, <1>9, <2>1 DEF ArmTimer, TimerSetting, TypeOK, UnparkTypeOK, Booleans
<1>10. CASE QueuePark
  <2>1. /\ sq' \in [UserData -> Nat] /\ Count(sq') <= SQEntries
        /\ active_wait' \in Nat
    <3>1. CASE ParkDue /\ ~SqFull
      <4>1. ~Expected(PARK)
        BY <3>1, UserDataFinite DEF ParkDue, Expected
      <4> QED BY <1>0, <1>10, <1>u, <3>1, <4>1, QueueEntryFits DEF QueuePark, queue_park_read
    <3>2. CASE ~(ParkDue /\ ~SqFull)
      BY <1>0, <1>10, <3>2 DEF QueuePark, TypeOK
    <3> QED BY <3>1, <3>2
  <2> QED BY <1>0, <1>b, <1>10, <2>1 DEF QueuePark, TypeOK, UnparkTypeOK, Booleans
<1>11. CASE ParkEnter \/ LeavePark
  BY <1>0, <1>b, <1>11
  DEF ParkEnter, EnterStore, LeavePark, DropEntered, TypeOK, UnparkTypeOK, Booleans
<1>12. ASSUME NEW part \in SUBSET UserData, EnterSubmit(part) PROVE TypeOK'
  <2>1. sq' \in [UserData -> Nat] /\ inflight' \in [UserData -> Nat]
    BY <1>0, <1>12 DEF EnterSubmit, TypeOK
  <2>2. /\ sq \in [UserData -> 0..1] /\ sq' \in [UserData -> 0..1]
        /\ \A u \in UserData : sq'[u] <= sq[u]
    BY <1>0, <1>12, PlacesSmall DEF EnterSubmit
  <2>3. Count(sq') <= Count(sq) /\ Count(sq) \in Nat /\ Count(sq') \in Nat
    BY <2>2, CountSubbag, CountMembers, FS_CardinalityType
  <2>4. Count(sq') <= SQEntries
    BY <1>0, <2>3, ReactorAssumption DEF TypeOK
  <2> QED BY <1>0, <1>b, <1>12, <2>1, <2>4 DEF EnterSubmit, TypeOK, UnparkTypeOK, Booleans
<1>13. ASSUME NEW u \in UserData, KernelPosts(u) \/ KernelOverflows(u) PROVE TypeOK'
  <2>1. inflight' \in [UserData -> Nat]
    BY <1>0, <1>13 DEF KernelPosts, KernelOverflows, TypeOK
  <2>2. cq' \in [UserData -> Nat]
    BY <1>0, <1>13 DEF KernelPosts, KernelOverflows, TypeOK
  <2> QED
    BY <1>0, <1>b, <1>13, <2>1, <2>2
    DEF KernelPosts, KernelOverflows, TypeOK, UnparkTypeOK, Booleans
<1>14. ASSUME NEW t \in Threads, UnparkStep(t) PROVE TypeOK'
  <2>1. pipe' \in 0..PipeSize
    BY <1>0, <1>14, UnparkAssumption
    DEF UnparkStep, UnparkSwap, UnparkLoad, UnparkWrite, PipeAfterWrite, TypeOK, UnparkTypeOK
  <2> QED
    BY <1>0, <1>b, <1>14, <2>1
    DEF UnparkStep, UnparkSwap, UnparkLoad, UnparkWrite, TypeOK, UnparkTypeOK, Booleans
<1>15. ASSUME NEW t \in Threads, NEW r \in Regs, Notify(t, r) PROVE TypeOK'
  BY <1>0, <1>b, <1>15 DEF Notify, TypeOK, UnparkTypeOK, Booleans
<1>16. ASSUME NEW f \in Flags, MemoryStep(f) PROVE TypeOK'
  BY <1>0, <1>b, <1>16 DEF MemoryStep, StoreVisible, TypeOK, UnparkTypeOK, Booleans
<1>17. CASE UNCHANGED vars
  BY <1>0, <1>b, <1>17 DEF vars, TypeOK, UnparkTypeOK, Booleans
<1>18. UserData \in SUBSET UserData
  OBVIOUS
<1> QED
  BY <1>1, <1>2, <1>4, <1>5, <1>6, <1>7, <1>8, <1>9, <1>10, <1>11, <1>12, <1>13, <1>14,
     <1>15, <1>16, <1>17, <1>18
  DEF Next, ParkInner, Kernel, KernelCompletes, KernelFails

------------------------------------------------------------------------------
(* Every operation is in one place *)

(* The expected completions are finitely many, and each of them counts. *)
LEMMA ExpectedFinite ==
  /\ IsFiniteSet({u \in UserData : Expected(u)})
  /\ IsFiniteSet({u \in UserData : Expected(u)}')
BY UserDataFinite, FS_Subset

(* An entry is queued for what was not under way. *)
LEMMA PlaceAdd ==
  ASSUME TypeOK, PlaceInv, NEW u \in UserData, ~Expected(u), QueueEntry(u),
         UNCHANGED <<inflight, cq, lost>>,
         \A v \in UserData : Expected(v)' <=> Expected(v) \/ v = u
  PROVE  PlaceInv'
<1> DEFINE E == {v \in UserData : Expected(v)}
<1>1. active_wait' = Cardinality(E')
  <2>1. E' = E \cup {u} /\ u \notin E
    OBVIOUS
  <2>2. active_wait' = Cardinality(E) + 1
    BY DEF PlaceInv, QueueEntry
  <2> HIDE DEF E
  <2>3. IsFiniteSet(E)
    BY ExpectedFinite DEF E
  <2> QED BY <2>1, <2>2, <2>3, FS_AddElement
<1>2. ASSUME NEW v \in UserData
      PROVE  /\ v # u => Outstanding(v)' = Outstanding(v)
             /\ v = u => Outstanding(v)' = Outstanding(v) + 1
  BY DEF TypeOK, QueueEntry, Outstanding
<1>3. ASSUME NEW v \in UserData
      PROVE  /\ v \in lost' => Expected(v)'
             /\ Expected(v)' /\ v \notin lost' => Outstanding(v)' = 1
             /\ ~Expected(v)' \/ v \in lost' => Outstanding(v)' = 0
  BY <1>2 DEF PlaceInv
<1> QED BY <1>1, <1>3 DEF PlaceInv

(* A completion that is handled is not expected any more. *)
LEMMA PlaceRemove ==
  ASSUME TypeOK, PlaceInv, NEW u \in UserData, TakeCompletion(u),
         \A v \in UserData : Expected(v)' <=> Expected(v) /\ v # u
  PROVE  PlaceInv'
<1> DEFINE E == {v \in UserData : Expected(v)}
<1>0. Outstanding(u) = 1 /\ Expected(u) /\ u \notin lost
  <2>1. sq[u] \in Nat /\ inflight[u] \in Nat /\ cq[u] \in Nat /\ cq[u] > 0
    BY DEF TypeOK, TakeCompletion
  <2> QED BY <2>1 DEF PlaceInv, Outstanding
<1>1. active_wait' = Cardinality(E')
  <2>1. E' = E \ {u} /\ u \in E
    BY <1>0
  <2>2. active_wait' = Cardinality(E) - 1
    BY DEF PlaceInv, TakeCompletion, CountedDown
  <2> HIDE DEF E
  <2>3. IsFiniteSet(E)
    BY ExpectedFinite DEF E
  <2> QED BY <2>1, <2>2, <2>3, FS_RemoveElement
<1>2. ASSUME NEW v \in UserData
      PROVE  /\ v # u => Outstanding(v)' = Outstanding(v)
             /\ v = u => Outstanding(v)' = Outstanding(v) - 1
  BY DEF TypeOK, TakeCompletion, Outstanding
<1>3. ASSUME NEW v \in UserData
      PROVE  /\ v \in lost' => Expected(v)'
             /\ Expected(v)' /\ v \notin lost' => Outstanding(v)' = 1
             /\ ~Expected(v)' \/ v \in lost' => Outstanding(v)' = 0
  BY <1>0, <1>2 DEF PlaceInv, TakeCompletion
<1> QED BY <1>1, <1>3 DEF PlaceInv

(* What is expected and what is outstanding stays the same. *)
LEMMA PlaceSame ==
  ASSUME PlaceInv, UNCHANGED <<active_wait, lost>>,
         \A v \in UserData : /\ Expected(v)' <=> Expected(v)
                             /\ Outstanding(v)' = Outstanding(v)
  PROVE  PlaceInv'
<1>1. {v \in UserData : Expected(v)}' = {v \in UserData : Expected(v)}
  OBVIOUS
<1> QED BY <1>1 DEF PlaceInv

(* Operations change their place one by one, and are expected exactly      *)
(* while they have one.                                                    *)
LEMMA NextPlaceInv ==
  ASSUME IInv, [Next]_vars
  PROVE  PlaceInv'
<1>0. TypeOK /\ PlaceInv
  BY DEF IInv
<1> USE UserDataFinite DEF stateVars, ringVars, callVars, taskVars, parkVars
<1> DEFINE Unexpected == \A v \in UserData : Expected(v)' <=> Expected(v)
<1>1. ASSUME NEW r \in Regs, RunTask(r) PROVE PlaceInv'
  <2>1. CASE QueueAsync(r)
    <3>1. ~Expected(r)
      BY <2>1 DEF QueueAsync, Expected
    <3>2. \A v \in UserData : Expected(v)' <=> Expected(v) \/ v = r
      BY <1>0, <2>1 DEF QueueAsync, QueueEntry, Expected, TypeOK
    <3> QED BY <1>0, <2>1, <3>1, <3>2, PlaceAdd DEF QueueAsync
  <2>2. CASE QueueAsyncFull(r) \/ PollNotReady(r) \/ TaskIdle(r)
    BY <1>0, <2>2, PlaceSame DEF QueueAsyncFull, PollNotReady, TaskIdle, Expected, Outstanding
  <2>3. CASE PollReady(r) \/ DropFuture(r)
    <3>1. Unexpected
      BY <1>0, <2>3 DEF PollReady, DropFuture, Expected, TypeOK
    <3> QED BY <1>0, <2>3, <3>1, PlaceSame DEF PollReady, DropFuture, Outstanding
  <2> QED BY <1>1, <2>1, <2>2, <2>3 DEF RunTask
<1>2. ASSUME NEW r \in Regs, HandleOperation(r) PROVE PlaceInv'
  <2>1. \A v \in UserData : Expected(v)' <=> Expected(v) /\ v # r
    BY <1>0, <1>2 DEF HandleOperation, Expected, TypeOK
  <2> QED BY <1>0, <1>2, <2>1, PlaceRemove DEF HandleOperation
<1>3. CASE HandleTimer
  <2>1. \A v \in UserData : Expected(v)' <=> Expected(v) /\ v # TIMER
    BY <1>3 DEF HandleTimer, Expected
  <2> QED BY <1>0, <1>3, <2>1, PlaceRemove DEF HandleTimer
<1>4. CASE HandlePark
  <2>1. \A v \in UserData : Expected(v)' <=> Expected(v) /\ v # PARK
    BY <1>4 DEF HandlePark, Expected
  <2> QED BY <1>0, <1>4, <2>1, PlaceRemove DEF HandlePark
<1>5. CASE ArmTimer
  <2>1. CASE TimerDue /\ ~SqFull
    <3>1. ~Expected(TIMER)
      BY <2>1 DEF TimerDue, Expected
    <3>2. \A v \in UserData : Expected(v)' <=> Expected(v) \/ v = TIMER
      BY <1>5, <2>1 DEF ArmTimer, Expected
    <3> QED BY <1>0, <1>5, <2>1, <3>1, <3>2, PlaceAdd DEF ArmTimer, queue_timer_poll
  <2>2. CASE ~(TimerDue /\ ~SqFull)
    BY <1>0, <1>5, <2>2, PlaceSame DEF ArmTimer, Expected, Outstanding
  <2> QED BY <2>1, <2>2
<1>6. CASE QueuePark
  <2>1. CASE ParkDue /\ ~SqFull
    <3>1. ~Expected(PARK)
      BY <2>1 DEF ParkDue, Expected
    <3>2. \A v \in UserData : Expected(v)' <=> Expected(v) \/ v = PARK
      BY <1>6, <2>1 DEF QueuePark, Expected
    <3> QED BY <1>0, <1>6, <2>1, <3>1, <3>2, PlaceAdd DEF QueuePark, queue_park_read
  <2>2. CASE ~(ParkDue /\ ~SqFull)
    BY <1>0, <1>6, <2>2, PlaceSame DEF QueuePark, Expected, Outstanding
  <2> QED BY <2>1, <2>2
<1>7. ASSUME NEW part \in SUBSET UserData, EnterSubmit(part) PROVE PlaceInv'
  <2>1. \A v \in UserData : Outstanding(v)' = Outstanding(v)
    BY <1>0, <1>7 DEF EnterSubmit, Outstanding, TypeOK
  <2>2. Unexpected
    BY <1>7 DEF EnterSubmit, Expected
  <2> QED BY <1>0, <1>7, <2>1, <2>2, PlaceSame DEF EnterSubmit
<1>8. ASSUME NEW u \in UserData, KernelPosts(u) PROVE PlaceInv'
  <2>1. \A v \in UserData : Outstanding(v)' = Outstanding(v)
    BY <1>0, <1>8 DEF KernelPosts, Outstanding, TypeOK
  <2>2. Unexpected
    BY <1>8 DEF KernelPosts, Expected
  <2> QED BY <1>0, <1>8, <2>1, <2>2, PlaceSame DEF KernelPosts
<1>9. ASSUME NEW u \in UserData, KernelOverflows(u) PROVE PlaceInv'
  <2>1. Outstanding(u) = 1 /\ Expected(u) /\ u \notin lost
    <3>1. sq[u] \in Nat /\ inflight[u] \in Nat /\ cq[u] \in Nat /\ inflight[u] > 0
      BY <1>0, <1>9 DEF TypeOK, KernelOverflows
    <3> QED BY <1>0, <3>1 DEF PlaceInv, Outstanding
  <2>2. Unexpected /\ active_wait' = active_wait /\ lost' = lost \cup {u}
    BY <1>9 DEF KernelOverflows, Expected
  <2>3. \A v \in UserData : /\ v # u => Outstanding(v)' = Outstanding(v)
                            /\ v = u => Outstanding(v)' = Outstanding(v) - 1
    BY <1>0, <1>9 DEF KernelOverflows, Outstanding, TypeOK
  <2>4. {v \in UserData : Expected(v)}' = {v \in UserData : Expected(v)}
    BY <2>2
  <2> QED BY <1>0, <2>1, <2>2, <2>3, <2>4 DEF PlaceInv
<1>10. CASE UNCHANGED <<sq, inflight, cq, lost, active_wait, requeue_timer, requeue_park, reg>>
  BY <1>0, <1>10, PlaceSame DEF Expected, Outstanding
<1>11. UserData \in SUBSET UserData
  OBVIOUS
<1> QED
  BY <1>1, <1>2, <1>3, <1>4, <1>5, <1>6, <1>7, <1>8, <1>9, <1>10, <1>11
  DEF Next, ParkInner, Kernel, KernelCompletes, KernelFails, CallPark, Park, EndCheck,
      PeekPending, ParkEnter, ParkAllow, EnterFails, EnterReturns, EnterInterrupted,
      LeavePark, TimerExpires, Notify, UnparkStep, MemoryStep, vars

------------------------------------------------------------------------------
(* The reactor thread on its way to sleep *)

(* Each step of park_inner only ever gives up waiting. *)
LEMMA WaitOnlyEnds ==
  /\ PeekPending => (wait' => wait)
  /\ ArmTimer => (wait' => wait /\ ~(TimerDue /\ SqFull))
  /\ QueuePark => (wait' => wait /\ ~(ParkDue /\ SqFull))
  /\ ParkAllow => (wait' => wait /\ AllowWait)
<1>1. PeekPending => (wait' => wait)
  BY Zenon DEF PeekPending
<1>2. ArmTimer => (wait' => wait /\ ~(TimerDue /\ SqFull))
  BY Zenon DEF ArmTimer
<1>3. QueuePark => (wait' => wait /\ ~(ParkDue /\ SqFull))
  BY Zenon DEF QueuePark
<1>4. ParkAllow => (wait' => wait /\ AllowWait)
  BY Zenon DEF ParkAllow
<1> QED BY <1>1, <1>2, <1>3, <1>4

(* What TakeCompletion, and with it every handle_completion, leaves alone *)
LEMMA HandleKeeps ==
  ASSUME (\E r \in Regs : HandleOperation(r)) \/ HandleTimer \/ HandlePark
  PROVE  /\ pc \in {"check1", "check2"} /\ pc' = pc /\ wait' = FALSE
         /\ UNCHANGED <<sq, timer, timeout>>
BY DEF HandleOperation, HandleTimer, HandlePark, TakeCompletion

(* While it wants to wait the thread has its polls queued, and it blocks   *)
(* only with nothing left to submit.                                       *)
LEMMA NextPhaseInv ==
  ASSUME IInv, [Next]_vars
  PROVE  PhaseInv'
<1>0. TypeOK /\ PhaseInv
  BY DEF IInv
<1> USE DEF PhaseInv, stateVars, ringVars, callVars
<1>1. ASSUME NEW r \in Regs, RunTask(r) PROVE PhaseInv'
  BY <1>0, <1>1
  DEF RunTask, QueueAsync, QueueAsyncFull, PollNotReady, PollReady, DropFuture, TaskIdle
<1>2. CASE CallPark
  BY <1>0, <1>2 DEF CallPark, Park
<1>3. CASE (\E r \in Regs : HandleOperation(r)) \/ HandleTimer \/ HandlePark
  BY <1>3, HandleKeeps
<1>4. CASE EndCheck \/ PeekPending
  BY <1>0, <1>4 DEF EndCheck, PeekPending
<1>5. CASE ArmTimer
  <2>1. wait' => wait /\ ~(TimerDue /\ SqFull)
    BY <1>5, WaitOnlyEnds
  <2>2. wait' => ~requeue_timer'
    BY <1>5, <2>1 DEF ArmTimer, TimerDue
  <2>3. wait' /\ timeout' => timer' # "off"
    BY <1>5, <2>1 DEF ArmTimer, TimerSetting
  <2> QED BY <1>5, <2>2, <2>3 DEF ArmTimer
<1>6. CASE QueuePark
  <2>1. wait' => wait /\ ~(ParkDue /\ SqFull)
    BY <1>6, WaitOnlyEnds
  <2>2. wait' => ~requeue_park'
    BY <1>6, <2>1 DEF QueuePark, ParkDue
  <2> QED BY <1>0, <1>6, <2>1, <2>2 DEF QueuePark
<1>7. CASE ParkEnter \/ LeavePark
  BY <1>0, <1>7 DEF ParkEnter, LeavePark
<1>8. CASE ParkAllow
  <2>1. wait' => wait
    BY <1>8, WaitOnlyEnds
  <2> QED BY <1>0, <1>8, <2>1 DEF ParkAllow
<1>9. ASSUME NEW part \in SUBSET UserData, EnterSubmit(part) PROVE PhaseInv'
  BY <1>0, <1>9 DEF EnterSubmit
<1>10. CASE EnterFails \/ EnterReturns \/ EnterInterrupted
  BY <1>0, <1>10 DEF EnterFails, EnterReturns, EnterInterrupted
<1>11. CASE TimerExpires
  BY <1>0, <1>11 DEF TimerExpires
<1>12. CASE UNCHANGED <<stateVars, sq, timer, callVars>>
  BY <1>0, <1>12
<1>13. UserData \in SUBSET UserData
  OBVIOUS
<1> QED
  BY <1>1, <1>2, <1>3, <1>4, <1>5, <1>6, <1>7, <1>8, <1>9, <1>10, <1>11, <1>12, <1>13
  DEF Next, ParkInner, Kernel, KernelCompletes, KernelFails, KernelPosts, KernelOverflows,
      Notify, UnparkStep, MemoryStep, vars

(* A completion of the poll of the pipe is posted when there is a byte,    *)
(* and only its own handling reads bytes.                                  *)
LEMMA NextClearEvent ==
  ASSUME IInv, [Next]_vars, PARK \notin FailingPolls
  PROVE  ClearEventNeverBlocks'
<1>0. /\ TypeOK /\ PlaceInv /\ ClearEventNeverBlocks
      /\ cq \in [UserData -> Nat] /\ pipe \in Nat
  BY UnparkAssumption DEF IInv, TypeOK, UnparkTypeOK
<1> USE UserDataFinite DEF ClearEventNeverBlocks, ringVars, parkVars
<1>2. CASE UNCHANGED <<cq, pipe>>
  BY <1>0, <1>2
<1>3. ASSUME NEW r \in Regs, HandleOperation(r) PROVE ClearEventNeverBlocks'
  <2>1. pipe' >= pipe /\ pipe' \in Nat
    BY <1>0, <1>3 DEF HandleOperation, NotifyTask, UnparkSelf, PipeAfterWrite
  <2>2. cq'[PARK] = cq[PARK]
    BY <1>0, <1>3 DEF HandleOperation, TakeCompletion
  <2> QED BY <1>0, <2>1, <2>2
<1>4. CASE HandleTimer
  BY <1>0, <1>4 DEF HandleTimer, TakeCompletion
<1>5. CASE HandlePark
  <2>1. sq[PARK] \in Nat /\ inflight[PARK] \in Nat /\ cq[PARK] \in Nat
    BY <1>0 DEF TypeOK
  <2>2. cq[PARK] <= 1
    BY <1>0, <2>1 DEF PlaceInv, Outstanding
  <2>3. cq'[PARK] = cq[PARK] - 1
    BY <1>0, <1>5 DEF HandlePark, TakeCompletion
  <2> QED BY <2>1, <2>2, <2>3
<1>6. ASSUME NEW u \in UserData, KernelPosts(u), u = PARK => pipe > 0
      PROVE  ClearEventNeverBlocks'
  BY <1>0, <1>6 DEF KernelPosts
<1>7. ASSUME NEW t \in Threads, UnparkStep(t) PROVE ClearEventNeverBlocks'
  <2>1. pipe' >= pipe /\ pipe' \in Nat /\ cq' = cq
    BY <1>0, <1>7 DEF UnparkStep, UnparkSwap, UnparkLoad, UnparkWrite, PipeAfterWrite
  <2> QED BY <1>0, <2>1
<1>8. ASSUME NEW u \in UserData, KernelCompletes(u) \/ KernelFails(u)
      PROVE  ClearEventNeverBlocks'
  BY <1>6, <1>8 DEF KernelCompletes, KernelFails, Completable
<1>9. ASSUME NEW r \in Regs, RunTask(r) PROVE UNCHANGED <<cq, pipe>>
  BY <1>9
  DEF RunTask, QueueAsync, QueueAsyncFull, PollNotReady, PollReady, DropFuture, TaskIdle
<1> QED
  BY <1>2, <1>3, <1>4, <1>5, <1>7, <1>8, <1>9
  DEF Next, ParkInner, Kernel, CallPark, Park, EndCheck, PeekPending, ArmTimer, QueuePark,
      ParkEnter, EnterStore, ParkAllow, EnterSubmit, EnterFails, EnterReturns,
      EnterInterrupted, LeavePark, DropEntered, KernelOverflows, TimerExpires, Notify,
      MemoryStep, StoreVisible, vars

------------------------------------------------------------------------------
(* Wakeups *)

(* The flags after the steps of the reactor thread that write them, and    *)
(* after a store became visible                                            *)
LEMMA FlagSteps ==
  /\ EnterStore => (pending' <=> PendingSeen) /\ entered' /\ sbuf' = {}
  /\ \A f \in Flags : StoreVisible(f) => sbuf # {}
<1>1. EnterStore => (pending' <=> PendingSeen) /\ entered' /\ sbuf' = {}
  BY Zenon DEF EnterStore, PendingSeen
<1> QED BY <1>1 DEF StoreVisible

(* What the thread's own steps of park_inner leave alone *)
LEMMA ThreadSteps ==
  ASSUME EndCheck \/ PeekPending \/ ArmTimer \/ QueuePark \/ ParkAllow \/ EnterReturns
           \/ EnterFails \/ EnterInterrupted
  PROVE  UNCHANGED <<ready, pending, entered, sbuf, pipe, upc>>
BY DEF EndCheck, PeekPending, ArmTimer, QueuePark, ParkAllow, EnterReturns, EnterFails,
       EnterInterrupted, taskVars, parkVars

(* A notification that comes while the thread goes to sleep is either seen *)
(* by the thread in pending or followed by a byte in the pipe.             *)
LEMMA NextWakeInv ==
  ASSUME IInv, [Next]_vars, TickFence
  PROVE  WakeInv'
<1>0. /\ TypeOK /\ PhaseInv /\ WakeInv /\ pipe \in Nat
      /\ upc \in [Threads -> {"idle", "swap", "load", "write"}]
  BY UnparkAssumption DEF IInv, TypeOK, UnparkTypeOK
<1> USE DEF WakeInv, callVars, taskVars, parkVars
<1>1. ASSUME NEW r \in Regs, RunTask(r) PROVE WakeInv'
  <2>1. pc = "exec" /\ pc' = pc
    BY <1>1
    DEF RunTask, QueueAsync, QueueAsyncFull, PollNotReady, PollReady, DropFuture, TaskIdle
  <2> QED BY <2>1
<1>2. CASE CallPark
  BY <1>0, <1>2 DEF CallPark, Park
<1>3. CASE (\E r \in Regs : HandleOperation(r)) \/ HandleTimer \/ HandlePark
  <2>1. /\ pc \in {"check1", "check2"} /\ pc' = pc /\ wait' = FALSE
    BY <1>3, HandleKeeps
  <2>2. sbuf' \subseteq sbuf
    BY <1>3
    DEF HandleOperation, NotifyTask, UnparkSelf, HandleTimer, HandlePark, clear_event
  <2> QED BY <1>0, <2>1, <2>2
<1>4. CASE EndCheck \/ PeekPending \/ ArmTimer \/ QueuePark
  <2>1. /\ pc \in {"check1", "check2", "peek", "timer", "park"} /\ (wait' => wait)
        /\ pc' \in {"exec", "peek", "timer", "park", "enter"}
        /\ pc' # "exec" => pc # "check2"
    BY <1>4, WaitOnlyEnds DEF EndCheck, PeekPending, ArmTimer, QueuePark
  <2> QED BY <1>0, <1>4, <2>1, ThreadSteps
<1>5. CASE ParkEnter
  <2>1. pc = "enter" /\ pc' = "allow" /\ wait' = wait /\ ready' = ready /\ upc' = upc
    BY <1>5 DEF ParkEnter, EnterStore
  <2>2. (pending' <=> PendingSeen) /\ entered' /\ sbuf' = {}
    BY <1>5, FlagSteps DEF ParkEnter
  <2> QED BY <1>0, <2>1, <2>2 DEF PendingSeen
<1>6. CASE ParkAllow
  <2>1. pc = "allow" /\ pc' \in {"quit", "syscall"} /\ (wait' => wait /\ ~PendingSeen)
    BY <1>6, WaitOnlyEnds DEF ParkAllow, AllowWait
  <2> QED BY <1>0, <1>6, <2>1, ThreadSteps DEF PendingSeen
<1>7. ASSUME NEW part \in SUBSET UserData, EnterSubmit(part) PROVE WakeInv'
  <2>1. /\ pc = "syscall" /\ pc' \in {"blocked", "leave"}
        /\ UNCHANGED <<wait, ready, pending, entered, sbuf, pipe, upc>>
    BY <1>7 DEF EnterSubmit
  <2> QED BY <1>0, <2>1
<1>8. CASE EnterFails \/ EnterReturns \/ EnterInterrupted
  <2>1. pc \in {"syscall", "blocked"} /\ pc' \in {"leave", "quit"} /\ wait' = wait
    BY <1>8 DEF EnterFails, EnterReturns, EnterInterrupted
  <2> QED BY <1>0, <1>8, <2>1, ThreadSteps
<1>9. CASE LeavePark
  BY <1>9 DEF LeavePark
<1>10. ASSUME NEW t \in Threads, UnparkStep(t) PROVE WakeInv'
  <2>0. UNCHANGED <<pc, wait, ready>>
    BY <1>10 DEF UnparkStep
  <2>1. CASE UnparkSwap(t)
    <3>1. /\ UNCHANGED <<entered, sbuf, pipe>> /\ pending' = TRUE
          /\ upc'[t] = IF pending THEN "idle" ELSE "load"
          /\ \A s \in Threads : s # t => upc'[s] = upc[s]
      BY <1>0, <2>1 DEF UnparkSwap
    <3>2. pending' /\ upc[t] = "swap"
      BY <2>1, <3>1 DEF UnparkSwap
    <3>3. CASE pending
      BY <1>0, <2>0, <3>1, <3>2, <3>3
    <3>4. CASE ~pending
      BY <1>0, <2>0, <3>1, <3>2, <3>4
    <3> QED BY <3>3, <3>4
  <2>2. CASE UnparkLoad(t)
    <3>1. /\ UNCHANGED <<pending, entered, sbuf, pipe>>
          /\ upc[t] = "load" /\ upc'[t] = IF entered THEN "write" ELSE "idle"
          /\ \A s \in Threads : s # t => upc'[s] = upc[s]
      BY <1>0, <2>2 DEF UnparkLoad
    <3> QED BY <1>0, <2>0, <3>1
  <2>3. CASE UnparkWrite(t)
    <3>1. /\ UNCHANGED <<pending, entered, sbuf>>
          /\ upc[t] = "write" /\ pipe' > 0
          /\ \A s \in Threads : s # t => upc'[s] = upc[s]
      BY <1>0, <2>3, UnparkAssumption DEF UnparkWrite, PipeAfterWrite
    <3> QED BY <1>0, <2>0, <3>1
  <2> QED BY <1>10, <2>1, <2>2, <2>3 DEF UnparkStep
<1>11. ASSUME NEW t \in Threads, NEW r \in Regs, Notify(t, r) PROVE WakeInv'
  <2>1. /\ UNCHANGED <<pc, wait, pending, entered, sbuf, pipe>>
        /\ upc[t] = "idle" /\ upc'[t] = "swap"
        /\ \A s \in Threads : s # t => upc'[s] = upc[s]
    BY <1>0, <1>11 DEF Notify
  <2> QED BY <1>0, <2>1
<1>12. ASSUME NEW f \in Flags, MemoryStep(f) PROVE WakeInv'
  <2>1. UNCHANGED <<pc, wait, ready, pipe, upc>> /\ sbuf # {}
    BY <1>12, FlagSteps DEF MemoryStep, StoreVisible
  <2>2. pc \in {"exec", "check2"}
    BY <1>0, <2>1
  <2>3. pc = "check2" => ~wait
    BY <1>0 DEF PhaseInv
  <2> QED BY <1>0, <2>1, <2>2, <2>3
<1>13. CASE UNCHANGED <<callVars, ready, parkVars, upc>>
  BY <1>0, <1>13
<1>14. UserData \in SUBSET UserData
  OBVIOUS
<1> QED
  BY <1>1, <1>2, <1>3, <1>4, <1>5, <1>6, <1>7, <1>8, <1>9, <1>10, <1>11, <1>12, <1>13, <1>14
  DEF Next, ParkInner, Kernel, KernelCompletes, KernelFails, KernelPosts, KernelOverflows,
      TimerExpires, vars

------------------------------------------------------------------------------
(* The strengthened invariant holds in every reachable state. *)
THEOREM ReactorIInv == Spec => []IInv
<1>1. IInv /\ [Next]_vars => IInv'
  BY NextTypeOK, NextPlaceInv, NextPhaseInv, NextClearEvent, NextWakeInv DEF IInv
<1> QED BY InitIInv, <1>1, PTL DEF Spec

(* Type correctness: the submission queue never holds more than fits, the  *)
(* pipe no more bytes than it has room for, and active_wait never goes     *)
(* below zero.                                                             *)
THEOREM ReactorTypeOK == Spec => []TypeOK
<1>1. IInv => TypeOK
  BY DEF IInv
<1> QED BY <1>1, ReactorIInv, PTL

(* Disjoint finite sets *)
LEMMA DisjointUnion ==
  ASSUME NEW S, NEW T, IsFiniteSet(S), IsFiniteSet(T), S \cap T = {}
  PROVE  /\ IsFiniteSet(S \cup T)
         /\ Cardinality(S \cup T) = Cardinality(S) + Cardinality(T)
<1>1. /\ IsFiniteSet(S \cup T)
      /\ Cardinality(S \cup T) = Cardinality(S) + Cardinality(T) - Cardinality(S \cap T)
  BY FS_Union
<1>2. Cardinality(S \cap T) = 0
  BY FS_EmptySet
<1>3. Cardinality(S) \in Nat /\ Cardinality(T) \in Nat
  BY FS_CardinalityType
<1> QED BY <1>1, <1>2, <1>3

(* The four places of an operation are disjoint, so that active_wait is    *)
(* the sum of their sizes.                                                 *)
LEMMA PlacesAddUp ==
  ASSUME TypeOK, PlaceInv
  PROVE  active_wait = Count(sq) + Count(inflight) + Count(cq) + Cardinality(lost)
<1> DEFINE A == {u \in UserData : sq[u] = 1}
           B == {u \in UserData : inflight[u] = 1}
           C == {u \in UserData : cq[u] = 1}
           E == {u \in UserData : Expected(u)}
<1>1. /\ Count(sq) = Cardinality(A) /\ Count(inflight) = Cardinality(B)
      /\ Count(cq) = Cardinality(C)
      /\ IsFiniteSet(A) /\ IsFiniteSet(B) /\ IsFiniteSet(C)
  BY PlacesSmall, CountMembers
<1>2. IsFiniteSet(lost)
  BY UserDataFinite, FS_Subset DEF TypeOK
<1>3. \A u \in UserData : /\ sq[u] \in 0..1 /\ inflight[u] \in 0..1 /\ cq[u] \in 0..1
                          /\ u \in lost => Expected(u)
                          /\ Expected(u) /\ u \notin lost => sq[u] + inflight[u] + cq[u] = 1
                          /\ ~Expected(u) \/ u \in lost => sq[u] + inflight[u] + cq[u] = 0
  BY PlacesSmall DEF PlaceInv, Outstanding
<1>4. /\ A \cap B = {} /\ (A \cup B) \cap C = {} /\ ((A \cup B) \cup C) \cap lost = {}
      /\ E = ((A \cup B) \cup C) \cup lost
  <2>1. lost \subseteq UserData
    BY DEF TypeOK
  <2>2. ASSUME NEW u \in UserData
        PROVE  /\ ~(u \in A /\ u \in B) /\ ~((u \in A \/ u \in B) /\ u \in C)
               /\ ~((u \in A \/ u \in B \/ u \in C) /\ u \in lost)
               /\ u \in E <=> (u \in A \/ u \in B \/ u \in C \/ u \in lost)
    <3> DEFINE i == sq[u]
               j == inflight[u]
               k == cq[u]
    <3>1. /\ i \in 0..1 /\ j \in 0..1 /\ k \in 0..1
          /\ u \in lost => Expected(u)
          /\ Expected(u) /\ u \notin lost => i + j + k = 1
          /\ ~Expected(u) \/ u \in lost => i + j + k = 0
      BY <1>3
    <3>2. /\ u \in A <=> i = 1
          /\ u \in B <=> j = 1
          /\ u \in C <=> k = 1
          /\ u \in E <=> Expected(u)
      OBVIOUS
    <3> HIDE DEF A, B, C, E, i, j, k
    <3> QED BY <3>1, <3>2
  <2> QED BY <2>1, <2>2
<1> HIDE DEF A, B, C, E
<1>7. IsFiniteSet(A \cup B) /\ Cardinality(A \cup B) = Cardinality(A) + Cardinality(B)
  BY <1>1, <1>4, DisjointUnion
<1>8. /\ IsFiniteSet((A \cup B) \cup C)
      /\ Cardinality((A \cup B) \cup C) = Cardinality(A \cup B) + Cardinality(C)
  BY <1>1, <1>4, <1>7, DisjointUnion
<1>9. Cardinality(E) = Cardinality((A \cup B) \cup C) + Cardinality(lost)
  BY <1>2, <1>4, <1>8, DisjointUnion
<1>10. active_wait = Cardinality(E)
  BY DEF PlaceInv, E
<1> QED BY <1>1, <1>7, <1>8, <1>9, <1>10

(* Every operation and both polls of the reactor are under way exactly     *)
(* when its flags say so and never twice, and active_wait counts them,     *)
(* also after completions were lost to a full queue.                       *)
THEOREM ReactorOneCompletionEach == Spec => []OneCompletionEach
<1>1. IInv => OneCompletionEach
  <2> SUFFICES ASSUME IInv PROVE OneCompletionEach
    OBVIOUS
  <2>1. TypeOK /\ PlaceInv
    BY DEF IInv
  <2>2. ASSUME NEW u \in UserData
        PROVE  Outstanding(u) + (IF u \in lost THEN 1 ELSE 0) = IF Expected(u) THEN 1 ELSE 0
    <3>1. CASE u \in lost
      BY <2>1, <3>1 DEF PlaceInv
    <3>2. CASE u \notin lost /\ Expected(u)
      BY <2>1, <3>2 DEF PlaceInv
    <3>3. CASE u \notin lost /\ ~Expected(u)
      BY <2>1, <3>3 DEF PlaceInv
    <3> QED BY <3>1, <3>2, <3>3
  <2> QED BY <2>1, <2>2, PlacesAddUp DEF OneCompletionEach
<1> QED BY <1>1, ReactorIInv, PTL

(* clear_event() never blocks the reactor thread, unless the kernel may    *)
(* fail the poll of the pipe: handle_completion does not look at results.  *)
THEOREM ReactorClearEvent ==
  ASSUME PARK \notin FailingPolls
  PROVE  Spec => []ClearEventNeverBlocks
<1>1. IInv => ClearEventNeverBlocks
  BY DEF IInv
<1> QED BY <1>1, ReactorIInv, PTL

(* A thread that blocks in io_uring_enter has its poll of the pipe in the  *)
(* kernel, and for a timed wait that of a timer that is set, unless the    *)
(* completion of the poll was lost.                                        *)
THEOREM ReactorBlockedIsWakeable == Spec => []BlockedIsWakeable
<1>1. IInv => BlockedIsWakeable
  <2> SUFFICES ASSUME IInv, pc = "blocked", cq = None
               PROVE  /\ inflight[PARK] > 0 \/ PARK \in lost
                      /\ timeout => (inflight[TIMER] > 0 \/ TIMER \in lost) /\ timer # "off"
    BY DEF BlockedIsWakeable
  <2>1. wait /\ sq = None /\ ~requeue_park /\ ~requeue_timer /\ (timeout => timer # "off")
    BY DEF IInv, PhaseInv
  <2>2. ASSUME NEW u \in {TIMER, PARK} PROVE inflight[u] > 0 \/ u \in lost
    <3>1. u \in UserData /\ Expected(u)
      BY <2>1, UserDataFinite DEF Expected
    <3>2. sq[u] = 0 /\ cq[u] = 0 /\ inflight[u] \in Nat
      BY <2>1, <3>1 DEF None, IInv, TypeOK
    <3> QED BY <3>1, <3>2 DEF IInv, PlaceInv, Outstanding
  <2> QED BY <2>1, <2>2
<1> QED BY <1>1, ReactorIInv, PTL

(* No wakeup is lost: when a task is ready while the thread sleeps, a      *)
(* thread is inside unpark() or a byte is in the pipe.  It rests on the    *)
(* fence between the drop of ParkEntered and the executor's look at its    *)
(* run queue; without it the stores of that drop may come too late.        *)
THEOREM ReactorNoLostWakeup ==
  ASSUME TickFence
  PROVE  Spec => []NoLostWakeup
<1>1. IInv => NoLostWakeup
  BY DEF IInv, PhaseInv, WakeInv, NoLostWakeup
<1> QED BY <1>1, ReactorIInv, PTL
==============================================================================
