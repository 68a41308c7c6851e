---------------------------- MODULE FuturesProofs ----------------------------
(***************************************************************************)
(* IInv of Futures is inductive, for any number of futures, tasks,         *)
(* addresses and operations; the ownership properties follow, and Futures  *)
(* implements Delivery.  In the second part, EchoIInv is inductive, for    *)
(* any number of connections: the echo server inherits the invariant of    *)
(* Futures, because its steps are steps of the futures it uses, and leaves *)
(* an operation behind only by a timeout.                                  *)
(***************************************************************************)
EXTENDS Echo, FiniteSetTheorems, TLAPS

------------------------------------------------------------------------------
(* The operators of Registration, field by field *)

(* A registration that was just made has one reference and nothing else. *)
LEMMA NewFields ==
  ASSUME NEW d \in Contents
  PROVE  /\ NewInner(d) \in Inner
         /\ NewInner(d).strong = 1 /\ ~NewInner(d).finished
         /\ NewInner(d).waker = NoTask /\ NewInner(d).data = d
BY DEF NewInner, Freed, Inner

LEMMA ClonedFields ==
  ASSUME NEW i \in Inner
  PROVE  /\ Cloned(i) \in Inner
         /\ Cloned(i).strong = i.strong + 1
         /\ Cloned(i).finished = i.finished /\ Cloned(i).result = i.result
         /\ Cloned(i).waker = i.waker /\ Cloned(i).data = i.data
BY DEF Cloned, Inner

LEMMA ReleasedFields ==
  ASSUME NEW i \in Inner, i.strong > 0
  PROVE  /\ Released(i) \in Inner
         /\ Released(i).strong = i.strong - 1
         /\ i.strong > 1 =>
              /\ Released(i).finished = i.finished /\ Released(i).result = i.result
              /\ Released(i).waker = i.waker /\ Released(i).data = i.data
<1>1. CASE i.strong = 1
  <2>1. Released(i) = Freed
    BY <1>1 DEF Released
  <2>2. QED
    BY <1>1, <2>1 DEF Freed, Inner
<1>2. CASE i.strong # 1
  <2>1. Released(i) = [i EXCEPT !.strong = @ - 1]
    BY <1>2 DEF Released
  <2>2. QED
    BY <1>2, <2>1 DEF Inner
<1>3. QED
  BY <1>1, <1>2

LEMMA NotifiedFields ==
  ASSUME NEW i \in Inner, NEW res \in Results
  PROVE  /\ Notified(i, res) \in Inner
         /\ Notified(i, res).strong = i.strong
         /\ Notified(i, res).finished /\ Notified(i, res).result = res
         /\ Notified(i, res).waker = NoTask /\ Notified(i, res).data = i.data
BY DEF Notified, Inner

LEMMA TrackedFields ==
  ASSUME NEW i \in Inner, NEW t \in Tasks
  PROVE  /\ Tracked(i, t) \in Inner
         /\ Tracked(i, t).strong = i.strong
         /\ Tracked(i, t).finished = i.finished /\ Tracked(i, t).result = i.result
         /\ Tracked(i, t).waker = t /\ Tracked(i, t).data = i.data
BY DEF Tracked, Inner

LEMMA TakenFields ==
  ASSUME NEW i \in Inner
  PROVE  Taken(i) \in Inner /\ Taken(i).strong = i.strong
BY DEF Taken, Inner

LEMMA ResetFields ==
  ASSUME NEW i \in Inner
  PROVE  /\ Reset(i) \in Inner
         /\ Reset(i).strong = i.strong
         /\ ~Reset(i).finished /\ Reset(i).result = i.result
         /\ Reset(i).waker = i.waker /\ Reset(i).data = i.data
BY DEF Reset, Inner

------------------------------------------------------------------------------
(* What a step leaves as it was *)

(* A future keeps knowing its operation when a step does not touch it. *)
LEMMA KnowsFrame ==
  ASSUME TypeOK, NEW g \in Futs, KnowsItsOp(g),
         reg'[g] = reg[g], state'[g] = state[g], active'[g] = active[g],
         reg[g] # NoAddr =>
           /\ inner'[reg[g]].finished <=> inner[reg[g]].finished
           /\ inner'[reg[g]].data = inner[reg[g]].data
           /\ HasOp(reg[g])' <=> HasOp(reg[g])
  PROVE  KnowsItsOp(g)'
BY DEF KnowsItsOp, Asking

(* Where the future is whose operation a task sleeps on. *)
LEMMA SleeperWhere ==
  ASSUME IInv, NEW u \in Tasks \ ready, cur[u] # NoFut, alive
  PROVE  /\ cur[u] \in Futs /\ reg[cur[u]] \in Addrs
         /\ state[cur[u]] \in {"Pending", "Stream"}
         /\ inner[reg[cur[u]]].waker = u
         /\ \E p \in Ops : /\ op[p] # NoOp /\ op[p].stage \in {"sq", "kernel", "cq"}
                          /\ op[p].owner = cur[u] /\ op[p].addr = reg[cur[u]]
<1> USE FuturesAssumption
<1>inv. TypeOK /\ OwnerInv /\ StateInv /\ AwaitInv /\ SleeperIsTracked
  BY DEF IInv
<1>1. IsTracked(u) /\ cur[u] \in Futs
  BY <1>inv DEF SleeperIsTracked, TypeOK
<1>2. PICK p \in Ops : op[p] # NoOp /\ op[p].stage \in {"sq", "kernel", "cq"} /\ op[p].owner = cur[u]
  BY <1>1 DEF IsTracked, OpsAt
<1>3. op[p] \in OpRecord /\ reg[cur[u]] = op[p].addr /\ op[p].addr \in Addrs
  BY <1>inv, <1>1, <1>2 DEF OwnerInv, TypeOK, OpRecord
<1>4. state[cur[u]] \in {"Pending", "Stream"}
  BY <1>inv, <1>1, <1>3 DEF StateInv, KnowsItsOp
<1>5. QED
  BY <1>1, <1>2, <1>3, <1>4 DEF IsTracked

(* A task that sleeps stays tracked when a step keeps its waker and its    *)
(* operation.                                                              *)
LEMMA TrackedFrame ==
  ASSUME IInv, NEW u \in Tasks \ ready, cur[u] # NoFut, alive,
         cur'[u] = cur[u], reg'[cur[u]] = reg[cur[u]],
         inner'[reg[cur[u]]].waker = inner[reg[cur[u]]].waker,
         \A p \in Ops : op[p] # NoOp /\ op[p].owner = cur[u] /\ op[p].stage \in {"sq", "kernel", "cq"} =>
            op'[p] # NoOp /\ op'[p].owner = cur[u] /\ op'[p].stage \in {"sq", "kernel", "cq"}
  PROVE  IsTracked(u)'
BY SleeperWhere DEF IsTracked, OpsAt

(* An operation under way at the registration of a future is its own, and  *)
(* not lost while the reactor lives.                                       *)
LEMMA OpIsOwn ==
  ASSUME IInv, NEW f \in Futs, reg[f] \in Addrs, HasOp(reg[f])
  PROVE  \E p \in Ops : /\ op[p] # NoOp /\ op[p].owner = f /\ op[p].addr = reg[f]
                        /\ alive => op[p].stage \in {"sq", "kernel", "cq"}
<1>inv. TypeOK /\ OwnerInv /\ ResultInv
  BY DEF IInv
<1>1. PICK p \in Ops : op[p] # NoOp /\ op[p].addr = reg[f]
  BY DEF HasOp
<1>2. op[p].owner = f /\ op[p] \in OpRecord
  BY <1>inv, <1>1 DEF OwnerInv, TypeOK
<1>3. alive => op[p].stage \in {"sq", "kernel", "cq"}
  BY <1>inv, <1>1, <1>2 DEF ResultInv, OpRecord
<1>4. QED
  BY <1>1, <1>2, <1>3

(* A closure that is dropped uncalled leaves the registration as it was. *)
LEMMA ClosureDroppedSame ==
  ASSUME NEW i \in Inner, i.strong > 0
  PROVE  ClosureDropped(i) = i
<1>1. i.strong \in Nat /\ Cloned(i).strong = i.strong + 1 /\ Cloned(i) \in Inner
  BY ClonedFields DEF Inner
<1>2. ClosureDropped(i) = [Cloned(i) EXCEPT !.strong = @ - 1]
  BY <1>1 DEF ClosureDropped, Released
<1>3. ClosureDropped(i) \in Inner /\ ClosureDropped(i).strong = i.strong
  BY <1>1, <1>2 DEF Inner
<1>4. /\ ClosureDropped(i).finished = i.finished /\ ClosureDropped(i).result = i.result
      /\ ClosureDropped(i).waker = i.waker /\ ClosureDropped(i).data = i.data
  BY <1>1, <1>2, ClonedFields DEF Inner
<1>5. QED
  BY <1>3, <1>4 DEF Inner

(* Steps of tasks that touch no registration and no operation *)
LEMMA QuietStep ==
  ASSUME IInv, UNCHANGED <<inner, reg, active, op, alive, truth>>,
         TypeOK', AwaitInv',
         \A g \in Futs : \/ state'[g] = state[g]
                         \/ /\ g \in Transfers
                            /\ state[g] \notin {"Pending", "Stream"}
                            /\ state'[g] \in {"InitFailed", "Closed"},
         \A u \in Tasks \ ready' : cur'[u] # NoFut => u \notin ready /\ cur'[u] = cur[u]
  PROVE  IInv'
<1> USE FuturesAssumption
<1>inv. TypeOK /\ OwnerInv /\ StateInv /\ ResultInv /\ SleeperIsTracked
  BY DEF IInv
<1>1. OwnerInv' /\ ResultInv'
  BY <1>inv DEF OwnerInv, ResultInv, HasFut, HasOp
<1>2. ASSUME NEW g \in Futs PROVE KnowsItsOp(g)'
  <2>1. KnowsItsOp(g)
    BY <1>inv DEF StateInv
  <2>2. QED
    BY <2>1 DEF KnowsItsOp, Asking, HasOp
<1>3. StateInv'
  BY <1>inv, <1>2 DEF StateInv, Futs
<1>4. SleeperIsTracked'
  <2> SUFFICES ASSUME NEW u \in Tasks \ ready', cur'[u] # NoFut, alive
               PROVE  IsTracked(u)'
    BY DEF SleeperIsTracked
  <2>1. u \in Tasks \ ready /\ cur'[u] = cur[u] /\ cur[u] # NoFut
    OBVIOUS
  <2>2. QED
    BY <2>1, TrackedFrame
<1>5. QED
  BY <1>1, <1>3, <1>4 DEF IInv

(* Steps that move operations on: neither what they use nor whose they are *)
(* changes.                                                                *)
LEMMA MoveStep ==
  ASSUME IInv, UNCHANGED <<inner, state, reg, active, ready, cur>>,
         TypeOK', ResultInv',
         \A o \in Ops : /\ op'[o] # NoOp <=> op[o] # NoOp
                        /\ op[o] # NoOp => op'[o].addr = op[o].addr /\ op'[o].owner = op[o].owner,
         alive' => alive /\ \A o \in Ops : op[o] # NoOp => op'[o].stage # "lost"
  PROVE  IInv'
<1> USE FuturesAssumption
<1>inv. TypeOK /\ OwnerInv /\ StateInv /\ AwaitInv /\ SleeperIsTracked
  BY DEF IInv
<1>1. \A a : HasOp(a)' <=> HasOp(a)
  BY DEF HasOp
<1>2. OwnerInv'
  BY <1>inv, <1>1 DEF OwnerInv, HasFut
<1>3. AwaitInv'
  BY <1>inv DEF AwaitInv
<1>4. ASSUME NEW g \in Futs PROVE KnowsItsOp(g)'
  BY <1>inv, <1>1, KnowsFrame DEF StateInv
<1>5. StateInv'
  BY <1>inv, <1>4 DEF StateInv
<1>6. SleeperIsTracked'
  <2> SUFFICES ASSUME NEW u \in Tasks \ ready, cur[u] # NoFut, alive'
               PROVE  IsTracked(u)'
    BY DEF SleeperIsTracked
  <2>1. \A p \in Ops : op[p] # NoOp => op'[p].stage \in {"sq", "kernel", "cq"}
    BY DEF TypeOK, OpRecord
  <2>2. QED
    BY <2>1, TrackedFrame
<1>7. QED
  BY <1>2, <1>3, <1>5, <1>6 DEF IInv

------------------------------------------------------------------------------
(* The steps, one by one *)

LEMMA NewTransferStep ==
  ASSUME IInv, NEW t \in Tasks, NEW f \in Transfers, NEW a \in Addrs, NEW o \in Ops,
         NewTransfer(t, f, a, o)
  PROVE  IInv'
<1> USE FuturesAssumption, RegistrationAssumption
<1> f \in Futs
  BY DEF Futs
<1>inv. /\ TypeOK /\ OwnerInv /\ StateInv /\ ResultInv /\ AwaitInv /\ SleeperIsTracked
  BY DEF IInv
<1>1. /\ inner' \in [Addrs -> Inner]
      /\ inner'[a].strong = 2 /\ ~inner'[a].finished /\ inner'[a].data = f
      /\ \A b \in Addrs \ {a} : inner'[b] = inner[b]
  <2>1. NewInner(f) \in Inner /\ Cloned(NewInner(f)) \in Inner
    BY NewFields, ClonedFields
  <2>2. inner' = [inner EXCEPT ![a] = Cloned(NewInner(f))]
    BY DEF NewTransfer
  <2>3. QED
    BY <1>inv, <2>1, <2>2, NewFields, ClonedFields DEF TypeOK
<1>2. /\ op' \in [Ops -> OpRecord \cup {NoOp}]
      /\ op'[o] # NoOp /\ op'[o] \in OpRecord /\ op'[o].addr = a /\ op'[o].stage = "sq" /\ op'[o].owner = f
      /\ op[o] = NoOp
      /\ \A p \in Ops \ {o} : op'[p] = op[p]
  <2>1. [addr |-> a, stage |-> "sq", res |-> NoResult, owner |-> f] \in OpRecord
    BY DEF OpRecord
  <2>2. QED
    BY <1>inv, <2>1 DEF TypeOK, NewTransfer, Submit
<1>3. /\ reg' \in [Futs -> Addrs \cup {NoAddr}]
      /\ reg'[f] = a
      /\ \A g \in Futs \ {f} : reg'[g] = reg[g]
  BY <1>inv DEF TypeOK, NewTransfer
<1>4. /\ state' \in [Futs -> {"none", "Pending", "InitFailed", "Closed", "Stream", "panicked"}]
      /\ state[f] = "none" /\ state'[f] = "Pending"
      /\ \A g \in Futs \ {f} : state'[g] = state[g]
  BY <1>inv DEF TypeOK, NewTransfer
<1>5. /\ truth' \in [Futs -> Results \cup {NoResult}]
      /\ \A g \in Futs \ {f} : truth'[g] = truth[g]
  BY <1>inv DEF TypeOK, NewTransfer, Submit
<1>6. alive /\ alive' = alive /\ ready' = ready /\ cur' = cur /\ active' = active
  BY DEF NewTransfer, Submit, taskVars
<1>7. inner[a].strong = 0
  BY DEF NewTransfer, Free
<1>8. ~HasFut(a) /\ ~HasOp(a) /\ reg[f] = NoAddr
  BY <1>inv, <1>7, <1>4 DEF OwnerInv, StateInv, KnowsItsOp, TypeOK
<1>ty. TypeOK'
  BY <1>inv, <1>1, <1>2, <1>3, <1>4, <1>5, <1>6 DEF TypeOK
<1>ow. OwnerInv'
  BY <1>inv, <1>1, <1>2, <1>3, <1>8 DEF OwnerInv, TypeOK, HasFut, HasOp, OpRecord
<1>st. StateInv'
  <2>1. KnowsItsOp(f)'
    BY <1>inv, <1>1, <1>2, <1>3, <1>4, <1>6 DEF KnowsItsOp, StateInv, HasOp, TypeOK, Asking
  <2>2. ASSUME NEW g \in Futs, g # f PROVE KnowsItsOp(g)'
    <3>1. KnowsItsOp(g) /\ reg'[g] = reg[g] /\ state'[g] = state[g] /\ active'[g] = active[g]
      BY <1>inv, <1>3, <1>4, <1>6, <2>2 DEF StateInv
    <3>2. reg[g] # NoAddr => inner'[reg[g]] = inner[reg[g]] /\ (HasOp(reg[g])' <=> HasOp(reg[g]))
      BY <1>inv, <1>1, <1>2, <1>8, <3>1 DEF TypeOK, HasFut, HasOp
    <3>3. QED
      BY <1>inv, <3>1, <3>2, KnowsFrame
  <2>3. QED
    BY <1>inv, <1>1, <1>2, <1>4, <1>8, <2>1, <2>2 DEF StateInv, HasOp, OpRecord, TypeOK, Futs
<1>re. ResultInv'
  BY <1>inv, <1>1, <1>2, <1>3, <1>5, <1>6, <1>8 DEF OwnerInv, ResultInv, TypeOK, HasFut, HasOp, OpRecord
<1>aw. AwaitInv'
  BY <1>inv, <1>4, <1>6 DEF AwaitInv, TypeOK
<1>sl. SleeperIsTracked'
  <2> SUFFICES ASSUME NEW u \in Tasks \ ready, cur[u] # NoFut
               PROVE  IsTracked(u)'
    BY <1>6 DEF SleeperIsTracked
  <2>1. cur[u] \in Futs /\ reg[cur[u]] \in Addrs /\ cur[u] # f /\ reg[cur[u]] # a
    BY <1>4, <1>6, <1>8, SleeperWhere DEF HasFut
  <2>2. QED
    BY <1>1, <1>2, <1>3, <1>6, <2>1, TrackedFrame
<1>q. QED
  BY <1>ty, <1>ow, <1>st, <1>re, <1>aw, <1>sl DEF IInv

(* new fails: only the state of the future changes, and abort() succeeds. *)
LEMMA NewTransferFailsStep ==
  ASSUME IInv, NEW t \in Tasks, NEW f \in Transfers,
         NewTransferFull(t, f) \/ NewTransferDead(t, f)
  PROVE  IInv'
<1> USE FuturesAssumption, RegistrationAssumption
<1>inv. TypeOK /\ OwnerInv /\ StateInv /\ ResultInv /\ AwaitInv /\ SleeperIsTracked
  BY DEF IInv
<1>1. f \in Futs /\ state[f] = "none" /\ UNCHANGED <<inner, reg, active, op, alive, truth, ready, cur>>
  BY DEF Futs, NewTransferFull, NewTransferDead, taskVars
<1>2. Abortable(ClosureDropped(NewInner(f)))
  <2>1. NewInner(f) \in Inner /\ NewInner(f).strong = 1 /\ NewInner(f).data = f
    BY <1>1, NewFields
  <2>2. ClosureDropped(NewInner(f)) = NewInner(f)
    BY <2>1, ClosureDroppedSame
  <2>3. QED
    BY <1>1, <2>1, <2>2 DEF Abortable
<1>3. state' = [state EXCEPT ![f] = "InitFailed"]
  BY <1>2 DEF NewTransferFull, NewTransferDead
<1>4. TypeOK' /\ AwaitInv'
  BY <1>inv, <1>1, <1>3 DEF TypeOK, AwaitInv
<1>5. QED
  BY <1>inv, <1>1, <1>3, <1>4, QuietStep DEF TypeOK

LEMMA NewPollStep ==
  ASSUME IInv, NEW t \in Tasks, NEW f \in Polls, NEW a \in Addrs, NewPoll(t, f, a)
  PROVE  IInv'
<1> USE FuturesAssumption, RegistrationAssumption
<1> f \in Futs
  BY DEF Futs
<1>inv. TypeOK /\ OwnerInv /\ StateInv /\ ResultInv /\ AwaitInv /\ SleeperIsTracked
  BY DEF IInv
<1>1. /\ inner' \in [Addrs -> Inner]
      /\ inner'[a].strong = 1 /\ ~inner'[a].finished /\ inner'[a].data = f
      /\ \A b \in Addrs \ {a} : inner'[b] = inner[b]
  <2>1. inner' = [inner EXCEPT ![a] = NewInner(f)]
    BY DEF NewPoll
  <2>2. QED
    BY <1>inv, <2>1, NewFields DEF TypeOK
<1>2. /\ reg' \in [Futs -> Addrs \cup {NoAddr}]
      /\ reg'[f] = a
      /\ \A g \in Futs \ {f} : reg'[g] = reg[g]
  BY <1>inv DEF TypeOK, NewPoll
<1>3. /\ state' \in [Futs -> {"none", "Pending", "InitFailed", "Closed", "Stream", "panicked"}]
      /\ state[f] = "none" /\ state'[f] = "Stream"
      /\ \A g \in Futs \ {f} : state'[g] = state[g]
  BY <1>inv DEF TypeOK, NewPoll
<1>4. UNCHANGED <<active, op, alive, truth, ready, cur>>
  BY DEF NewPoll, taskVars
<1>5. inner[a].strong = 0
  BY DEF NewPoll, Free
<1>6. ~HasFut(a) /\ ~HasOp(a) /\ reg[f] = NoAddr /\ ~active[f]
  BY <1>inv, <1>3, <1>5 DEF OwnerInv, StateInv, KnowsItsOp, TypeOK
<1>ty. TypeOK'
  BY <1>inv, <1>1, <1>2, <1>3, <1>4 DEF TypeOK
<1>ow. OwnerInv'
  BY <1>inv, <1>1, <1>2, <1>4, <1>6 DEF OwnerInv, TypeOK, HasFut, HasOp, OpRecord
<1>st. StateInv'
  <2>1. KnowsItsOp(f)'
    BY <1>inv, <1>1, <1>2, <1>3, <1>4, <1>6 DEF KnowsItsOp, HasOp, Asking
  <2>2. ASSUME NEW g \in Futs, g # f PROVE KnowsItsOp(g)'
    <3>1. KnowsItsOp(g) /\ reg'[g] = reg[g] /\ state'[g] = state[g] /\ active'[g] = active[g]
      BY <1>inv, <1>2, <1>3, <1>4, <2>2 DEF StateInv
    <3>2. reg[g] # NoAddr => inner'[reg[g]] = inner[reg[g]] /\ (HasOp(reg[g])' <=> HasOp(reg[g]))
      BY <1>inv, <1>1, <1>4, <1>6, <3>1 DEF TypeOK, HasFut, HasOp
    <3>3. QED
      BY <1>inv, <3>1, <3>2, KnowsFrame
  <2>3. QED
    BY <1>inv, <1>1, <1>3, <1>4, <1>6, <2>1, <2>2 DEF StateInv, HasOp, OpRecord, TypeOK, Futs
<1>re. ResultInv'
  BY <1>inv, <1>1, <1>2, <1>4, <1>6 DEF ResultInv, TypeOK, HasFut
<1>aw. AwaitInv'
  BY <1>inv, <1>3, <1>4 DEF AwaitInv, TypeOK
<1>sl. SleeperIsTracked'
  <2> SUFFICES ASSUME NEW u \in Tasks \ ready, cur[u] # NoFut, alive
               PROVE  IsTracked(u)'
    BY <1>4 DEF SleeperIsTracked
  <2>1. cur[u] \in Futs /\ reg[cur[u]] \in Addrs /\ cur[u] # f /\ reg[cur[u]] # a
    BY <1>3, <1>6, SleeperWhere DEF HasFut
  <2>2. QED
    BY <1>1, <1>2, <1>4, <2>1, TrackedFrame
<1>q. QED
  BY <1>ty, <1>ow, <1>st, <1>re, <1>aw, <1>sl DEF IInv

(* The NotReady branches: the waker of the task that polls is registered,  *)
(* and what it waits for is under way.                                     *)
LEMMA NotReadyStep ==
  ASSUME IInv, NEW t \in Tasks, NEW f \in Futs,
         TransferNotReady(t, f) \/ PollNotReady(t, f)
  PROVE  IInv'
<1> USE FuturesAssumption, RegistrationAssumption
<1>inv. TypeOK /\ OwnerInv /\ StateInv /\ ResultInv /\ AwaitInv /\ SleeperIsTracked
  BY DEF IInv
<1> DEFINE a == reg[f]
<1>1. /\ t \in ready /\ cur[t] = f /\ Asking(f) /\ ~inner[a].finished
      /\ ready' = ready \ {t} /\ UNCHANGED <<state, reg, active, op, alive, truth, cur>>
      /\ inner' = [inner EXCEPT ![a] = Tracked(inner[a], t)]
  BY DEF TransferNotReady, PollNotReady, Polling, Asking, Suspend, futVars
<1>2. a \in Addrs /\ HasOp(a)
  BY <1>inv, <1>1 DEF StateInv, KnowsItsOp, TypeOK, Asking
<1> HIDE DEF a
<1>3. inner[a] \in Inner
  BY <1>inv, <1>2 DEF TypeOK
<1>4. /\ inner' \in [Addrs -> Inner] /\ inner'[a].waker = t
      /\ \A b \in Addrs : b # a => inner'[b] = inner[b]
      /\ \A b \in Addrs : /\ inner'[b].strong = inner[b].strong /\ inner'[b].finished = inner[b].finished
                          /\ inner'[b].result = inner[b].result /\ inner'[b].data = inner[b].data
  <2>1. inner' \in [Addrs -> Inner] /\ inner'[a] = Tracked(inner[a], t)
    BY <1>inv, <1>1, <1>2, <1>3, TrackedFields DEF TypeOK
  <2>2. \A b \in Addrs : b # a => inner'[b] = inner[b]
    BY <1>inv, <1>1 DEF TypeOK
  <2>3. QED
    BY <1>3, <2>1, <2>2, TrackedFields
<1>ty. TypeOK'
  BY <1>inv, <1>1, <1>4 DEF TypeOK
<1>ow. OwnerInv'
  BY <1>inv, <1>1, <1>4 DEF OwnerInv, HasFut, HasOp
<1>st. StateInv'
  <2>1. ASSUME NEW g \in Futs PROVE KnowsItsOp(g)'
    BY <1>inv, <1>1, <1>4, KnowsFrame DEF StateInv, TypeOK, HasOp
  <2>2. QED
    BY <1>inv, <1>1, <1>4, <2>1 DEF StateInv, TypeOK, OpRecord
<1>re. ResultInv'
  BY <1>inv, <1>1, <1>4 DEF ResultInv, TypeOK
<1>aw. AwaitInv'
  BY <1>inv, <1>1 DEF AwaitInv
<1>sl. SleeperIsTracked'
  <2>1. alive => IsTracked(t)'
    BY <1>1, <1>2, <1>4, OpIsOwn DEF IsTracked, OpsAt, a
  <2>2. ASSUME NEW u \in Tasks \ ready, cur[u] # NoFut, alive PROVE IsTracked(u)'
    <3>1. cur[u] \in Futs /\ cur[u] # f /\ reg[cur[u]] \in Addrs
      BY <1>inv, <1>1, <2>2, SleeperWhere DEF AwaitInv
    <3>2. reg[cur[u]] # a
      BY <1>inv, <1>2, <3>1 DEF OwnerInv, a
    <3>3. QED
      BY <1>1, <1>4, <2>2, <3>1, <3>2, TrackedFrame
  <2>3. QED
    BY <1>1, <2>1, <2>2 DEF SleeperIsTracked
<1>q. QED
  BY <1>ty, <1>ow, <1>st, <1>re, <1>aw, <1>sl DEF IInv

(* poll of a transfer gives buffer and file back: no operation is left. *)
LEMMA TransferReadyStep ==
  ASSUME IInv, NEW t \in Tasks, NEW f \in Transfers, TransferReady(t, f)
  PROVE  IInv'
<1> USE FuturesAssumption, RegistrationAssumption
<1> f \in Futs
  BY DEF Futs
<1>inv. TypeOK /\ OwnerInv /\ StateInv /\ ResultInv /\ AwaitInv /\ SleeperIsTracked
  BY DEF IInv
<1> DEFINE a == reg[f]
<1>1. /\ t \in ready /\ cur[t] = f /\ state[f] = "Pending" /\ inner[a].finished
      /\ UNCHANGED <<active, op, alive, truth, ready>>
  BY DEF TransferReady, Polling, Resume
<1>2. /\ inner' = [inner EXCEPT ![a] = Released(Taken(inner[a]))]
      /\ state' = [state EXCEPT ![f] = "Closed"]
      /\ reg' = [reg EXCEPT ![f] = NoAddr]
      /\ cur' = [cur EXCEPT ![t] = NoFut]
  BY DEF TransferReady, Resume
<1>3. a \in Addrs /\ ~HasOp(a) /\ HasFut(a) /\ ~active[f]
  BY <1>inv, <1>1 DEF StateInv, KnowsItsOp, TypeOK, HasOp, HasFut
<1>4. \A g \in Futs : g # f => reg[g] # a
  BY <1>inv, <1>3 DEF OwnerInv
<1> HIDE DEF a
<1>5. inner[a] \in Inner /\ inner[a].strong = 1
  BY <1>inv, <1>3 DEF TypeOK, OwnerInv
<1>6. /\ inner' \in [Addrs -> Inner] /\ inner'[a].strong = 0
      /\ \A b \in Addrs \ {a} : inner'[b] = inner[b]
  <2>1. Taken(inner[a]) \in Inner /\ Taken(inner[a]).strong = 1
    BY <1>5, TakenFields
  <2>2. Released(Taken(inner[a])) \in Inner /\ Released(Taken(inner[a])).strong = 0
    BY <2>1, ReleasedFields
  <2>3. QED
    BY <1>inv, <1>2, <1>3, <2>2 DEF TypeOK
<1>7. /\ reg' \in [Futs -> Addrs \cup {NoAddr}] /\ reg'[f] = NoAddr
      /\ state' \in [Futs -> {"none", "Pending", "InitFailed", "Closed", "Stream", "panicked"}]
      /\ state'[f] = "Closed"
      /\ \A g \in Futs \ {f} : reg'[g] = reg[g] /\ state'[g] = state[g]
  BY <1>inv, <1>2 DEF TypeOK
<1>8. /\ cur' \in [Tasks -> Futs \cup {NoFut}] /\ cur'[t] = NoFut
      /\ \A u \in Tasks \ {t} : cur'[u] = cur[u] /\ cur[u] # f
  BY <1>inv, <1>1, <1>2 DEF TypeOK, AwaitInv
<1>ty. TypeOK'
  BY <1>inv, <1>1, <1>6, <1>7, <1>8 DEF TypeOK
<1>ow. OwnerInv'
  BY <1>inv, <1>1, <1>3, <1>4, <1>6, <1>7 DEF OwnerInv, TypeOK, HasFut, HasOp, OpRecord, a
<1>st. StateInv'
  <2>1. KnowsItsOp(f)'
    BY <1>1, <1>3, <1>7 DEF KnowsItsOp, Asking
  <2>2. ASSUME NEW g \in Futs, g # f PROVE KnowsItsOp(g)'
    <3>1. KnowsItsOp(g) /\ reg'[g] = reg[g] /\ state'[g] = state[g] /\ active'[g] = active[g]
      BY <1>inv, <1>1, <1>7, <2>2 DEF StateInv
    <3>2. reg[g] # NoAddr => inner'[reg[g]] = inner[reg[g]] /\ (HasOp(reg[g])' <=> HasOp(reg[g]))
      BY <1>inv, <1>1, <1>4, <1>6, <2>2, <3>1 DEF TypeOK, HasOp
    <3>3. QED
      BY <1>inv, <3>1, <3>2, KnowsFrame
  <2>3. QED
    BY <1>inv, <1>1, <1>3, <1>6, <1>7, <2>1, <2>2 DEF StateInv, HasOp, OpRecord, TypeOK, Futs
<1>re. ResultInv'
  BY <1>inv, <1>1, <1>4, <1>6, <1>7 DEF ResultInv, TypeOK
<1>aw. AwaitInv'
  BY <1>inv, <1>7, <1>8 DEF AwaitInv, TypeOK
<1>sl. SleeperIsTracked'
  <2> SUFFICES ASSUME NEW u \in Tasks \ ready, cur[u] # NoFut, alive
               PROVE  IsTracked(u)'
    BY <1>1, <1>8 DEF SleeperIsTracked
  <2>1. cur[u] \in Futs /\ reg[cur[u]] \in Addrs /\ cur[u] # f /\ reg[cur[u]] # a /\ cur'[u] = cur[u]
    BY <1>1, <1>4, <1>8, SleeperWhere
  <2>2. QED
    BY <1>1, <1>6, <1>7, <2>1, TrackedFrame
<1>q. QED
  BY <1>ty, <1>ow, <1>st, <1>re, <1>aw, <1>sl DEF IInv

LEMMA TransferFailedStep ==
  ASSUME IInv, NEW t \in Tasks, NEW f \in Transfers, TransferFailed(t, f)
  PROVE  IInv'
<1> USE FuturesAssumption
<1>inv. TypeOK /\ OwnerInv /\ StateInv /\ ResultInv /\ AwaitInv /\ SleeperIsTracked
  BY DEF IInv
<1>1. /\ f \in Futs /\ t \in ready /\ cur[t] = f /\ state[f] = "InitFailed"
      /\ UNCHANGED <<inner, reg, active, op, alive, truth, ready>>
      /\ state' = [state EXCEPT ![f] = "Closed"] /\ cur' = [cur EXCEPT ![t] = NoFut]
  BY DEF Futs, TransferFailed, Polling, Resume
<1>2. TypeOK' /\ AwaitInv'
  BY <1>inv, <1>1 DEF TypeOK, AwaitInv
<1>3. QED
  BY <1>inv, <1>1, <1>2, QuietStep DEF TypeOK

(* A poll that could not be queued drops the closure, and with it the      *)
(* reference that was made for the operation.                              *)
LEMMA PollQueueErrorStep ==
  ASSUME IInv, NEW t \in Tasks, NEW f \in Polls, PollQueueError(t, f)
  PROVE  IInv'
<1> USE FuturesAssumption
<1>inv. TypeOK /\ OwnerInv /\ StateInv /\ ResultInv /\ AwaitInv /\ SleeperIsTracked
  BY DEF IInv
<1>1. /\ f \in Futs /\ t \in ready /\ cur[t] = f /\ state[f] = "Stream"
      /\ UNCHANGED <<state, reg, active, op, alive, truth, ready>>
      /\ inner' = [inner EXCEPT ![reg[f]] = IF alive THEN ClosureDropped(inner[reg[f]]) ELSE inner[reg[f]]]
      /\ cur' = [cur EXCEPT ![t] = NoFut]
  BY DEF Futs, PollQueueError, Polling, Resume, futVars
<1>2. reg[f] \in Addrs /\ inner[reg[f]] \in Inner /\ HasFut(reg[f])
  BY <1>inv, <1>1 DEF StateInv, KnowsItsOp, TypeOK, HasFut
<1>3. inner[reg[f]].strong > 0
  BY <1>inv, <1>2 DEF OwnerInv
<1>4. inner' = inner
  BY <1>inv, <1>1, <1>2, <1>3, ClosureDroppedSame DEF TypeOK
<1>5. TypeOK' /\ AwaitInv'
  BY <1>inv, <1>1, <1>4 DEF TypeOK, AwaitInv
<1>6. QED
  BY <1>inv, <1>1, <1>4, <1>5, QuietStep DEF TypeOK

(* What tasks do besides polling *)
LEMMA OtherwiseStep ==
  ASSUME IInv, NEW t \in Tasks,
         \/ \E f \in Futs : Await(t, f) \/ GiveUp(t, f)
         \/ SleepOtherwise(t) \/ WakeOtherwise(t)
  PROVE  IInv'
<1> USE FuturesAssumption
<1>inv. TypeOK /\ OwnerInv /\ StateInv /\ ResultInv /\ AwaitInv /\ SleeperIsTracked
  BY DEF IInv
<1>1. UNCHANGED <<inner, state, reg, active, op, alive, truth>>
  BY DEF Await, GiveUp, SleepOtherwise, WakeOtherwise, futVars
<1>2. CASE \E f \in Futs : Await(t, f)
  <2>1. PICK f \in Futs : Await(t, f)
    BY <1>2
  <2>2. /\ ready' = ready /\ cur' = [cur EXCEPT ![t] = f] /\ t \in ready
        /\ \A u \in Tasks \ {t} : cur[u] # f
        /\ state[f] \in {"Pending", "InitFailed", "Stream"}
    BY <2>1 DEF Await, AtHand
  <2>3. TypeOK' /\ AwaitInv'
    BY <1>inv, <1>1, <2>2 DEF TypeOK, AwaitInv
  <2>4. QED
    BY <1>inv, <1>1, <2>2, <2>3, QuietStep DEF TypeOK
<1>3. CASE \E f \in Futs : GiveUp(t, f)
  <2>1. ready' = ready /\ cur' = [cur EXCEPT ![t] = NoFut]
    BY <1>3 DEF GiveUp, Resume
  <2>2. TypeOK' /\ AwaitInv'
    BY <1>inv, <1>1, <2>1 DEF TypeOK, AwaitInv
  <2>3. QED
    BY <1>inv, <1>1, <2>1, <2>2, QuietStep DEF TypeOK
<1>4. CASE SleepOtherwise(t)
  <2>1. cur' = cur /\ ready' = ready \ {t} /\ cur[t] = NoFut
    BY <1>4 DEF SleepOtherwise, Suspend
  <2>2. TypeOK' /\ AwaitInv'
    BY <1>inv, <1>1, <2>1 DEF TypeOK, AwaitInv
  <2>3. QED
    BY <1>inv, <1>1, <2>1, <2>2, QuietStep DEF TypeOK
<1>5. CASE WakeOtherwise(t)
  <2>1. cur' = cur /\ ready' = ready \cup {t}
    BY <1>5 DEF WakeOtherwise
  <2>2. TypeOK' /\ AwaitInv'
    BY <1>inv, <1>1, <2>1 DEF TypeOK, AwaitInv
  <2>3. QED
    BY <1>inv, <1>1, <2>1, <2>2, QuietStep DEF TypeOK
<1>6. QED
  BY <1>2, <1>3, <1>4, <1>5

LEMMA PollQueueStep ==
  ASSUME IInv, NEW t \in Tasks, NEW f \in Polls, NEW o \in Ops, PollQueue(t, f, o)
  PROVE  IInv'
<1> USE FuturesAssumption, RegistrationAssumption
<1> f \in Futs
  BY DEF Futs
<1>inv. TypeOK /\ OwnerInv /\ StateInv /\ ResultInv /\ AwaitInv /\ SleeperIsTracked
  BY DEF IInv
<1> DEFINE a == reg[f]
<1>1. /\ t \in ready /\ cur[t] = f /\ state[f] = "Stream" /\ ~active[f] /\ alive
      /\ ready' = ready \ {t} /\ UNCHANGED <<state, reg, alive, cur>>
  BY DEF PollQueue, Polling, Submit, Suspend
<1>2. /\ inner' = [inner EXCEPT ![a] = Queued(inner[a], t)]
      /\ active' = [active EXCEPT ![f] = TRUE]
      /\ op[o] = NoOp
      /\ op' = [op EXCEPT ![o] = [addr |-> a, stage |-> "sq", res |-> NoResult, owner |-> f]]
      /\ truth' = [truth EXCEPT ![f] = NoResult]
  BY DEF PollQueue, Submit
<1>3. a \in Addrs /\ ~HasOp(a) /\ HasFut(a) /\ ~inner[a].finished /\ inner[a].data = f
  BY <1>inv, <1>1 DEF StateInv, KnowsItsOp, TypeOK, HasFut
<1>4. \A g \in Futs : g # f => reg[g] # a
  BY <1>inv, <1>3 DEF OwnerInv
<1>5. inner[a] \in Inner /\ inner[a].strong = 1
  BY <1>inv, <1>3 DEF TypeOK, OwnerInv
<1>6. reg[f] = a
  OBVIOUS
<1> HIDE DEF a
<1>7. /\ inner' \in [Addrs -> Inner] /\ inner'[a].strong = 2 /\ ~inner'[a].finished
      /\ inner'[a].data = f /\ inner'[a].waker = t
      /\ \A b \in Addrs \ {a} : inner'[b] = inner[b]
  <2>1. Cloned(inner[a]) \in Inner /\ Queued(inner[a], t) \in Inner
    BY <1>5, ClonedFields, TrackedFields DEF Queued
  <2>2. /\ Queued(inner[a], t).strong = 2 /\ ~Queued(inner[a], t).finished
        /\ Queued(inner[a], t).data = f /\ Queued(inner[a], t).waker = t
    BY <1>3, <1>5, <2>1, ClonedFields, TrackedFields DEF Queued
  <2>3. QED
    BY <1>inv, <1>2, <1>3, <2>1, <2>2 DEF TypeOK
<1>8. /\ op' \in [Ops -> OpRecord \cup {NoOp}]
      /\ op'[o] # NoOp /\ op'[o] \in OpRecord /\ op'[o].addr = a /\ op'[o].stage = "sq" /\ op'[o].owner = f
      /\ \A p \in Ops \ {o} : op'[p] = op[p]
  <2>1. [addr |-> a, stage |-> "sq", res |-> NoResult, owner |-> f] \in OpRecord
    BY <1>3 DEF OpRecord
  <2>2. QED
    BY <1>inv, <1>2, <2>1 DEF TypeOK
<1>9. /\ active' \in [Futs -> BOOLEAN] /\ active'[f]
      /\ truth' \in [Futs -> Results \cup {NoResult}]
      /\ \A g \in Futs \ {f} : active'[g] = active[g] /\ truth'[g] = truth[g]
  BY <1>inv, <1>2 DEF TypeOK
<1>ty. TypeOK'
  BY <1>inv, <1>1, <1>7, <1>8, <1>9 DEF TypeOK
<1>ow. OwnerInv'
  BY <1>inv, <1>1, <1>2, <1>3, <1>4, <1>6, <1>7, <1>8 DEF OwnerInv, TypeOK, HasFut, HasOp, OpRecord
<1>st. StateInv'
  <2>1. KnowsItsOp(f)'
    BY <1>1, <1>3, <1>6, <1>7, <1>8, <1>9 DEF KnowsItsOp, Asking, HasOp
  <2>2. ASSUME NEW g \in Futs, g # f PROVE KnowsItsOp(g)'
    <3>1. KnowsItsOp(g) /\ reg'[g] = reg[g] /\ state'[g] = state[g] /\ active'[g] = active[g]
      BY <1>inv, <1>1, <1>9, <2>2 DEF StateInv
    <3>2. reg[g] # NoAddr => inner'[reg[g]] = inner[reg[g]] /\ (HasOp(reg[g])' <=> HasOp(reg[g]))
      BY <1>inv, <1>2, <1>4, <1>7, <1>8, <2>2, <3>1 DEF TypeOK, HasOp
    <3>3. QED
      BY <1>inv, <3>1, <3>2, KnowsFrame
  <2>3. QED
    BY <1>inv, <1>1, <1>2, <1>3, <1>7, <1>8, <2>1, <2>2 DEF StateInv, HasOp, OpRecord, TypeOK, Futs
<1>re. ResultInv'
  BY <1>inv, <1>1, <1>3, <1>4, <1>6, <1>7, <1>8, <1>9 DEF ResultInv, OwnerInv, TypeOK, HasOp, OpRecord
<1>aw. AwaitInv'
  BY <1>inv, <1>1 DEF AwaitInv, TypeOK
<1>sl. SleeperIsTracked'
  <2>1. IsTracked(t)'
    BY <1>1, <1>6, <1>7, <1>8 DEF IsTracked, OpsAt
  <2>2. ASSUME NEW u \in Tasks \ ready, cur[u] # NoFut PROVE IsTracked(u)'
    <3>1. cur[u] \in Futs /\ cur[u] # f /\ reg[cur[u]] \in Addrs
      BY <1>inv, <1>1, <2>2, SleeperWhere DEF AwaitInv
    <3>2. QED
      BY <1>1, <1>2, <1>4, <1>7, <1>8, <2>2, <3>1, TrackedFrame
  <2>3. QED
    BY <1>1, <2>1, <2>2 DEF SleeperIsTracked
<1>q. QED
  BY <1>ty, <1>ow, <1>st, <1>re, <1>aw, <1>sl DEF IInv

(* Events are taken out of a stream; the poll returns them, or goes on. *)
LEMMA TakeEventsStep ==
  ASSUME IInv, NEW t \in Tasks, NEW f \in Polls, TakeEvents(t, f),
         Resume(t) \/ UNCHANGED taskVars
  PROVE  IInv'
<1> USE FuturesAssumption, RegistrationAssumption
<1> f \in Futs
  BY DEF Futs
<1>inv. TypeOK /\ OwnerInv /\ StateInv /\ ResultInv /\ AwaitInv /\ SleeperIsTracked
  BY DEF IInv
<1> DEFINE a == reg[f]
<1>1. /\ t \in ready /\ cur[t] = f /\ state[f] = "Stream" /\ active[f] /\ inner[a].finished
      /\ UNCHANGED <<state, reg, op, alive, truth, ready>>
      /\ inner' = [inner EXCEPT ![a] = Reset(inner[a])]
      /\ active' = [active EXCEPT ![f] = FALSE]
      /\ cur' = [cur EXCEPT ![t] = NoFut] \/ cur' = cur
  BY DEF TakeEvents, Polling, Resume, ActiveReset, taskVars
<1>2. a \in Addrs /\ ~HasOp(a)
  BY <1>inv, <1>1 DEF StateInv, KnowsItsOp, TypeOK, HasOp
<1>3. \A g \in Futs : g # f => reg[g] # a
  BY <1>inv, <1>2 DEF OwnerInv
<1>4. reg[f] = a
  OBVIOUS
<1> HIDE DEF a
<1>5. /\ inner' \in [Addrs -> Inner] /\ ~inner'[a].finished
      /\ \A b \in Addrs \ {a} : inner'[b] = inner[b]
      /\ \A b \in Addrs : inner'[b].strong = inner[b].strong /\ inner'[b].data = inner[b].data
  <2>1. inner[a] \in Inner /\ Reset(inner[a]) \in Inner
    BY <1>inv, <1>2, ResetFields DEF TypeOK
  <2>2. /\ Reset(inner[a]).strong = inner[a].strong /\ ~Reset(inner[a]).finished
        /\ Reset(inner[a]).data = inner[a].data
    BY <2>1, ResetFields
  <2>3. QED
    BY <1>inv, <1>1, <1>2, <2>1, <2>2 DEF TypeOK
<1>6. /\ active' \in [Futs -> BOOLEAN] /\ ~active'[f]
      /\ \A g \in Futs \ {f} : active'[g] = active[g]
  BY <1>inv, <1>1 DEF TypeOK
<1>7. /\ cur' \in [Tasks -> Futs \cup {NoFut}] /\ cur'[t] \in {NoFut, f}
      /\ \A u \in Tasks \ {t} : cur'[u] = cur[u] /\ cur[u] # f
  BY <1>inv, <1>1 DEF TypeOK, AwaitInv
<1>ty. TypeOK'
  BY <1>inv, <1>1, <1>5, <1>6, <1>7 DEF TypeOK
<1>ow. OwnerInv'
  BY <1>inv, <1>1, <1>5 DEF OwnerInv, HasFut, HasOp
<1>st. StateInv'
  <2>1. KnowsItsOp(f)'
    BY <1>inv, <1>1, <1>2, <1>4, <1>5, <1>6 DEF StateInv, KnowsItsOp, Asking, HasOp
  <2>2. ASSUME NEW g \in Futs, g # f PROVE KnowsItsOp(g)'
    <3>1. KnowsItsOp(g) /\ reg'[g] = reg[g] /\ state'[g] = state[g] /\ active'[g] = active[g]
      BY <1>inv, <1>1, <1>6, <2>2 DEF StateInv
    <3>2. reg[g] # NoAddr => inner'[reg[g]] = inner[reg[g]] /\ (HasOp(reg[g])' <=> HasOp(reg[g]))
      BY <1>inv, <1>1, <1>3, <1>5, <2>2, <3>1 DEF TypeOK, HasOp
    <3>3. QED
      BY <1>inv, <3>1, <3>2, KnowsFrame
  <2>3. QED
    BY <1>inv, <1>1, <1>2, <1>5, <2>1, <2>2 DEF StateInv, HasOp, OpRecord, TypeOK
<1>re. ResultInv'
  BY <1>inv, <1>1, <1>3, <1>4, <1>5 DEF ResultInv, TypeOK
<1>aw. AwaitInv'
  BY <1>inv, <1>1, <1>7 DEF AwaitInv, TypeOK
<1>sl. SleeperIsTracked'
  <2> SUFFICES ASSUME NEW u \in Tasks \ ready, cur[u] # NoFut, alive
               PROVE  IsTracked(u)'
    BY <1>1, <1>7 DEF SleeperIsTracked
  <2>1. cur[u] \in Futs /\ reg[cur[u]] \in Addrs /\ cur[u] # f /\ reg[cur[u]] # a /\ cur'[u] = cur[u]
    BY <1>1, <1>3, <1>7, SleeperWhere
  <2>2. QED
    BY <1>1, <1>5, <2>1, TrackedFrame
<1>q. QED
  BY <1>ty, <1>ow, <1>st, <1>re, <1>aw, <1>sl DEF IInv

(* Dropping a future gives up its reference; an operation keeps its own,   *)
(* and with it the memory.                                                 *)
LEMMA DropStep ==
  ASSUME IInv, NEW t \in Tasks, NEW f \in Futs, Drop(f), Resume(t),
         \A u \in Tasks \ {t} : cur[u] # f
  PROVE  IInv'
<1> USE FuturesAssumption, RegistrationAssumption
<1>inv. TypeOK /\ OwnerInv /\ StateInv /\ ResultInv /\ AwaitInv /\ SleeperIsTracked
  BY DEF IInv
<1>1. UNCHANGED <<alive, ready>> /\ cur' = [cur EXCEPT ![t] = NoFut]
  BY DEF Drop, Resume
<1>2. /\ inner' = [a \in Addrs |-> IF a = reg[f] THEN Released(inner[a]) ELSE inner[a]]
      /\ state' = [state EXCEPT ![f] = "none"]
      /\ reg' = [reg EXCEPT ![f] = NoAddr]
      /\ active' = [active EXCEPT ![f] = FALSE]
      /\ op' = [o \in Ops |-> IF op[o] # NoOp /\ op[o].owner = f
                                THEN [op[o] EXCEPT !.owner = NoFut] ELSE op[o]]
      /\ truth' = [truth EXCEPT ![f] = NoResult]
  BY DEF Drop, Dropped
<1>3. /\ inner' \in [Addrs -> Inner]
      /\ \A b \in Addrs : b # reg[f] => inner'[b] = inner[b]
      /\ reg[f] \in Addrs =>
           /\ inner'[reg[f]].strong = inner[reg[f]].strong - 1
           /\ HasOp(reg[f]) => /\ inner'[reg[f]].finished = inner[reg[f]].finished
                               /\ inner'[reg[f]].data = inner[reg[f]].data
  <2>1. ASSUME NEW b \in Addrs, b = reg[f]
        PROVE  /\ inner[b] \in Inner /\ inner[b].strong > 0
               /\ HasOp(b) => inner[b].strong > 1
    BY <1>inv, <2>1 DEF TypeOK, OwnerInv, HasFut
  <2>2. ASSUME NEW b \in Addrs, b = reg[f]
        PROVE  /\ inner'[b] \in Inner /\ inner'[b].strong = inner[b].strong - 1
               /\ HasOp(b) => /\ inner'[b].finished = inner[b].finished
                              /\ inner'[b].data = inner[b].data
    BY <1>2, <2>1, <2>2, ReleasedFields
  <2>3. \A b \in Addrs : b # reg[f] => inner'[b] = inner[b] /\ inner'[b] \in Inner
    BY <1>inv, <1>2 DEF TypeOK
  <2>4. inner' \in [Addrs -> Inner]
    BY <1>2, <2>2, <2>3
  <2>5. QED
    BY <2>2, <2>3, <2>4
<1>4. /\ reg' \in [Futs -> Addrs \cup {NoAddr}] /\ reg'[f] = NoAddr
      /\ state' \in [Futs -> {"none", "Pending", "InitFailed", "Closed", "Stream", "panicked"}]
      /\ state'[f] = "none"
      /\ active' \in [Futs -> BOOLEAN] /\ ~active'[f]
      /\ truth' \in [Futs -> Results \cup {NoResult}]
      /\ \A g \in Futs \ {f} : /\ reg'[g] = reg[g] /\ state'[g] = state[g]
                               /\ active'[g] = active[g] /\ truth'[g] = truth[g]
  BY <1>inv, <1>2 DEF TypeOK
<1>5. /\ op' \in [Ops -> OpRecord \cup {NoOp}]
      /\ \A o \in Ops : op'[o] # NoOp <=> op[o] # NoOp
      /\ \A o \in Ops : op[o] # NoOp =>
           /\ op'[o].addr = op[o].addr /\ op'[o].stage = op[o].stage /\ op'[o].res = op[o].res
           /\ op'[o].owner = IF op[o].owner = f THEN NoFut ELSE op[o].owner
  <2>1. ASSUME NEW o \in Ops
        PROVE  /\ op'[o] \in OpRecord \cup {NoOp} /\ (op'[o] # NoOp <=> op[o] # NoOp)
               /\ op[o] # NoOp =>
                    /\ op'[o].addr = op[o].addr /\ op'[o].stage = op[o].stage /\ op'[o].res = op[o].res
                    /\ op'[o].owner = IF op[o].owner = f THEN NoFut ELSE op[o].owner
    <3>1. CASE op[o] # NoOp /\ op[o].owner = f
      <4>1. op[o] \in OpRecord /\ op'[o] = [op[o] EXCEPT !.owner = NoFut]
        BY <1>inv, <1>2, <3>1 DEF TypeOK
      <4>2. /\ op'[o] \in OpRecord /\ op'[o].owner = NoFut
            /\ op'[o].addr = op[o].addr /\ op'[o].stage = op[o].stage /\ op'[o].res = op[o].res
        BY <4>1 DEF OpRecord
      <4>3. QED
        BY <3>1, <4>2
    <3>2. CASE ~(op[o] # NoOp /\ op[o].owner = f)
      BY <1>inv, <1>2, <3>2 DEF TypeOK
    <3>3. QED
      BY <3>1, <3>2
  <2>2. op' \in [Ops -> OpRecord \cup {NoOp}]
    BY <1>2, <2>1
  <2>3. QED
    BY <2>1, <2>2
<1>6. /\ cur' \in [Tasks -> Futs \cup {NoFut}] /\ cur'[t] = NoFut
      /\ \A u \in Tasks \ {t} : cur'[u] = cur[u] /\ cur[u] # f
  BY <1>inv, <1>1 DEF TypeOK
<1>7. /\ \A b : HasOp(b)' <=> HasOp(b)
      /\ \A b \in Addrs : HasFut(b)' <=> HasFut(b) /\ b # reg[f]
      /\ \A g \in Futs : g # f /\ reg[g] = reg[f] => reg[g] = NoAddr
  BY <1>inv, <1>4, <1>5 DEF HasOp, HasFut, OwnerInv, TypeOK
<1>ty. TypeOK'
  BY <1>inv, <1>1, <1>3, <1>4, <1>5, <1>6 DEF TypeOK
<1>ow. OwnerInv'
  <2>1. ASSUME NEW b \in Addrs
        PROVE  (/\ HasFut(b) /\ HasOp(b) => inner[b].strong = 2
                /\ HasFut(b) /\ ~HasOp(b) => inner[b].strong = 1
                /\ ~HasFut(b) /\ HasOp(b) => inner[b].strong = 1
                /\ ~HasFut(b) /\ ~HasOp(b) => inner[b].strong = 0)'
    <3>1. HasFut(reg[f])
      BY DEF HasFut
    <3>2. QED
      BY <1>inv, <1>3, <1>7, <3>1 DEF OwnerInv
  <2>2. /\ \A g, h \in Futs : reg'[g] = reg'[h] /\ reg'[g] # NoAddr => g = h
        /\ \A o, p \in Ops :
             op'[o] # NoOp /\ op'[p] # NoOp /\ op'[o].addr = op'[p].addr => o = p
    BY <1>inv, <1>4, <1>5 DEF OwnerInv
  <2>3. ASSUME NEW o \in Ops, NEW g \in Futs, op'[o] # NoOp
        PROVE  op'[o].owner = g <=> reg'[g] = op'[o].addr
    <3>1. op[o] # NoOp /\ op[o] \in OpRecord /\ op[o].addr \in Addrs
      BY <1>inv, <1>5, <2>3 DEF TypeOK, OpRecord
    <3>2. CASE g = f
      BY <1>4, <1>5, <3>1, <3>2
    <3>3. CASE g # f
      BY <1>inv, <1>4, <1>5, <3>1, <3>3 DEF OwnerInv
    <3>4. QED
      BY <3>2, <3>3
  <2>4. QED
    BY <2>1, <2>2, <2>3 DEF OwnerInv
<1>st. StateInv'
  <2>1. KnowsItsOp(f)'
    BY <1>4 DEF KnowsItsOp, Asking
  <2>2. ASSUME NEW g \in Futs, g # f PROVE KnowsItsOp(g)'
    <3>1. KnowsItsOp(g) /\ reg'[g] = reg[g] /\ state'[g] = state[g] /\ active'[g] = active[g]
      BY <1>inv, <1>4, <2>2 DEF StateInv
    <3>2. reg[g] # NoAddr => inner'[reg[g]] = inner[reg[g]] /\ (HasOp(reg[g])' <=> HasOp(reg[g]))
      <4>1. HasOp(reg[g])' <=> HasOp(reg[g])
        BY <1>7, <3>1 DEF HasOp
      <4>2. QED
        BY <1>inv, <1>3, <1>7, <2>2, <4>1 DEF TypeOK
    <3>3. QED
      BY <1>inv, <3>1, <3>2, KnowsFrame
  <2>3. ASSUME NEW o \in Ops, op'[o] # NoOp
        PROVE  ~inner'[op'[o].addr].finished /\ inner'[op'[o].addr].data # NoData
    <3>1. op[o] # NoOp /\ op[o].addr \in Addrs /\ op'[o].addr = op[o].addr /\ HasOp(op[o].addr)
      BY <1>inv, <1>5, <2>3 DEF TypeOK, OpRecord, HasOp
    <3>2. ~inner[op[o].addr].finished /\ inner[op[o].addr].data # NoData
      BY <1>inv, <3>1 DEF StateInv
    <3>3. QED
      BY <1>3, <3>1, <3>2
  <2>4. QED
    BY <1>inv, <1>4, <2>1, <2>2, <2>3 DEF StateInv, Futs
<1>re. ResultInv'
  <2>1. ASSUME NEW g \in Futs, reg'[g] # NoAddr, inner'[reg'[g]].finished
        PROVE  inner'[reg'[g]].result = truth'[g] /\ truth'[g] \in Results
    <3>1. g # f /\ reg'[g] = reg[g] /\ reg[g] \in Addrs /\ inner'[reg[g]] = inner[reg[g]]
      BY <1>inv, <1>3, <1>4, <1>7, <2>1 DEF TypeOK
    <3>2. QED
      BY <1>inv, <1>4, <2>1, <3>1 DEF ResultInv
  <2>2. \A o \in Ops : op'[o] # NoOp /\ op'[o].stage = "cq" =>
          op'[o].res \in Results /\ \A g \in Futs : op'[o].owner = g => op'[o].res = truth'[g]
    BY <1>inv, <1>4, <1>5 DEF ResultInv
  <2>3. \A o \in Ops : op'[o] # NoOp =>
          IF alive' THEN op'[o].stage # "lost" ELSE op'[o].stage \in {"kernel", "lost"}
    BY <1>inv, <1>1, <1>5 DEF ResultInv
  <2>4. QED
    BY <2>1, <2>2, <2>3 DEF ResultInv
<1>aw. AwaitInv'
  BY <1>inv, <1>4, <1>6 DEF AwaitInv, TypeOK
<1>sl. SleeperIsTracked'
  <2> SUFFICES ASSUME NEW u \in Tasks \ ready, u # t, cur[u] # NoFut, alive
               PROVE  IsTracked(u)'
    BY <1>1, <1>6 DEF SleeperIsTracked
  <2>1. cur[u] \in Futs /\ reg[cur[u]] \in Addrs /\ cur[u] # f /\ cur'[u] = cur[u]
    BY <1>1, <1>6, SleeperWhere
  <2>2. reg[cur[u]] # reg[f]
    BY <1>7, <2>1
  <2>3. QED
    BY <1>1, <1>3, <1>4, <1>5, <2>1, <2>2, TrackedFrame
<1>q. QED
  BY <1>ty, <1>ow, <1>st, <1>re, <1>aw, <1>sl DEF IInv

(* A completion notifies the future that owns the registration, or frees   *)
(* the registration of a future that was dropped.                          *)
LEMMA HandleCompletionStep ==
  ASSUME IInv, NEW o \in Ops, HandleCompletion(o)
  PROVE  IInv'
<1> USE FuturesAssumption, RegistrationAssumption
<1>inv. TypeOK /\ OwnerInv /\ StateInv /\ ResultInv /\ AwaitInv /\ SleeperIsTracked
  BY DEF IInv
<1> DEFINE a == op[o].addr
           res == op[o].res
<1>1. /\ alive /\ UNCHANGED <<state, reg, active, alive, cur, truth>>
      /\ op[o] # NoOp /\ op[o].stage = "cq"
      /\ inner' = [inner EXCEPT ![a] = Released(Notified(inner[a], res))]
      /\ ready' = ready \cup ({inner[a].waker} \ {NoTask})
      /\ op' = [op EXCEPT ![o] = NoOp]
  BY DEF HandleCompletion, Handled, OpsAt, futVars
<1>2. /\ a \in Addrs /\ res \in Results /\ HasOp(a)
      /\ \A g \in Futs : reg[g] = a => res = truth[g]
  BY <1>inv, <1>1 DEF TypeOK, OpRecord, ResultInv, OwnerInv, HasOp
<1>3. \A p \in Ops : p # o /\ op[p] # NoOp => op[p].addr # a
  BY <1>inv, <1>1 DEF OwnerInv
<1> HIDE DEF a, res
<1>4. inner[a] \in Inner /\ inner[a].strong > 0 /\ (HasFut(a) => inner[a].strong = 2)
      /\ (~HasFut(a) => inner[a].strong = 1)
  BY <1>inv, <1>2 DEF TypeOK, OwnerInv
<1>5. /\ inner' \in [Addrs -> Inner]
      /\ inner'[a].strong = inner[a].strong - 1
      /\ HasFut(a) => /\ inner'[a].finished /\ inner'[a].result = res
                      /\ inner'[a].data = inner[a].data
      /\ \A b \in Addrs \ {a} : inner'[b] = inner[b]
  <2> DEFINE n == Notified(inner[a], res)
  <2>1. /\ n \in Inner /\ n.strong = inner[a].strong /\ n.finished
        /\ n.result = res /\ n.data = inner[a].data
    BY <1>2, <1>4, NotifiedFields
  <2> HIDE DEF n
  <2>2. /\ Released(n) \in Inner /\ Released(n).strong = inner[a].strong - 1
        /\ HasFut(a) => /\ Released(n).finished /\ Released(n).result = res
                        /\ Released(n).data = inner[a].data
    BY <1>4, <2>1, ReleasedFields
  <2>3. inner' = [inner EXCEPT ![a] = Released(n)]
    BY <1>1 DEF n
  <2>4. QED
    BY <1>inv, <1>2, <2>2, <2>3 DEF TypeOK
<1>6. /\ op' \in [Ops -> OpRecord \cup {NoOp}] /\ op'[o] = NoOp
      /\ \A p \in Ops \ {o} : op'[p] = op[p]
  BY <1>inv, <1>1 DEF TypeOK
<1>7. \A b \in Addrs : HasOp(b)' <=> HasOp(b) /\ b # a
  BY <1>1, <1>3, <1>6 DEF HasOp, a
<1>8. ready' \subseteq Tasks
  BY <1>inv, <1>1, <1>4 DEF TypeOK, Inner
<1>ty. TypeOK'
  BY <1>inv, <1>1, <1>5, <1>6, <1>8 DEF TypeOK
<1>ow. OwnerInv'
  <2>1. ASSUME NEW b \in Addrs
        PROVE  (/\ HasFut(b) /\ HasOp(b) => inner[b].strong = 2
                /\ HasFut(b) /\ ~HasOp(b) => inner[b].strong = 1
                /\ ~HasFut(b) /\ HasOp(b) => inner[b].strong = 1
                /\ ~HasFut(b) /\ ~HasOp(b) => inner[b].strong = 0)'
    <3>1. HasFut(b)' <=> HasFut(b)
      BY <1>1 DEF HasFut
    <3>2. QED
      BY <1>inv, <1>4, <1>5, <1>7, <3>1 DEF OwnerInv
  <2>2. /\ \A g, h \in Futs : reg'[g] = reg'[h] /\ reg'[g] # NoAddr => g = h
        /\ \A p, q \in Ops :
             op'[p] # NoOp /\ op'[q] # NoOp /\ op'[p].addr = op'[q].addr => p = q
        /\ \A p \in Ops, g \in Futs :
             op'[p] # NoOp => (op'[p].owner = g <=> reg'[g] = op'[p].addr)
    BY <1>inv, <1>1, <1>6 DEF OwnerInv
  <2>3. QED
    BY <2>1, <2>2 DEF OwnerInv
<1>st. StateInv'
  <2>1. ASSUME NEW g \in Futs PROVE KnowsItsOp(g)'
    <3>1. KnowsItsOp(g) /\ reg'[g] = reg[g] /\ state'[g] = state[g] /\ active'[g] = active[g]
      BY <1>inv, <1>1 DEF StateInv
    <3>2. CASE reg[g] = a
      <4>1. HasFut(a) /\ inner'[reg'[g]].finished /\ inner'[reg'[g]].data = g
        BY <1>2, <1>5, <3>1, <3>2 DEF HasFut, KnowsItsOp
      <4>2. ~(state[g] = "Stream" /\ ~active[g])
        BY <1>2, <3>1, <3>2 DEF KnowsItsOp
      <4>3. QED
        BY <3>1, <4>1, <4>2 DEF KnowsItsOp, Asking
    <3>3. CASE reg[g] # a
      <4>1. reg[g] # NoAddr => inner'[reg[g]] = inner[reg[g]] /\ (HasOp(reg[g])' <=> HasOp(reg[g]))
        BY <1>inv, <1>5, <1>7, <3>1, <3>3 DEF TypeOK, HasOp
      <4>2. QED
        BY <1>inv, <3>1, <4>1, KnowsFrame
    <3>4. QED
      BY <3>2, <3>3
  <2>2. ASSUME NEW p \in Ops, op'[p] # NoOp
        PROVE  ~inner'[op'[p].addr].finished /\ inner'[op'[p].addr].data # NoData
    BY <1>inv, <1>3, <1>5, <1>6, <2>2 DEF StateInv, TypeOK, OpRecord
  <2>3. QED
    BY <1>inv, <1>1, <2>1, <2>2 DEF StateInv
<1>re. ResultInv'
  <2>1. ASSUME NEW g \in Futs, reg'[g] # NoAddr, inner'[reg'[g]].finished
        PROVE  inner'[reg'[g]].result = truth'[g] /\ truth'[g] \in Results
    <3>1. CASE reg[g] = a
      BY <1>1, <1>2, <1>5, <3>1 DEF HasFut
    <3>2. CASE reg[g] # a
      BY <1>inv, <1>1, <1>5, <2>1, <3>2 DEF TypeOK, ResultInv
    <3>3. QED
      BY <3>1, <3>2
  <2>2. QED
    BY <1>inv, <1>1, <1>6, <2>1 DEF ResultInv
<1>aw. AwaitInv'
  BY <1>inv, <1>1 DEF AwaitInv
<1>sl. SleeperIsTracked'
  <2> SUFFICES ASSUME NEW u \in Tasks \ ready', cur[u] # NoFut
               PROVE  IsTracked(u)'
    BY <1>1 DEF SleeperIsTracked
  <2>1. u \in Tasks \ ready /\ inner[a].waker # u
    BY <1>1
  <2>2. cur[u] \in Futs /\ reg[cur[u]] \in Addrs /\ reg[cur[u]] # a
    BY <1>1, <2>1, SleeperWhere
  <2>3. \A p \in Ops : op[p] # NoOp /\ op[p].owner = cur[u] => p # o
    BY <1>inv, <1>1, <2>2 DEF OwnerInv, a
  <2>4. QED
    BY <1>1, <1>5, <1>6, <2>1, <2>2, <2>3, TrackedFrame
<1>q. QED
  BY <1>ty, <1>ow, <1>st, <1>re, <1>aw, <1>sl DEF IInv

(* The reactor goes: memory and its owners stay as they are. *)
LEMMA DropReactorStep ==
  ASSUME IInv, DropReactor
  PROVE  IInv'
<1> USE FuturesAssumption
<1>inv. TypeOK /\ OwnerInv /\ StateInv /\ ResultInv /\ AwaitInv /\ SleeperIsTracked
  BY DEF IInv
<1>1. /\ ~alive' /\ alive' \in BOOLEAN /\ UNCHANGED <<state, reg, active, ready, cur, truth>>
      /\ op' = [o \in Ops |-> IF o \in OpsAt({"sq", "cq"})
                                THEN [op[o] EXCEPT !.stage = "lost"] ELSE op[o]]
  BY DEF DropReactor, futVars, taskVars
<1>2. inner' = inner
  BY <1>inv DEF DropReactor, LeftBehind, TypeOK
<1>3. ASSUME NEW o \in Ops
      PROVE  /\ op'[o] \in OpRecord \cup {NoOp} /\ (op'[o] # NoOp <=> op[o] # NoOp)
             /\ op[o] # NoOp =>
                  /\ op'[o].addr = op[o].addr /\ op'[o].owner = op[o].owner
                  /\ op'[o].stage \in {"kernel", "lost"}
  <2>1. CASE op[o] = NoOp
    BY <1>1, <2>1 DEF OpsAt
  <2>2. CASE op[o] # NoOp
    <3>1. op[o] \in OpRecord /\ alive /\ op[o].stage # "lost"
      BY <1>inv, <2>2 DEF TypeOK, ResultInv, DropReactor
    <3>2. CASE op[o].stage \in {"sq", "cq"}
      <4>1. op'[o] = [op[o] EXCEPT !.stage = "lost"]
        BY <1>1, <2>2, <3>2 DEF OpsAt
      <4>2. op'[o] \in OpRecord /\ op'[o].addr = op[o].addr /\ op'[o].owner = op[o].owner /\ op'[o].stage = "lost"
        BY <3>1, <4>1 DEF OpRecord
      <4>3. QED
        BY <2>2, <4>2
    <3>3. CASE op[o].stage \notin {"sq", "cq"}
      BY <1>1, <2>2, <3>1, <3>3 DEF OpsAt, OpRecord
    <3>4. QED
      BY <3>2, <3>3
  <2>3. QED
    BY <2>1, <2>2
<1>4. TypeOK'
  BY <1>inv, <1>1, <1>2, <1>3 DEF TypeOK
<1>5. ResultInv'
  BY <1>inv, <1>1, <1>2, <1>3 DEF ResultInv
<1>6. QED
  BY <1>1, <1>2, <1>3, <1>4, <1>5, MoveStep

LEMMA KernelTakesStep ==
  ASSUME IInv, NEW o \in Ops, KernelTakes(o)
  PROVE  IInv'
<1> USE FuturesAssumption
<1>inv. TypeOK /\ OwnerInv /\ StateInv /\ ResultInv /\ AwaitInv /\ SleeperIsTracked
  BY DEF IInv
<1>1. /\ UNCHANGED <<inner, state, reg, active, alive, ready, cur, truth>>
      /\ op[o] # NoOp /\ op[o].stage = "sq"
      /\ op' = [op EXCEPT ![o] = [op[o] EXCEPT !.stage = "kernel"]]
  BY DEF KernelTakes, OpsAt, futVars, taskVars
<1>2. op[o] \in OpRecord
  BY <1>inv, <1>1 DEF TypeOK
<1>3. /\ op' \in [Ops -> OpRecord \cup {NoOp}] /\ op'[o] \in OpRecord
      /\ op'[o].addr = op[o].addr /\ op'[o].owner = op[o].owner
      /\ op'[o].res = op[o].res /\ op'[o].stage = "kernel"
      /\ \A p \in Ops \ {o} : op'[p] = op[p]
  <2>1. [op[o] EXCEPT !.stage = "kernel"] \in OpRecord
    BY <1>2 DEF OpRecord
  <2>2. op' \in [Ops -> OpRecord \cup {NoOp}] /\ op'[o] = [op[o] EXCEPT !.stage = "kernel"]
    BY <1>inv, <1>1, <2>1 DEF TypeOK
  <2>3. QED
    BY <1>inv, <1>1, <1>2, <2>1, <2>2 DEF TypeOK, OpRecord
<1>4. TypeOK'
  BY <1>inv, <1>1, <1>3 DEF TypeOK
<1>5. ResultInv'
  BY <1>inv, <1>1, <1>3 DEF ResultInv
<1>6. alive => \A p \in Ops : op[p] # NoOp => op'[p].stage # "lost"
  BY <1>inv, <1>3 DEF ResultInv
<1>7. \A p \in Ops : /\ op'[p] # NoOp <=> op[p] # NoOp
                     /\ op[p] # NoOp => op'[p].addr = op[p].addr /\ op'[p].owner = op[p].owner
  BY <1>1, <1>3
<1>8. QED
  BY <1>1, <1>4, <1>5, <1>6, <1>7, MoveStep

LEMMA KernelCompletesStep ==
  ASSUME IInv, NEW o \in Ops, NEW res \in Results, KernelCompletes(o, res)
  PROVE  IInv'
<1> USE FuturesAssumption
<1>inv. TypeOK /\ OwnerInv /\ StateInv /\ ResultInv /\ AwaitInv /\ SleeperIsTracked
  BY DEF IInv
<1> DEFINE st == IF alive THEN "cq" ELSE "lost"
<1>1. /\ UNCHANGED <<inner, state, reg, active, alive, ready, cur>>
      /\ op[o] # NoOp /\ op[o].stage = "kernel"
      /\ op' = [op EXCEPT ![o] = [op[o] EXCEPT !.stage = st, !.res = res]]
      /\ truth' = [f \in Futs |-> IF f = op[o].owner THEN res ELSE truth[f]]
  BY DEF KernelCompletes, OpsAt, futVars, taskVars
<1>2. op[o] \in OpRecord /\ st \in {"cq", "lost"} /\ (alive => st = "cq") /\ (~alive => st = "lost")
  BY <1>inv, <1>1 DEF TypeOK
<1> HIDE DEF st
<1>3. /\ op' \in [Ops -> OpRecord \cup {NoOp}] /\ op'[o] \in OpRecord
      /\ op'[o].addr = op[o].addr /\ op'[o].owner = op[o].owner
      /\ op'[o].res = res /\ op'[o].stage = st
      /\ \A p \in Ops \ {o} : op'[p] = op[p]
  <2>1. [op[o] EXCEPT !.stage = st, !.res = res] \in OpRecord
    BY <1>2 DEF OpRecord
  <2>2. op' \in [Ops -> OpRecord \cup {NoOp}] /\ op'[o] = [op[o] EXCEPT !.stage = st, !.res = res]
    BY <1>inv, <1>1, <2>1 DEF TypeOK
  <2>3. QED
    BY <1>inv, <1>1, <1>2, <2>1, <2>2 DEF TypeOK, OpRecord
<1>4. /\ truth' \in [Futs -> Results \cup {NoResult}]
      /\ \A f \in Futs : f = op[o].owner => truth'[f] = res
      /\ \A f \in Futs : f # op[o].owner => truth'[f] = truth[f]
  BY <1>inv, <1>1 DEF TypeOK
<1>5. TypeOK'
  BY <1>inv, <1>1, <1>3, <1>4 DEF TypeOK
<1>6. ResultInv'
  <2>1. ASSUME NEW f \in Futs, reg[f] # NoAddr, inner[reg[f]].finished
        PROVE  f # op[o].owner
    BY <1>inv, <1>1, <2>1 DEF OwnerInv, StateInv
  <2>2. ASSUME NEW p \in Ops, NEW f \in Futs, p # o, op[p] # NoOp, op[p].owner = f
        PROVE  f # op[o].owner
    BY <1>inv, <1>1, <2>2 DEF OwnerInv
  <2>3. QED
    BY <1>inv, <1>1, <1>2, <1>3, <1>4, <2>1, <2>2 DEF ResultInv
<1>7. alive => \A p \in Ops : op[p] # NoOp => op'[p].stage # "lost"
  BY <1>inv, <1>2, <1>3 DEF ResultInv
<1>8. \A p \in Ops : /\ op'[p] # NoOp <=> op[p] # NoOp
                     /\ op[p] # NoOp => op'[p].addr = op[p].addr /\ op'[p].owner = op[p].owner
  BY <1>1, <1>3
<1>9. QED
  BY <1>1, <1>5, <1>6, <1>7, <1>8, MoveStep

------------------------------------------------------------------------------
LEMMA InitIInv ==
  ASSUME Init
  PROVE  IInv
<1> USE FuturesAssumption, RegistrationAssumption
<1>1. Freed \in Inner
  BY DEF Freed, Inner
<1>2. TypeOK
  BY <1>1 DEF Init, TypeOK
<1>3. OwnerInv
  BY DEF Init, OwnerInv, HasFut, HasOp, Freed
<1>4. StateInv /\ ResultInv /\ AwaitInv /\ SleeperIsTracked
  BY DEF Init, StateInv, KnowsItsOp, Asking, ResultInv, AwaitInv, SleeperIsTracked, Futs
<1>5. QED
  BY <1>2, <1>3, <1>4 DEF IInv

LEMMA NextIInv ==
  ASSUME IInv, [Next]_vars
  PROVE  IInv'
<1>1. ASSUME NEW t \in Tasks, Create(t) PROVE IInv'
  BY <1>1, NewTransferStep, NewTransferFailsStep, NewPollStep DEF Create
<1>2. ASSUME NEW t \in Tasks, TransferPoll(t) PROVE IInv'
  BY <1>2, NotReadyStep, TransferReadyStep, TransferFailedStep DEF TransferPoll, Futs
<1>3. ASSUME NEW t \in Tasks, StreamPoll(t) PROVE IInv'
  BY <1>3, PollQueueStep, PollQueueErrorStep, NotReadyStep, TakeEventsStep
  DEF StreamPoll, PollReady, Futs
<1>4. ASSUME NEW t \in Tasks, Otherwise(t) PROVE IInv'
  BY <1>4, DropStep, OtherwiseStep DEF Otherwise, DropFuture, AtHand
<1>5. ASSUME NEW o \in Ops, HandleCompletion(o) \/ Kernel(o) PROVE IInv'
  BY <1>5, HandleCompletionStep, KernelTakesStep, KernelCompletesStep DEF Kernel
<1>6. CASE UNCHANGED vars
  <2>1. UNCHANGED <<inner, state, reg, active, op, alive, ready, cur, truth>>
    BY <1>6 DEF vars, futVars, taskVars
  <2>2. QED
    BY <2>1 DEF IInv, TypeOK, OwnerInv, HasFut, HasOp, StateInv, KnowsItsOp, Asking, ResultInv,
               AwaitInv, SleeperIsTracked, IsTracked, OpsAt
<1>7. QED
  BY <1>1, <1>2, <1>3, <1>4, <1>5, <1>6, DropReactorStep DEF Next

(* The invariant holds, whatever the numbers of futures, tasks, addresses, *)
(* operations and places in the queue.                                     *)
THEOREM FuturesIInv == Spec => []IInv
<1>1. Init => IInv
  BY InitIInv
<1>2. IInv /\ [Next]_vars => IInv'
  BY NextIInv
<1>3. QED
  BY <1>1, <1>2, PTL DEF Spec

(* Registrations, futures, operations and tasks stay within their types. *)
THEOREM FuturesTypeOK == Spec => []TypeOK
<1>1. IInv => TypeOK
  BY DEF IInv
<1>2. QED
  BY <1>1, FuturesIInv, PTL

(* The reference count is the number of owners: no registration is freed   *)
(* early and none is kept once its owners are gone.                        *)
THEOREM FuturesCountIsOwners == Spec => []CountIsOwners
<1>1. ASSUME IInv, NEW a \in Addrs
      PROVE  inner[a].strong = Cardinality(FutsOn(a)) + Cardinality(OpsOn(a))
  <2>inv. TypeOK /\ OwnerInv
    BY <1>1 DEF IInv
  <2>1. HasFut(a) => Cardinality(FutsOn(a)) = 1
    <3> SUFFICES ASSUME HasFut(a) PROVE Cardinality(FutsOn(a)) = 1
      OBVIOUS
    <3>1. PICK f \in Futs : reg[f] = a
      BY DEF HasFut
    <3>2. FutsOn(a) = {f}
      BY <2>inv, <3>1, FuturesAssumption DEF FutsOn, OwnerInv
    <3>3. QED
      BY <3>2, FS_Singleton
  <2>2. ~HasFut(a) => Cardinality(FutsOn(a)) = 0
    <3>1. ~HasFut(a) => FutsOn(a) = {}
      BY DEF HasFut, FutsOn
    <3>2. QED
      BY <3>1, FS_EmptySet
  <2>3. HasOp(a) => Cardinality(OpsOn(a)) = 1
    <3> SUFFICES ASSUME HasOp(a) PROVE Cardinality(OpsOn(a)) = 1
      OBVIOUS
    <3>1. PICK o \in Ops : op[o] # NoOp /\ op[o].addr = a
      BY DEF HasOp
    <3>2. OpsOn(a) = {o}
      BY <2>inv, <3>1 DEF OpsOn, OwnerInv
    <3>3. QED
      BY <3>2, FS_Singleton
  <2>4. ~HasOp(a) => Cardinality(OpsOn(a)) = 0
    <3>1. ~HasOp(a) => OpsOn(a) = {}
      BY DEF HasOp, OpsOn
    <3>2. QED
      BY <3>1, FS_EmptySet
  <2>5. QED
    BY <2>inv, <2>1, <2>2, <2>3, <2>4 DEF OwnerInv
<1>2. IInv => CountIsOwners
  BY <1>1 DEF CountIsOwners
<1>3. QED
  BY <1>2, FuturesIInv, PTL

(* Memory that the kernel may use is allocated and not handed back, however *)
(* futures and reactor are dropped.                                        *)
THEOREM FuturesKernelMemoryStays == Spec => []KernelMemoryStays
<1>1. ASSUME IInv, NEW o \in Ops, op[o] # NoOp
      PROVE  inner[op[o].addr].strong > 0 /\ inner[op[o].addr].data # NoData
  <2>1. op[o].addr \in Addrs /\ HasOp(op[o].addr)
    BY <1>1 DEF IInv, TypeOK, OpRecord, HasOp
  <2>2. inner[op[o].addr].strong > 0
    BY <1>1, <2>1 DEF IInv, OwnerInv
  <2>3. QED
    BY <1>1, <2>2 DEF IInv, StateInv
<1>2. IInv => KernelMemoryStays
  BY <1>1 DEF KernelMemoryStays, OpsAt
<1>3. QED
  BY <1>2, FuturesIInv, PTL

(* No assert and no expect of registration.rs fails. *)
THEOREM FuturesNoPanic == Spec => []NoPanic
<1>1. ASSUME IInv, NEW o \in Ops, op[o] # NoOp
      PROVE  inner[op[o].addr].strong > 0 /\ ~inner[op[o].addr].finished
  <2>1. op[o].addr \in Addrs /\ HasOp(op[o].addr)
    BY <1>1 DEF IInv, TypeOK, OpRecord, HasOp
  <2>2. inner[op[o].addr].strong > 0
    BY <1>1, <2>1 DEF IInv, OwnerInv
  <2>3. QED
    BY <1>1, <2>2 DEF IInv, StateInv
<1>2. ASSUME IInv, NEW f \in Futs PROVE state[f] # "panicked"
  BY <1>2 DEF IInv, StateInv, Futs
<1>3. IInv => NoPanic
  BY <1>1, <1>2 DEF NoPanic, OpsAt
<1>4. QED
  BY <1>3, FuturesIInv, PTL

(* AsyncPoll.active says exactly whether a poll or its result is there. *)
THEOREM FuturesActiveIsExact == Spec => []ActiveIsExact
<1>1. ASSUME IInv, NEW f \in Polls
      PROVE  Cardinality(OwnOps(f))
               + (IF reg[f] # NoAddr /\ inner[reg[f]].finished THEN 1 ELSE 0)
             = IF active[f] THEN 1 ELSE 0
  <2> f \in Futs
    BY DEF Futs
  <2>inv. TypeOK /\ OwnerInv /\ StateInv /\ KnowsItsOp(f) /\ state[f] \in {"none", "Stream"}
    BY <1>1 DEF IInv, StateInv
  <2>1. \A o \in Ops : o \in OwnOps(f) <=> op[o] # NoOp /\ op[o].addr = reg[f]
    BY <2>inv DEF OwnOps, OwnerInv
  <2>2. CASE reg[f] # NoAddr /\ HasOp(reg[f])
    <3>1. PICK o \in Ops : op[o] # NoOp /\ op[o].addr = reg[f]
      BY <2>2 DEF HasOp
    <3>2. OwnOps(f) = {o}
      BY <2>inv, <2>1, <3>1 DEF OwnOps, OwnerInv
    <3>3. Cardinality(OwnOps(f)) = 1
      BY <3>2, FS_Singleton
    <3>4. ~inner[reg[f]].finished /\ active[f]
      BY <2>inv, <2>2, <3>1 DEF StateInv, KnowsItsOp
    <3>5. QED
      BY <3>3, <3>4
  <2>3. CASE ~(reg[f] # NoAddr /\ HasOp(reg[f]))
    <3>1. OwnOps(f) = {}
      BY <2>inv, <2>1, <2>3, FuturesAssumption DEF HasOp, OwnOps, TypeOK, OpRecord
    <3>2. Cardinality(OwnOps(f)) = 0
      BY <3>1, FS_EmptySet
    <3>3. (reg[f] # NoAddr /\ inner[reg[f]].finished) <=> active[f]
      BY <2>inv, <2>3 DEF KnowsItsOp, Asking
    <3>4. QED
      BY <3>2, <3>3
  <2>4. QED
    BY <2>2, <2>3
<1>2. IInv => ActiveIsExact
  BY <1>1 DEF ActiveIsExact
<1>3. QED
  BY <1>2, FuturesIInv, PTL

(* A future gets its own buffer and the result of its own last operation,  *)
(* although addresses are used again.                                      *)
THEOREM FuturesResultIsOwn == Spec => []ResultIsOwn
<1>1. IInv => ResultIsOwn
  BY RegistrationAssumption DEF IInv, StateInv, KnowsItsOp, ResultInv, ResultIsOwn
<1>2. QED
  BY <1>1, FuturesIInv, PTL

(* Whoever sleeps on a future is woken by its operation. *)
THEOREM FuturesSleeperIsTracked == Spec => []SleeperIsTracked
<1>1. IInv => SleeperIsTracked
  BY DEF IInv
<1>2. QED
  BY <1>1, FuturesIInv, PTL

------------------------------------------------------------------------------
(* Futures implements Delivery *)

Mine(o, f) == op[o] # NoOp /\ op[o].owner = f

(* How far f has come, read off the state that the invariant allows. *)
Stands(f) ==
  /\ state[f] = "none" => StatusOf(f) = "absent" /\ AnswerOf(f) = NoResult
  /\ state[f] # "none" /\ ~Asking(f) => StatusOf(f) = "idle" /\ AnswerOf(f) = NoResult
  /\ Asking(f) => state[f] # "none" /\ reg[f] # NoAddr
  /\ Asking(f) /\ inner[reg[f]].finished =>
       StatusOf(f) = "answered" /\ AnswerOf(f) = inner[reg[f]].result
  /\ Asking(f) /\ ~inner[reg[f]].finished => \E o \in Ops : Mine(o, f)
  /\ \A o \in Ops : Mine(o, f) =>
       /\ Asking(f) /\ ~inner[reg[f]].finished /\ op[o].addr = reg[f]
       /\ op[o].stage = "cq" => StatusOf(f) = "answered" /\ AnswerOf(f) = op[o].res
       /\ op[o].stage = "lost" => StatusOf(f) = "lost" /\ AnswerOf(f) = NoResult
       /\ op[o].stage \in {"sq", "kernel"} => StatusOf(f) = "waiting" /\ AnswerOf(f) = NoResult
       /\ op[o].stage \in {"sq", "kernel", "cq", "lost"}

AllStand == \A f \in Futs : Stands(f)

LEMMA FutureStands == IInv => AllStand
<1> SUFFICES ASSUME IInv, NEW f \in Futs PROVE Stands(f)
  BY DEF AllStand
<1> USE FuturesAssumption
<1>inv. TypeOK /\ OwnerInv /\ StateInv /\ KnowsItsOp(f)
  BY DEF IInv, StateInv
<1>1. state[f] = "none" => StatusOf(f) = "absent" /\ AnswerOf(f) = NoResult
  BY DEF StatusOf, AnswerOf
<1>2. state[f] # "none" /\ ~Asking(f) => StatusOf(f) = "idle" /\ AnswerOf(f) = NoResult
  BY DEF StatusOf, AnswerOf
<1>3. Asking(f) => state[f] # "none" /\ reg[f] # NoAddr /\ reg[f] \in Addrs
  BY <1>inv DEF KnowsItsOp, Asking, TypeOK
<1>4. ASSUME NEW o \in Ops, Mine(o, f)
      PROVE  /\ Asking(f) /\ ~inner[reg[f]].finished /\ op[o].addr = reg[f]
             /\ OwnOps(f) = {o} /\ op[o].stage \in {"sq", "kernel", "cq", "lost"}
  <2>1. op[o].addr = reg[f] /\ reg[f] \in Addrs /\ HasOp(reg[f]) /\ op[o] \in OpRecord
    BY <1>inv, <1>4 DEF Mine, OwnerInv, TypeOK, OpRecord, HasOp
  <2>2. Asking(f) /\ ~inner[reg[f]].finished
    BY <1>inv, <1>4, <2>1 DEF KnowsItsOp, Asking, Mine, StateInv
  <2>3. OwnOps(f) = {o}
    BY <1>inv, <1>4, <2>1 DEF Mine, OwnOps, OwnerInv
  <2>4. QED
    BY <2>1, <2>2, <2>3 DEF OpRecord
<1>5. ASSUME NEW o \in Ops, Mine(o, f)
      PROVE  /\ op[o].stage = "cq" => StatusOf(f) = "answered" /\ AnswerOf(f) = op[o].res
             /\ op[o].stage = "lost" => StatusOf(f) = "lost" /\ AnswerOf(f) = NoResult
             /\ op[o].stage \in {"sq", "kernel"} => StatusOf(f) = "waiting" /\ AnswerOf(f) = NoResult
  <2>1. \A S : OwnOps(f) \cap OpsAt(S) # {} <=> op[o].stage \in S
    BY <1>4, <1>5 DEF OpsAt, Mine
  <2>2. (CHOOSE p \in OwnOps(f) : TRUE) = o
    BY <1>4, <1>5
  <2>3. /\ state[f] # "none" /\ Asking(f) /\ ~inner[reg[f]].finished /\ OwnOps(f) # {}
    BY <1>3, <1>4, <1>5
  <2>4. /\ op[o].stage = "cq" => StatusOf(f) = "answered"
        /\ op[o].stage = "lost" => StatusOf(f) = "lost"
        /\ op[o].stage \in {"sq", "kernel"} => StatusOf(f) = "waiting"
    BY <2>1, <2>3 DEF StatusOf
  <2>5. QED
    BY <2>2, <2>3, <2>4 DEF AnswerOf
<1>6. Asking(f) /\ inner[reg[f]].finished =>
        StatusOf(f) = "answered" /\ AnswerOf(f) = inner[reg[f]].result
  <2> SUFFICES ASSUME Asking(f), inner[reg[f]].finished
               PROVE  StatusOf(f) = "answered" /\ AnswerOf(f) = inner[reg[f]].result
    OBVIOUS
  <2>1. OwnOps(f) = {}
    BY <1>4 DEF OwnOps, Mine
  <2>2. StatusOf(f) = "answered"
    BY <1>3 DEF StatusOf
  <2>3. QED
    BY <2>1, <2>2 DEF AnswerOf
<1>7. Asking(f) /\ ~inner[reg[f]].finished => \E o \in Ops : Mine(o, f)
  <2>1. Asking(f) /\ ~inner[reg[f]].finished => HasOp(reg[f])
    BY <1>inv DEF KnowsItsOp
  <2>2. QED
    BY <1>3, <2>1, OpIsOwn DEF Mine
<1>8. QED
  BY <1>1, <1>2, <1>3, <1>4, <1>5, <1>6, <1>7 DEF Stands

LEMMA FutureStandsNext == IInv' => AllStand'
BY FutureStands, PTL

(* Both ends of a step *)
LEMMA StandsBoth ==
  ASSUME IInv, IInv', NEW f \in Futs
  PROVE  Stands(f) /\ Stands(f)'
BY FutureStands, FutureStandsNext DEF AllStand

(* A step that f does not notice *)
Kept(f) ==
  /\ state'[f] = state[f] /\ active'[f] = active[f] /\ reg'[f] = reg[f]
  /\ reg[f] # NoAddr => /\ inner'[reg[f]].finished <=> inner[reg[f]].finished
                        /\ inner'[reg[f]].result = inner[reg[f]].result
  /\ \A o \in Ops : Mine(o, f)' <=> Mine(o, f)
  /\ \A o \in Ops : Mine(o, f) =>
       /\ op'[o].res = op[o].res
       /\ op'[o].stage = op[o].stage \/ (op[o].stage = "sq" /\ op'[o].stage = "kernel")

Same(f) == StatusOf(f)' = StatusOf(f) /\ AnswerOf(f)' = AnswerOf(f)

LEMMA KeptSame ==
  ASSUME IInv, IInv', NEW f \in Futs, Kept(f)
  PROVE  Same(f)
<1>1. Stands(f) /\ Stands(f)'
  BY StandsBoth
<1>2. Asking(f)' <=> Asking(f)
  BY DEF Kept, Asking
<1>3. CASE state[f] = "none" \/ ~Asking(f)
  BY <1>1, <1>2, <1>3 DEF Kept, Stands, Same
<1>4. CASE Asking(f) /\ inner[reg[f]].finished
  BY <1>1, <1>2, <1>4 DEF Kept, Stands, Same
<1>5. CASE Asking(f) /\ ~inner[reg[f]].finished
  <2>1. PICK o \in Ops : Mine(o, f)
    BY <1>1, <1>5 DEF Stands
  <2>2. Mine(o, f)' /\ op'[o].res = op[o].res
        /\ (op'[o].stage = op[o].stage \/ (op[o].stage \in {"sq", "kernel"} /\ op'[o].stage \in {"sq", "kernel"}))
    BY <2>1 DEF Kept
  <2>3. QED
    BY <1>1, <2>1, <2>2 DEF Stands, Same
<1>6. QED
  BY <1>1, <1>3, <1>4, <1>5 DEF Stands

(* One future changes. *)
LEMMA BecomeStep ==
  ASSUME NEW f \in Futs, NEW s, NEW r, \A g \in Futs \ {f} : Same(g),
         StatusOf(f)' = s, AnswerOf(f)' = r, alive' = alive
  PROVE  D!Become(f, s, r)
BY DEF D!Become, Same

(* None does. *)
LEMMA StutterStep ==
  ASSUME \A g \in Futs : Same(g), alive' = alive
  PROVE  UNCHANGED D!vars
BY DEF D!vars, Same

(* new, and the first poll of a stream: the future asks. *)
LEMMA SubmitAsks ==
  ASSUME IInv, IInv', NEW f \in Futs, NEW a \in Addrs, NEW o \in Ops, Submit(o, f, a),
         StatusOf(f) \in {"absent", "idle"}, reg'[f] = a, alive' = alive,
         \A g \in Futs \ {f} : state'[g] = state[g] /\ active'[g] = active[g] /\ reg'[g] = reg[g],
         \A b \in Addrs \ {a} : inner'[b] = inner[b]
  PROVE  D!Ask(f)
<1> USE FuturesAssumption
<1>inv. TypeOK /\ OwnerInv /\ OwnerInv'
  BY DEF IInv
<1>1. /\ alive /\ op[o] = NoOp
      /\ op'[o].addr = a /\ op'[o].stage = "sq" /\ op'[o].owner = f /\ op'[o] # NoOp
      /\ \A p \in Ops \ {o} : op'[p] = op[p]
  <2>1. [addr |-> a, stage |-> "sq", res |-> NoResult, owner |-> f] \in OpRecord
    BY DEF OpRecord
  <2>2. QED
    BY <1>inv, <2>1 DEF Submit, TypeOK
<1>2. ASSUME NEW g \in Futs, g # f PROVE Same(g)
  <2>1. reg[g] # NoAddr => reg[g] \in Addrs \ {a}
    BY <1>inv, <1>2 DEF TypeOK, OwnerInv
  <2>2. \A p \in Ops : Mine(p, g)' <=> Mine(p, g)
    BY <1>1, <1>2 DEF Mine
  <2>3. \A p \in Ops : Mine(p, g) => op'[p] = op[p]
    BY <1>1, <1>2 DEF Mine
  <2>4. Kept(g)
    BY <1>2, <2>1, <2>2, <2>3 DEF Kept
  <2>5. QED
    BY <2>4, KeptSame
<1>3. StatusOf(f)' = "waiting" /\ AnswerOf(f)' = NoResult
  BY <1>1, StandsBoth DEF Stands, Mine
<1>4. QED
  BY <1>1, <1>2, <1>3, BecomeStep DEF D!Ask

LEMMA NewTransferAsks ==
  ASSUME IInv, IInv', NEW t \in Tasks, NEW f \in Transfers, NEW a \in Addrs, NEW o \in Ops,
         NewTransfer(t, f, a, o)
  PROVE  D!Ask(f)
<1>1. f \in Futs /\ TypeOK /\ state[f] = "none"
  BY DEF Futs, IInv, NewTransfer
<1>2. StatusOf(f) = "absent"
  BY <1>1, StandsBoth DEF Stands
<1>3. /\ reg'[f] = a /\ alive' = alive /\ Submit(o, f, a)
      /\ \A g \in Futs \ {f} : state'[g] = state[g] /\ active'[g] = active[g] /\ reg'[g] = reg[g]
      /\ \A b \in Addrs \ {a} : inner'[b] = inner[b]
  BY <1>1 DEF NewTransfer, TypeOK
<1>4. QED
  BY <1>1, <1>2, <1>3, SubmitAsks

LEMMA PollQueueAsks ==
  ASSUME IInv, IInv', NEW t \in Tasks, NEW f \in Polls, NEW o \in Ops, PollQueue(t, f, o)
  PROVE  D!Ask(f)
<1>1. f \in Futs /\ TypeOK /\ StateInv /\ state[f] = "Stream" /\ ~active[f]
  BY DEF Futs, IInv, PollQueue
<1>2. reg[f] \in Addrs
  BY <1>1 DEF StateInv, KnowsItsOp, TypeOK
<1>3. StatusOf(f) = "idle"
  BY <1>1, StandsBoth DEF Stands, Asking
<1>4. /\ reg'[f] = reg[f] /\ alive' = alive /\ Submit(o, f, reg[f])
      /\ \A g \in Futs \ {f} : state'[g] = state[g] /\ active'[g] = active[g] /\ reg'[g] = reg[g]
      /\ \A b \in Addrs \ {reg[f]} : inner'[b] = inner[b]
  BY <1>1 DEF PollQueue, TypeOK
<1>5. QED
  BY <1>1, <1>2, <1>3, <1>4, SubmitAsks

(* Futures that have nothing under way when they are created *)
LEMMA NewFailsComes ==
  ASSUME IInv, IInv', NEW t \in Tasks, NEW f \in Transfers,
         NewTransferFull(t, f) \/ NewTransferDead(t, f)
  PROVE  D!Come(f)
<1>1. /\ f \in Futs /\ state[f] = "none" /\ TypeOK /\ StateInv' /\ StateInv
      /\ UNCHANGED <<inner, reg, active, op, alive>>
  BY DEF Futs, NewTransferFull, NewTransferDead, IInv
<1>2. \A g \in Futs \ {f} : state'[g] = state[g]
  BY <1>1 DEF NewTransferFull, NewTransferDead, TypeOK
<1>3. ~Asking(f)' /\ state'[f] # "none"
  <2>1. state'[f] \in {"InitFailed", "panicked"} /\ ~active[f]
    BY <1>1 DEF NewTransferFull, NewTransferDead, TypeOK, StateInv, KnowsItsOp
  <2>2. QED
    BY <1>1, <2>1 DEF Asking
<1>4. ASSUME NEW g \in Futs, g # f PROVE Same(g)
  <2>1. Kept(g)
    BY <1>1, <1>2, <1>4 DEF Kept, Mine
  <2>2. QED
    BY <2>1, KeptSame
<1>5. StatusOf(f) = "absent" /\ StatusOf(f)' = "idle" /\ AnswerOf(f)' = NoResult
  BY <1>1, <1>3, StandsBoth DEF Stands
<1>6. QED
  BY <1>1, <1>4, <1>5, BecomeStep DEF D!Come

LEMMA NewPollComes ==
  ASSUME IInv, IInv', NEW t \in Tasks, NEW f \in Polls, NEW a \in Addrs, NewPoll(t, f, a)
  PROVE  D!Come(f)
<1> USE FuturesAssumption
<1>1. /\ f \in Futs /\ state[f] = "none" /\ TypeOK /\ OwnerInv' /\ StateInv
      /\ UNCHANGED <<active, op, alive>>
  BY DEF Futs, NewPoll, IInv
<1>2. /\ reg'[f] = a /\ state'[f] = "Stream"
      /\ \A g \in Futs \ {f} : state'[g] = state[g] /\ reg'[g] = reg[g]
      /\ \A b \in Addrs \ {a} : inner'[b] = inner[b]
  BY <1>1 DEF NewPoll, TypeOK
<1>3. ~Asking(f)'
  BY <1>1, <1>2 DEF Asking, StateInv, KnowsItsOp
<1>4. ASSUME NEW g \in Futs, g # f PROVE Same(g)
  <2>1. reg[g] # NoAddr => reg[g] \in Addrs \ {a}
    BY <1>1, <1>2, <1>4 DEF TypeOK, OwnerInv
  <2>2. Kept(g)
    BY <1>1, <1>2, <1>4, <2>1 DEF Kept, Mine
  <2>3. QED
    BY <2>2, KeptSame
<1>5. StatusOf(f) = "absent" /\ StatusOf(f)' = "idle" /\ AnswerOf(f)' = NoResult
  BY <1>1, <1>2, <1>3, StandsBoth DEF Stands
<1>6. QED
  BY <1>1, <1>4, <1>5, BecomeStep DEF D!Come

(* poll of a finished registration takes the answer. *)
LEMMA ReadyTakes ==
  ASSUME IInv, IInv', NEW t \in Tasks, NEW f \in Futs,
         (TransferReady(t, f) /\ f \in Transfers) \/ TakeEvents(t, f)
  PROVE  D!Take(f)
<1> USE FuturesAssumption
<1>1. /\ TypeOK /\ OwnerInv /\ StateInv /\ UNCHANGED <<op, alive>>
      /\ Asking(f) /\ inner[reg[f]].finished
  BY DEF TransferReady, TakeEvents, IInv, Asking
<1>2. /\ \A g \in Futs \ {f} : state'[g] = state[g] /\ reg'[g] = reg[g] /\ active'[g] = active[g]
      /\ \A b \in Addrs \ {reg[f]} : inner'[b] = inner[b]
  BY <1>1 DEF TransferReady, TakeEvents, ActiveReset, TypeOK
<1>3. ~Asking(f)' /\ state'[f] # "none"
  BY <1>1 DEF TransferReady, TakeEvents, ActiveReset, Asking, TypeOK, StateInv, KnowsItsOp
<1>4. ASSUME NEW g \in Futs, g # f PROVE Same(g)
  <2>1. reg[g] # NoAddr => reg[g] \in Addrs \ {reg[f]}
    BY <1>1, <1>4 DEF TypeOK, OwnerInv
  <2>2. Kept(g)
    BY <1>1, <1>2, <1>4, <2>1 DEF Kept, Mine
  <2>3. QED
    BY <2>2, KeptSame
<1>5. StatusOf(f) = "answered" /\ StatusOf(f)' = "idle" /\ AnswerOf(f)' = NoResult
  BY <1>1, <1>3, StandsBoth DEF Stands
<1>6. QED
  BY <1>1, <1>4, <1>5, BecomeStep DEF D!Take

LEMMA DropLeaves ==
  ASSUME IInv, IInv', NEW f \in Futs, Drop(f), state[f] # "none"
  PROVE  D!Leave(f)
<1> USE FuturesAssumption
<1>1. /\ TypeOK /\ OwnerInv /\ alive' = alive /\ state[f] # "none" /\ state'[f] = "none"
  BY DEF Drop, IInv, TypeOK
<1>2. /\ \A g \in Futs \ {f} : state'[g] = state[g] /\ reg'[g] = reg[g] /\ active'[g] = active[g]
      /\ \A b \in Addrs : b # reg[f] => inner'[b] = inner[b]
      /\ \A o \in Ops : op'[o] = IF op[o] # NoOp /\ op[o].owner = f
                                   THEN [op[o] EXCEPT !.owner = NoFut] ELSE op[o]
  BY <1>1 DEF Drop, TypeOK
<1>3. ASSUME NEW g \in Futs, g # f PROVE Same(g)
  <2>1. reg[g] # NoAddr => reg[g] \in Addrs /\ reg[g] # reg[f]
    BY <1>1, <1>3 DEF TypeOK, OwnerInv
  <2>2. ASSUME NEW o \in Ops
        PROVE  (Mine(o, g)' <=> Mine(o, g)) /\ (Mine(o, g) => op'[o] = op[o])
    <3>1. CASE Mine(o, f)
      <4>1. op[o] \in OpRecord /\ op'[o] = [op[o] EXCEPT !.owner = NoFut]
        BY <1>1, <1>2, <3>1 DEF Mine, TypeOK
      <4>2. op'[o].owner = NoFut
        BY <4>1 DEF OpRecord
      <4>3. QED
        BY <1>3, <3>1, <4>2 DEF Mine
    <3>2. CASE ~Mine(o, f)
      BY <1>2, <3>2 DEF Mine
    <3>3. QED
      BY <3>1, <3>2
  <2>3. Kept(g)
    BY <1>2, <1>3, <2>1, <2>2 DEF Kept
  <2>4. QED
    BY <2>3, KeptSame
<1>4. StatusOf(f) # "absent"
  <2>1. Stands(f)
    BY StandsBoth
  <2>2. QED
    BY <1>1, <2>1 DEF Stands
<1>5. StatusOf(f)' = "absent" /\ AnswerOf(f)' = NoResult
  BY <1>1, StandsBoth DEF Stands
<1>6. QED
  BY <1>1, <1>3, <1>4, <1>5, BecomeStep DEF D!Leave

(* Steps of tasks and kernel that no future's status depends on *)
LEMMA UnnoticedSteps ==
  ASSUME IInv, IInv',
         \/ \E t \in Tasks, f \in Futs : \/ TransferNotReady(t, f) \/ PollNotReady(t, f)
                                         \/ (TransferFailed(t, f) /\ f \in Transfers)
                                         \/ PollQueueError(t, f)
                                         \/ Await(t, f) \/ GiveUp(t, f)
         \/ \E t \in Tasks : SleepOtherwise(t) \/ WakeOtherwise(t)
         \/ \E o \in Ops : KernelTakes(o)
         \/ UNCHANGED vars
  PROVE  UNCHANGED D!vars
<1> USE FuturesAssumption
<1>inv. TypeOK /\ TypeOK' /\ OwnerInv /\ StateInv /\ alive' = alive
  BY DEF IInv, TransferNotReady, PollNotReady, TransferFailed, PollQueueError, Await, GiveUp,
         SleepOtherwise, WakeOtherwise, KernelTakes, vars
<1>1. ASSUME NEW t \in Tasks, NEW f \in Futs, TransferNotReady(t, f) \/ PollNotReady(t, f)
      PROVE  \A g \in Futs : Same(g)
  <2>1. /\ UNCHANGED <<state, reg, active, op>>
        /\ inner' = [inner EXCEPT ![reg[f]] = Tracked(inner[reg[f]], t)]
    BY <1>1 DEF TransferNotReady, PollNotReady, futVars
  <2>2. \A b \in Addrs : inner'[b].finished = inner[b].finished /\ inner'[b].result = inner[b].result
    <3>1. \A b \in Addrs : b # reg[f] => inner'[b] = inner[b]
      BY <1>inv, <2>1 DEF TypeOK
    <3>2. reg[f] \in Addrs => inner'[reg[f]] = Tracked(inner[reg[f]], t) /\ inner[reg[f]] \in Inner
      BY <1>inv, <2>1 DEF TypeOK
    <3>3. QED
      BY <3>1, <3>2, TrackedFields
  <2>3. \A g \in Futs : Kept(g)
    BY <1>inv, <2>1, <2>2 DEF Kept, Mine, TypeOK
  <2>4. QED
    BY <2>3, KeptSame
<1>2. ASSUME NEW t \in Tasks, NEW f \in Transfers, TransferFailed(t, f)
      PROVE  \A g \in Futs : Same(g)
  <2>1. /\ UNCHANGED <<inner, reg, active, op>> /\ f \in Futs
        /\ state' = [state EXCEPT ![f] = "Closed"] /\ state[f] = "InitFailed"
    BY <1>2 DEF TransferFailed, Futs
  <2>2. \A g \in Futs \ {f} : Kept(g)
    BY <1>inv, <2>1 DEF Kept, Mine, TypeOK
  <2>3. /\ ~Asking(f) /\ state[f] # "none" /\ ~Asking(f)' /\ state'[f] # "none"
    BY <1>inv, <2>1 DEF Asking, StateInv, KnowsItsOp, TypeOK
  <2>4. Same(f)
    BY <2>1, <2>3, StandsBoth DEF Stands, Same
  <2>5. QED
    BY <2>2, <2>4, KeptSame
<1>3. ASSUME NEW t \in Tasks, NEW f \in Futs, PollQueueError(t, f)
      PROVE  \A g \in Futs : Same(g)
  <2>1. /\ UNCHANGED <<state, reg, active, op>> /\ state[f] = "Stream"
        /\ inner' = [inner EXCEPT ![reg[f]] = IF alive THEN ClosureDropped(inner[reg[f]]) ELSE inner[reg[f]]]
    BY <1>3 DEF PollQueueError, futVars
  <2>2. reg[f] \in Addrs /\ inner[reg[f]] \in Inner /\ HasFut(reg[f])
    BY <1>inv, <2>1 DEF StateInv, KnowsItsOp, TypeOK, HasFut
  <2>3. inner[reg[f]].strong > 0
    BY <1>inv, <2>2 DEF OwnerInv
  <2>4. inner' = inner
    BY <1>inv, <2>1, <2>2, <2>3, ClosureDroppedSame DEF TypeOK
  <2>5. \A g \in Futs : Kept(g)
    BY <2>1, <2>4 DEF Kept, Mine
  <2>6. QED
    BY <2>5, KeptSame
<1>4. ASSUME UNCHANGED <<inner, state, reg, active, op>>
      PROVE  \A g \in Futs : Same(g)
  <2>1. \A g \in Futs : Kept(g)
    BY <1>4 DEF Kept, Mine
  <2>2. QED
    BY <2>1, KeptSame
<1>5. ASSUME NEW o \in Ops, KernelTakes(o)
      PROVE  \A g \in Futs : Same(g)
  <2>1. /\ UNCHANGED <<inner, state, reg, active>>
        /\ op[o] # NoOp /\ op[o].stage = "sq" /\ op[o] \in OpRecord
        /\ op' = [op EXCEPT ![o] = [op[o] EXCEPT !.stage = "kernel"]]
    BY <1>5, <1>inv DEF KernelTakes, OpsAt, futVars, TypeOK
  <2>2. \A p \in Ops \ {o} : op'[p] = op[p]
    BY <1>inv, <2>1 DEF TypeOK
  <2>3. op'[o] = [op[o] EXCEPT !.stage = "kernel"]
    BY <1>inv, <2>1 DEF TypeOK
  <2>4. op'[o] \in OpRecord /\ op'[o].owner = op[o].owner /\ op'[o].res = op[o].res /\ op'[o].stage = "kernel"
    BY <2>1, <2>3 DEF OpRecord
  <2>5. ASSUME NEW g \in Futs PROVE Kept(g)
    BY <2>1, <2>2, <2>4 DEF Kept, Mine
  <2>6. QED
    BY <2>5, KeptSame
<1>6. \A g \in Futs : Same(g)
  BY <1>1, <1>2, <1>3, <1>4, <1>5 DEF Await, GiveUp, SleepOtherwise, WakeOtherwise, vars, futVars
<1>7. QED
  BY <1>inv, <1>6, StutterStep

(* handle_completion: the answer moves from the queue to the registration, *)
(* still the same and for the same future.                                 *)
LEMMA HandleCompletionUnnoticed ==
  ASSUME IInv, IInv', NEW o \in Ops, HandleCompletion(o)
  PROVE  UNCHANGED D!vars
<1> USE FuturesAssumption
<1>inv. TypeOK /\ OwnerInv /\ ResultInv /\ ResultInv' /\ StateInv'
  BY DEF IInv
<1> DEFINE a == op[o].addr
<1>1. /\ UNCHANGED <<state, reg, active, alive, truth>>
      /\ op[o] # NoOp /\ op[o].stage = "cq" /\ a \in Addrs
      /\ \A b \in Addrs \ {a} : inner'[b] = inner[b]
      /\ op'[o] = NoOp /\ \A p \in Ops \ {o} : op'[p] = op[p]
  BY <1>inv DEF HandleCompletion, OpsAt, futVars, TypeOK, OpRecord
<1>2. ASSUME NEW g \in Futs, reg[g] # a PROVE Same(g)
  <2>1. ~Mine(o, g)
    BY <1>inv, <1>1, <1>2 DEF Mine, OwnerInv
  <2>2. \A p \in Ops : (Mine(p, g)' <=> Mine(p, g)) /\ (Mine(p, g) => op'[p] = op[p])
    BY <1>1, <2>1 DEF Mine
  <2>3. reg[g] # NoAddr => reg[g] \in Addrs \ {a}
    BY <1>inv, <1>2 DEF TypeOK
  <2>4. Kept(g)
    BY <1>1, <2>2, <2>3 DEF Kept
  <2>5. QED
    BY <2>4, KeptSame
<1>3. ASSUME NEW g \in Futs, reg[g] = a PROVE Same(g)
  <2>1. Stands(g) /\ Stands(g)' /\ Mine(o, g)
    BY <1>inv, <1>1, <1>3, StandsBoth DEF Mine, OwnerInv
  <2>2. /\ Asking(g) /\ StatusOf(g) = "answered" /\ AnswerOf(g) = op[o].res
        /\ op[o].res = truth[g]
    BY <1>inv, <1>1, <2>1 DEF Stands, Mine, ResultInv
  <2>3. \A p \in Ops : ~Mine(p, g)'
    BY <1>inv, <1>1, <2>1 DEF Mine, OwnerInv
  <2>4. Asking(g)'
    BY <1>1, <2>2 DEF Asking
  <2>5. inner'[reg'[g]].finished /\ reg'[g] # NoAddr
    BY <2>1, <2>3, <2>4 DEF Stands
  <2>6. StatusOf(g)' = "answered" /\ AnswerOf(g)' = inner'[reg'[g]].result
    BY <2>1, <2>4, <2>5 DEF Stands
  <2>7. inner'[reg'[g]].result = truth[g]
    BY <1>inv, <1>1, <2>5 DEF ResultInv
  <2>8. QED
    BY <2>2, <2>6, <2>7 DEF Same
<1>4. QED
  BY <1>1, <1>2, <1>3, StutterStep

(* The kernel answers the future that asked, if it is still there; what it *)
(* answers to a reactor that is gone is lost.                              *)
LEMMA KernelCompletesAnswers ==
  ASSUME IInv, IInv', NEW o \in Ops, NEW res \in Results, KernelCompletes(o, res)
  PROVE  [D!Next]_(D!vars)
<1> USE FuturesAssumption
<1>inv. TypeOK /\ OwnerInv
  BY DEF IInv
<1> DEFINE st == IF alive THEN "cq" ELSE "lost"
<1>1. /\ UNCHANGED <<inner, state, reg, active, alive>>
      /\ op[o] # NoOp /\ op[o].stage = "kernel" /\ op[o] \in OpRecord
      /\ op'[o] = [op[o] EXCEPT !.stage = st, !.res = res]
      /\ \A p \in Ops \ {o} : op'[p] = op[p]
  BY <1>inv DEF KernelCompletes, OpsAt, futVars, TypeOK
<1>2. st \in {"cq", "lost"} /\ (alive => st = "cq") /\ (~alive => st = "lost")
  BY <1>inv DEF TypeOK
<1> HIDE DEF st
<1>3. /\ op'[o] \in OpRecord /\ op'[o].owner = op[o].owner /\ op'[o].res = res /\ op'[o].stage = st
  BY <1>1, <1>2 DEF OpRecord
<1>4. ASSUME NEW g \in Futs, g # op[o].owner PROVE Same(g)
  <2>1. \A p \in Ops : (Mine(p, g)' <=> Mine(p, g)) /\ (Mine(p, g) => op'[p] = op[p])
    BY <1>1, <1>3, <1>4 DEF Mine
  <2>2. Kept(g)
    BY <1>1, <2>1 DEF Kept
  <2>3. QED
    BY <2>2, KeptSame
<1>5. CASE \E g \in Futs : g = op[o].owner
  <2>1. PICK g \in Futs : g = op[o].owner
    BY <1>5
  <2>2. Stands(g) /\ Stands(g)' /\ Mine(o, g) /\ Mine(o, g)'
    BY <1>1, <1>3, <2>1, StandsBoth DEF Mine
  <2>3. StatusOf(g) = "waiting" /\ alive' = alive /\ \A h \in Futs \ {g} : Same(h)
    BY <1>1, <1>4, <2>1, <2>2 DEF Stands
  <2>4. CASE alive
    <3>1. StatusOf(g)' = "answered" /\ AnswerOf(g)' = res
      BY <1>2, <1>3, <2>2, <2>4 DEF Stands
    <3>2. D!Answer(g, res)
      BY <2>3, <2>4, <3>1, BecomeStep DEF D!Answer
    <3>3. QED
      BY <3>2 DEF D!Next
  <2>5. CASE ~alive
    <3>1. StatusOf(g)' = "lost" /\ AnswerOf(g)' = NoResult
      BY <1>2, <1>3, <2>2, <2>5 DEF Stands
    <3>2. D!Lose(g)
      BY <2>3, <2>5, <3>1, BecomeStep DEF D!Lose
    <3>3. QED
      BY <3>2 DEF D!Next
  <2>6. QED
    BY <2>4, <2>5
<1>6. CASE op[o].owner \notin Futs
  BY <1>1, <1>4, <1>6, StutterStep
<1>7. QED
  BY <1>5, <1>6

(* What was queued or completed when the reactor goes is lost. *)
LEMMA DropReactorStops ==
  ASSUME IInv, IInv', DropReactor
  PROVE  D!Next
<1> USE FuturesAssumption
<1>inv. TypeOK /\ OwnerInv /\ ResultInv
  BY DEF IInv
<1> DEFINE S == {f \in Futs : \E o \in Ops : Mine(o, f) /\ op[o].stage \in {"sq", "cq"}}
<1>1. /\ alive /\ alive' = FALSE /\ UNCHANGED <<state, reg, active>>
      /\ op' = [o \in Ops |-> IF o \in OpsAt({"sq", "cq"})
                                THEN [op[o] EXCEPT !.stage = "lost"] ELSE op[o]]
  BY DEF DropReactor, futVars
<1>2. inner' = inner
  BY <1>inv DEF DropReactor, LeftBehind, TypeOK
<1>3. ASSUME NEW o \in Ops, op[o] # NoOp, op[o].stage \in {"sq", "cq"}
      PROVE  op'[o] \in OpRecord /\ op'[o].owner = op[o].owner /\ op'[o].stage = "lost"
  <2>1. op[o] \in OpRecord /\ op'[o] = [op[o] EXCEPT !.stage = "lost"]
    BY <1>inv, <1>1, <1>3 DEF TypeOK, OpsAt
  <2>2. QED
    BY <2>1 DEF OpRecord
<1>4. ASSUME NEW o \in Ops, op[o] = NoOp \/ op[o].stage \notin {"sq", "cq"}
      PROVE  op'[o] = op[o]
  BY <1>1, <1>4 DEF OpsAt
<1>5. ASSUME NEW f \in S
      PROVE  /\ StatusOf(f) \in {"waiting", "answered"}
             /\ StatusOf(f)' = "lost" /\ AnswerOf(f)' = NoResult
  <2>1. PICK o \in Ops : Mine(o, f) /\ op[o].stage \in {"sq", "cq"}
    BY <1>5
  <2>2. Mine(o, f)' /\ op'[o].stage = "lost"
    BY <1>3, <2>1 DEF Mine
  <2>3. Stands(f) /\ Stands(f)'
    BY StandsBoth
  <2>4. QED
    BY <2>1, <2>2, <2>3 DEF Stands
<1>6. ASSUME NEW f \in Futs \ S PROVE Same(f)
  <2>1. \A p \in Ops : Mine(p, f) => op'[p] = op[p]
    BY <1>4, <1>6 DEF Mine
  <2>2. \A p \in Ops : Mine(p, f)' <=> Mine(p, f)
    BY <1>3, <1>4, <2>1 DEF Mine
  <2>3. Kept(f)
    BY <1>1, <1>2, <2>1, <2>2 DEF Kept
  <2>4. QED
    BY <2>3, KeptSame
<1>7. S \in SUBSET Futs
  OBVIOUS
<1> HIDE DEF S
<1>8. D!Stop(S)
  BY <1>1, <1>5, <1>6, <1>7 DEF D!Stop, Same
<1>9. QED
  BY <1>7, <1>8 DEF D!Next

LEMMA InitDelivers ==
  ASSUME Init
  PROVE  D!Init
<1>1. \A f \in Futs : state[f] = "none" /\ alive = TRUE
  BY DEF Init
<1>2. \A f \in Futs : StatusOf(f) = "absent" /\ AnswerOf(f) = NoResult
  BY <1>1 DEF StatusOf, AnswerOf
<1>3. alive = TRUE
  BY DEF Init
<1>4. QED
  BY <1>2, <1>3 DEF D!Init

LEMMA NextDelivers ==
  ASSUME IInv, IInv', [Next]_vars
  PROVE  [D!Next]_(D!vars)
<1>1. ASSUME NEW t \in Tasks, Create(t) PROVE D!Next
  <2>1. ASSUME NEW f \in Futs, D!Ask(f) \/ D!Come(f) PROVE D!Next
    BY <2>1 DEF D!Next
  <2>2. QED
    BY <1>1, <2>1, NewTransferAsks, NewFailsComes, NewPollComes DEF Create, Futs
<1>2. ASSUME NEW t \in Tasks, TransferPoll(t) PROVE [D!Next]_(D!vars)
  <2>1. ASSUME NEW f \in Futs, D!Take(f) PROVE D!Next
    BY <2>1 DEF D!Next
  <2>2. PICK f \in Transfers : TransferNotReady(t, f) \/ TransferReady(t, f) \/ TransferFailed(t, f)
    BY <1>2 DEF TransferPoll
  <2>3. f \in Futs
    BY DEF Futs
  <2>4. CASE TransferReady(t, f)
    BY <2>1, <2>3, <2>4, ReadyTakes
  <2>5. CASE TransferNotReady(t, f) \/ TransferFailed(t, f)
    BY <2>3, <2>5, UnnoticedSteps
  <2>6. QED
    BY <2>2, <2>4, <2>5
<1>3. ASSUME NEW t \in Tasks, StreamPoll(t) PROVE [D!Next]_(D!vars)
  <2>1. ASSUME NEW f \in Futs, D!Take(f) \/ D!Ask(f) PROVE D!Next
    BY <2>1 DEF D!Next
  <2>2. PICK f \in Polls : \/ \E o \in Ops : PollQueue(t, f, o)
                           \/ PollQueueError(t, f) \/ PollNotReady(t, f) \/ PollReady(t, f)
    BY <1>3 DEF StreamPoll
  <2>3. f \in Futs
    BY DEF Futs
  <2>4. CASE \E o \in Ops : PollQueue(t, f, o)
    BY <2>1, <2>3, <2>4, PollQueueAsks
  <2>5. CASE PollReady(t, f)
    BY <2>1, <2>3, <2>5, ReadyTakes DEF PollReady
  <2>6. CASE PollQueueError(t, f) \/ PollNotReady(t, f)
    BY <2>3, <2>6, UnnoticedSteps
  <2>7. QED
    BY <2>2, <2>4, <2>5, <2>6
<1>4. ASSUME NEW t \in Tasks, Otherwise(t) PROVE [D!Next]_(D!vars)
  <2>1. ASSUME NEW f \in Futs, DropFuture(t, f) PROVE D!Next
    BY <2>1, DropLeaves DEF D!Next, DropFuture, AtHand
  <2>2. QED
    BY <1>4, <2>1, UnnoticedSteps DEF Otherwise
<1>5. ASSUME NEW o \in Ops, HandleCompletion(o) \/ Kernel(o) PROVE [D!Next]_(D!vars)
  BY <1>5, HandleCompletionUnnoticed, KernelCompletesAnswers, UnnoticedSteps DEF Kernel
<1>6. CASE UNCHANGED vars
  BY <1>6, UnnoticedSteps
<1>7. QED
  BY <1>1, <1>2, <1>3, <1>4, <1>5, <1>6, DropReactorStops DEF Next

(* Registrations, user_data and handle_completion together deliver every   *)
(* result once, unchanged, to the future that asked for it: Futures        *)
(* implements Delivery.                                                    *)
THEOREM FuturesImplementDelivery == Spec => ImplementsDelivery
<1>1. Init => D!Init
  BY InitDelivers
<1>2. IInv /\ IInv' /\ [Next]_vars => [D!Next]_(D!vars)
  BY NextDelivers
<1>3. QED
  BY <1>1, <1>2, FuturesIInv, PTL DEF Spec, ImplementsDelivery, D!Spec

------------------------------------------------------------------------------
(* The echo server *)

(* Every task has a future of its own; that of the server is a stream. *)
LEMMA OwnFuture ==
  /\ \A t \in Tasks : FutureOf(t) \in Futs
  /\ \A t, u \in Tasks : FutureOf(t) = FutureOf(u) => t = u
  /\ Server \in Tasks /\ FutureOf(Server) = Listener /\ Listener \in Polls /\ Listener \in Futs
  /\ \A c \in Connections : /\ c \in Tasks /\ c # Server /\ FutureOf(c) = TransferOf[c]
                            /\ TransferOf[c] \in Transfers /\ TransferOf[c] \in Futs
                            /\ TransferOf[c] # Listener
BY EchoAssumption, IncomingAssumption, FuturesAssumption DEF FutureOf, Connections, Futs

(* LeftByTimeoutOnly for one operation *)
Accounted(o) ==
  \E t \in Tasks :
    /\ inner[op[o].addr].data = FutureOf(t)
    /\ op[o].owner = NoFut => stage[t] = "expired"

(* A step that changes neither whose the operation is nor its memory *)
OpKept(o) ==
  /\ op[o] # NoOp /\ op'[o].addr = op[o].addr /\ op'[o].owner = op[o].owner
  /\ inner'[op[o].addr].data = inner[op[o].addr].data

OpsKept == \A o \in Ops : op'[o] # NoOp => OpKept(o)

LEMMA AccountedFrame ==
  ASSUME LeftByTimeoutOnly, NEW o \in Ops, OpKept(o),
         \A t \in Tasks : stage[t] = "expired" => stage'[t] = "expired"
  PROVE  Accounted(o)'
BY DEF LeftByTimeoutOnly, OpKept, Accounted

------------------------------------------------------------------------------
(* What the steps of Futures do to the operations under way *)

LEMMA NotReadyKeeps ==
  ASSUME IInv, NEW t \in Tasks, NEW f \in Futs, TransferNotReady(t, f) \/ PollNotReady(t, f)
  PROVE  /\ OpsKept /\ UNCHANGED <<state, reg, active, cur>>
         /\ reg[f] \in Addrs /\ ~inner'[reg[f]].finished
<1> USE FuturesAssumption, RegistrationAssumption
<1>1. /\ state[f] \in {"Pending", "Stream"} /\ ~inner[reg[f]].finished
      /\ inner' = [inner EXCEPT ![reg[f]] = Tracked(inner[reg[f]], t)]
      /\ UNCHANGED <<state, reg, active, op, cur>>
  BY DEF TransferNotReady, PollNotReady, Suspend, futVars
<1>2. reg[f] \in Addrs /\ inner \in [Addrs -> Inner]
  BY <1>1 DEF IInv, TypeOK, StateInv, KnowsItsOp
<1>3. /\ inner'[reg[f]].finished = inner[reg[f]].finished
      /\ \A b \in Addrs : inner'[b].data = inner[b].data
  BY <1>1, <1>2, TrackedFields
<1>4. \A o \in Ops : op[o] # NoOp => op[o].addr \in Addrs
  BY DEF IInv, TypeOK, OpRecord
<1> QED
  BY <1>1, <1>2, <1>3, <1>4 DEF OpsKept, OpKept

LEMMA TransferReadyKeeps ==
  ASSUME IInv, NEW t \in Tasks, NEW f \in Transfers, TransferReady(t, f)
  PROVE  /\ OpsKept /\ state'[f] = "Closed"
         /\ \A g \in Futs \ {f} : state'[g] = state[g]
         /\ active' = active /\ cur' = [cur EXCEPT ![t] = NoFut]
<1> USE FuturesAssumption
<1>0. f \in Futs
  BY DEF Futs
<1>1. /\ state[f] = "Pending" /\ inner[reg[f]].finished
      /\ inner' = [inner EXCEPT ![reg[f]] = Released(Taken(inner[reg[f]]))]
      /\ state' = [state EXCEPT ![f] = "Closed"]
      /\ UNCHANGED <<active, op>> /\ cur' = [cur EXCEPT ![t] = NoFut]
  BY DEF TransferReady, Resume
<1>2. ASSUME NEW o \in Ops, op[o] # NoOp
      PROVE  op[o].addr \in Addrs /\ op[o].addr # reg[f]
  BY <1>1, <1>2 DEF IInv, TypeOK, OpRecord, StateInv
<1> QED
  BY <1>0, <1>1, <1>2 DEF OpsKept, OpKept, IInv, TypeOK

LEMMA TakeEventsKeeps ==
  ASSUME IInv, NEW t \in Tasks, NEW f \in Polls, TakeEvents(t, f)
  PROVE  /\ OpsKept /\ UNCHANGED <<state, reg>> /\ ~active'[f]
         /\ \A g \in Futs \ {f} : active'[g] = active[g]
<1> USE FuturesAssumption
<1>0. f \in Futs
  BY DEF Futs
<1>1. /\ state[f] = "Stream" /\ active' = [active EXCEPT ![f] = FALSE]
      /\ inner' = [inner EXCEPT ![reg[f]] = Reset(inner[reg[f]])]
      /\ UNCHANGED <<state, reg, op>>
  BY DEF TakeEvents, ActiveReset
<1>2. reg[f] \in Addrs /\ inner \in [Addrs -> Inner]
  BY <1>0, <1>1 DEF IInv, TypeOK, StateInv, KnowsItsOp
<1>3. \A b \in Addrs : inner'[b].data = inner[b].data
  BY <1>1, <1>2, ResetFields
<1>4. \A o \in Ops : op[o] # NoOp => op[o].addr \in Addrs
  BY DEF IInv, TypeOK, OpRecord
<1>5. ~active'[f] /\ \A g \in Futs \ {f} : active'[g] = active[g]
  BY <1>0, <1>1 DEF IInv, TypeOK
<1> QED
  BY <1>1, <1>3, <1>4, <1>5 DEF OpsKept, OpKept

LEMMA PollQueueErrorKeeps ==
  ASSUME IInv, NEW t \in Tasks, NEW f \in Polls, PollQueueError(t, f)
  PROVE  OpsKept /\ UNCHANGED <<state, reg, active>> /\ ~active[f]
<1> USE FuturesAssumption
<1>0. f \in Futs
  BY DEF Futs
<1>1. /\ state[f] = "Stream" /\ ~active[f] /\ UNCHANGED <<state, reg, active, op>>
      /\ inner' = [inner EXCEPT ![reg[f]] = IF alive THEN ClosureDropped(inner[reg[f]])
                                                     ELSE inner[reg[f]]]
  BY DEF PollQueueError, futVars
<1>2. reg[f] \in Addrs /\ inner \in [Addrs -> Inner] /\ inner[reg[f]].strong > 0
  BY <1>0, <1>1 DEF IInv, TypeOK, StateInv, KnowsItsOp, OwnerInv, HasFut
<1>3. inner' = inner
  BY <1>1, <1>2, ClosureDroppedSame
<1> QED
  BY <1>1, <1>3 DEF OpsKept, OpKept

(* A new registration is where no operation is. *)
LEMMA FreeHasNoOp ==
  ASSUME IInv, NEW a \in Addrs, Free(a), NEW o \in Ops, op[o] # NoOp
  PROVE  op[o].addr \in Addrs \ {a}
BY DEF IInv, TypeOK, OpRecord, OwnerInv, HasOp, Free

LEMMA NewPollKeeps ==
  ASSUME IInv, NEW t \in Tasks, NEW f \in Polls, NEW a \in Addrs, NewPoll(t, f, a)
  PROVE  /\ OpsKept /\ UNCHANGED <<active, cur>>
         /\ \A g \in Futs \ {f} : state'[g] = state[g]
<1>1. /\ Free(a) /\ inner' = [inner EXCEPT ![a] = NewInner(f)]
      /\ state' = [state EXCEPT ![f] = "Stream"] /\ UNCHANGED <<active, op, cur>>
  BY DEF NewPoll, taskVars
<1>2. \A o \in Ops : op[o] # NoOp => op[o].addr \in Addrs \ {a}
  BY <1>1, FreeHasNoOp
<1> QED
  BY <1>1, <1>2 DEF OpsKept, OpKept, IInv, TypeOK

(* What submit_with adds; the other operations stay. *)
SubmitKeeps(f) ==
  \A o \in Ops : op'[o] # NoOp =>
    OpKept(o) \/ (op'[o].owner = f /\ inner'[op'[o].addr].data = f)

LEMMA NewTransferKeeps ==
  ASSUME IInv, NEW t \in Tasks, NEW f \in Transfers, NEW a \in Addrs, NEW o \in Ops,
         NewTransfer(t, f, a, o)
  PROVE  /\ SubmitKeeps(f) /\ UNCHANGED <<active, cur>> /\ state'[f] = "Pending"
         /\ \A g \in Futs \ {f} : state'[g] = state[g]
<1>0. f \in Futs /\ f \in Contents
  BY FuturesAssumption DEF Futs
<1> DEFINE e == [addr |-> a, stage |-> "sq", res |-> NoResult, owner |-> f]
<1>1. /\ Free(a) /\ op' = [op EXCEPT ![o] = e]
      /\ inner' = [inner EXCEPT ![a] = Cloned(NewInner(f))]
      /\ state' = [state EXCEPT ![f] = "Pending"] /\ UNCHANGED <<active, cur>>
  BY DEF NewTransfer, Submit, taskVars
<1>2. e.addr = a /\ e.owner = f
  OBVIOUS
<1> HIDE DEF e
<1>3. \A p \in Ops : op[p] # NoOp => op[p].addr \in Addrs \ {a}
  BY <1>1, FreeHasNoOp
<1>4. Cloned(NewInner(f)).data = f
  BY <1>0, NewFields, ClonedFields
<1>5. /\ inner'[a].data = f /\ \A b \in Addrs \ {a} : inner'[b] = inner[b]
      /\ op'[o] = e /\ \A p \in Ops \ {o} : op'[p] = op[p]
      /\ state'[f] = "Pending" /\ \A g \in Futs \ {f} : state'[g] = state[g]
  BY <1>0, <1>1, <1>4 DEF IInv, TypeOK
<1> QED
  BY <1>1, <1>2, <1>3, <1>5 DEF SubmitKeeps, OpKept

LEMMA PollQueueKeeps ==
  ASSUME IInv, NEW t \in Tasks, NEW f \in Polls, NEW o \in Ops, PollQueue(t, f, o)
  PROVE  /\ SubmitKeeps(f) /\ UNCHANGED <<state, reg, cur>>
         /\ \A g \in Futs \ {f} : active'[g] = active[g]
         /\ reg[f] \in Addrs /\ ~inner'[reg[f]].finished
<1>0. f \in Futs
  BY DEF Futs
<1> DEFINE a == reg[f]
           e == [addr |-> a, stage |-> "sq", res |-> NoResult, owner |-> f]
<1>1. /\ state[f] = "Stream" /\ ~active[f] /\ op' = [op EXCEPT ![o] = e]
      /\ inner' = [inner EXCEPT ![a] = Queued(inner[a], t)]
      /\ active' = [active EXCEPT ![f] = TRUE] /\ UNCHANGED <<state, reg, cur>>
  BY DEF PollQueue, Submit, Suspend
<1>2. e.addr = a /\ e.owner = f
  OBVIOUS
<1>3. /\ a \in Addrs /\ inner \in [Addrs -> Inner] /\ inner[a].data = f
      /\ ~inner[a].finished
  BY <1>0, <1>1, FuturesAssumption DEF IInv, TypeOK, StateInv, KnowsItsOp
<1> HIDE DEF a, e
<1>4. Queued(inner[a], t).data = f /\ ~Queued(inner[a], t).finished
  BY <1>3, ClonedFields, TrackedFields DEF Queued
<1>5. /\ inner'[a].data = f /\ ~inner'[a].finished
      /\ \A b \in Addrs : inner'[b].data = inner[b].data
      /\ op'[o] = e /\ \A p \in Ops \ {o} : op'[p] = op[p]
      /\ \A g \in Futs \ {f} : active'[g] = active[g]
  BY <1>0, <1>1, <1>3, <1>4 DEF IInv, TypeOK
<1>6. \A p \in Ops : op[p] # NoOp => op[p].addr \in Addrs
  BY DEF IInv, TypeOK, OpRecord
<1> QED
  BY <1>1, <1>2, <1>3, <1>5, <1>6 DEF SubmitKeeps, OpKept, a

LEMMA HandleKeeps ==
  ASSUME IInv, NEW o \in Ops, HandleCompletion(o)
  PROVE  OpsKept /\ UNCHANGED <<state, reg, active, cur>>
<1>1. /\ op[o] # NoOp /\ op' = [op EXCEPT ![o] = NoOp] /\ UNCHANGED <<state, reg, active, cur>>
      /\ inner' = [inner EXCEPT ![op[o].addr] = Handled(inner[op[o].addr], op[o].res)]
  BY DEF HandleCompletion, OpsAt, futVars
<1>2. ASSUME NEW p \in Ops, op'[p] # NoOp PROVE OpKept(p)
  <2>1. p # o /\ op'[p] = op[p] /\ op[p] # NoOp /\ op[p].addr \in Addrs
    BY <1>1, <1>2 DEF IInv, TypeOK, OpRecord
  <2>2. op[p].addr # op[o].addr
    BY <1>1, <2>1 DEF IInv, OwnerInv
  <2> QED BY <1>1, <2>1, <2>2 DEF OpKept, IInv, TypeOK
<1> QED
  BY <1>1, <1>2 DEF OpsKept

LEMMA KernelKeeps ==
  ASSUME IInv, NEW o \in Ops, KernelTakes(o) \/ \E res \in Results : KernelCompletes(o, res)
  PROVE  OpsKept /\ UNCHANGED <<inner, state, reg, active, ready, cur>>
<1>1. UNCHANGED <<inner, state, reg, active, ready, cur>> /\ op[o] # NoOp
  BY DEF KernelTakes, KernelCompletes, OpsAt, futVars, taskVars
<1>2. op[o] \in OpRecord
  BY <1>1 DEF IInv, TypeOK
<1>3. op'[o].addr = op[o].addr /\ op'[o].owner = op[o].owner
  <2>1. CASE KernelTakes(o)
    <3>1. op' = [op EXCEPT ![o] = [op[o] EXCEPT !.stage = "kernel"]]
      BY <2>1 DEF KernelTakes
    <3> QED BY <1>2, <3>1 DEF IInv, TypeOK, OpRecord
  <2>2. ASSUME NEW res \in Results, KernelCompletes(o, res)
        PROVE  op'[o].addr = op[o].addr /\ op'[o].owner = op[o].owner
    <3> DEFINE st == IF alive THEN "cq" ELSE "lost"
    <3>1. op' = [op EXCEPT ![o] = [op[o] EXCEPT !.stage = st, !.res = res]]
      BY <2>2 DEF KernelCompletes
    <3> HIDE DEF st
    <3> QED BY <1>2, <3>1 DEF IInv, TypeOK, OpRecord
  <2> QED BY <2>1, <2>2
<1>4. \A p \in Ops \ {o} : op'[p] = op[p]
  BY DEF KernelTakes, KernelCompletes, IInv, TypeOK
<1> QED
  BY <1>1, <1>3, <1>4 DEF OpsKept, OpKept

(* The drop of a future takes its operation's owner away, and nothing of   *)
(* the memory that the operation uses.                                     *)
LEMMA DropKeeps ==
  ASSUME IInv, NEW f \in Futs, Drop(f)
  PROVE  /\ \A o \in Ops : op'[o] # NoOp =>
              \/ op[o].owner # f /\ OpKept(o)
              \/ /\ op[o] # NoOp /\ op[o].owner = f /\ op[o].addr = reg[f]
                 /\ op'[o].addr = reg[f] /\ inner'[reg[f]].data = f
         /\ state'[f] = "none" /\ ~active'[f] /\ reg'[f] = NoAddr
         /\ \A g \in Futs \ {f} : /\ state'[g] = state[g] /\ active'[g] = active[g]
                                  /\ reg'[g] = reg[g]
<1> USE FuturesAssumption
<1>1. /\ inner' = [a \in Addrs |-> IF a = reg[f] THEN Released(inner[a]) ELSE inner[a]]
      /\ op' = [o \in Ops |-> IF op[o] # NoOp /\ op[o].owner = f
                                THEN [op[o] EXCEPT !.owner = NoFut] ELSE op[o]]
      /\ state' = [state EXCEPT ![f] = "none"] /\ reg' = [reg EXCEPT ![f] = NoAddr]
      /\ active' = [active EXCEPT ![f] = FALSE]
  BY DEF Drop, Dropped
<1>2. ASSUME NEW o \in Ops, op'[o] # NoOp
      PROVE  \/ op[o].owner # f /\ OpKept(o)
             \/ /\ op[o] # NoOp /\ op[o].owner = f /\ op[o].addr = reg[f]
                /\ op'[o].addr = reg[f] /\ inner'[reg[f]].data = f
  <2>1. op[o] # NoOp /\ op[o] \in OpRecord /\ op[o].addr \in Addrs
    BY <1>1, <1>2 DEF IInv, TypeOK, OpRecord
  <2>2. op[o].owner = f <=> reg[f] = op[o].addr
    BY <2>1 DEF IInv, OwnerInv
  <2>3. CASE op[o].owner = f
    <3>1. op'[o].addr = reg[f]
      BY <1>1, <2>1, <2>2, <2>3 DEF OpRecord
    <3>2. inner[reg[f]] \in Inner /\ inner[reg[f]].strong = 2 /\ inner[reg[f]].data = f
      BY <2>1, <2>2, <2>3 DEF IInv, TypeOK, OwnerInv, HasFut, HasOp, StateInv, KnowsItsOp
    <3>3. inner'[reg[f]].data = f
      BY <1>1, <2>1, <2>2, <2>3, <3>2, ReleasedFields
    <3> QED BY <2>1, <2>2, <2>3, <3>1, <3>3
  <2>4. CASE op[o].owner # f
    BY <1>1, <2>1, <2>2, <2>4 DEF OpKept
  <2> QED BY <2>3, <2>4
<1> QED
  BY <1>1, <1>2 DEF IInv, TypeOK

------------------------------------------------------------------------------
(* The steps of Echo *)

(* Only the future and the entries of task t change. *)
OnlyOf(t) ==
  /\ \A g \in Futs \ {FutureOf(t)} : state'[g] = state[g] /\ active'[g] = active[g]
  /\ \A u \in Tasks \ {t} : stage'[u] = stage[u]

(* What a step of the running task t has to show *)
LEMMA TaskFrame ==
  ASSUME EchoIInv, IInv', EchoTypeOK', NEW t \in Tasks, running = t,
         running' \in {t, NoTask}, OnlyOf(t), ListenerInv',
         cur' = cur \/ cur' = [cur EXCEPT ![t] = NoFut] \/ cur' = [cur EXCEPT ![t] = FutureOf(t)],
         \A o \in Ops : op'[o] # NoOp => Accounted(o)',
         t # Server =>
           /\ stage'[t] \in {"read", "write"} => state'[TransferOf[t]] \in {"Pending", "InitFailed"}
           /\ stage'[t] \in {"free", "start", "echo", "closed", "error"} =>
                state'[TransferOf[t]] \in {"none", "Closed"},
         running' = t /\ stage'[t] = "expired" /\ reg'[FutureOf(t)] # NoAddr =>
           ~inner'[reg'[FutureOf(t)]].finished
  PROVE  EchoIInv'
<1> USE OwnFuture
<1>1. OwnFutureInv'
  <2>1. cur \in [Tasks -> Futs \cup {NoFut}] /\ \A u \in Tasks : cur[u] \in {NoFut, FutureOf(u)}
    BY DEF EchoIInv, OwnFutureInv, IInv, TypeOK
  <2>2. \A u \in Tasks : cur'[u] \in {NoFut, FutureOf(u)}
    BY <2>1
  <2> QED BY <2>2 DEF OwnFutureInv, FutureOf
<1>2. ASSUME NEW c \in Connections
      PROVE  /\ stage'[c] \in {"read", "write"} => state'[TransferOf[c]] \in {"Pending", "InitFailed"}
             /\ stage'[c] \in {"free", "start", "echo", "closed", "error"} =>
                  state'[TransferOf[c]] \in {"none", "Closed"}
  <2>1. CASE c = t
    BY <2>1
  <2>2. CASE c # t
    <3>1. TransferOf[c] \in Futs \ {FutureOf(t)} /\ c \in Tasks \ {t}
      BY <2>2
    <3>2. stage'[c] = stage[c] /\ state'[TransferOf[c]] = state[TransferOf[c]]
      BY <3>1 DEF OnlyOf
    <3> QED BY <3>2 DEF EchoIInv, ConnectionInv
  <2> QED BY <2>1, <2>2
<1>3. ConnectionInv'
  BY <1>2 DEF ConnectionInv
<1>4. TimeoutInv'
  BY RegistrationAssumption DEF TimeoutInv
<1>5. LeftByTimeoutOnly'
  BY DEF LeftByTimeoutOnly, Accounted
<1> QED
  BY <1>1, <1>3, <1>4, <1>5 DEF EchoIInv

(* A connection does not touch the listener. *)
LEMMA ListenerFrame ==
  ASSUME EchoIInv, NEW c \in Connections, OnlyOf(c), UNCHANGED netVars
  PROVE  ListenerInv'
<1>1. active'[Listener] = active[Listener] /\ stage'[Server] = stage[Server]
  BY OwnFuture DEF OnlyOf
<1> QED
  BY <1>1 DEF EchoIInv, ListenerInv, netVars

(* The operations, when none of them is left behind *)
LEMMA AllKept ==
  ASSUME EchoIInv, OpsKept,
         \A t \in Tasks : stage[t] = "expired" => stage'[t] = "expired"
  PROVE  \A o \in Ops : op'[o] # NoOp => Accounted(o)'
BY AccountedFrame DEF OpsKept, EchoIInv

LEMMA AllSubmitted ==
  ASSUME EchoIInv, NEW t \in Tasks, SubmitKeeps(FutureOf(t)),
         \A u \in Tasks : stage[u] = "expired" => stage'[u] = "expired"
  PROVE  \A o \in Ops : op'[o] # NoOp => Accounted(o)'
<1> SUFFICES ASSUME NEW o \in Ops, op'[o] # NoOp PROVE Accounted(o)'
  OBVIOUS
<1>1. CASE OpKept(o)
  BY <1>1, AccountedFrame DEF EchoIInv
<1>2. CASE op'[o].owner = FutureOf(t) /\ inner'[op'[o].addr].data = FutureOf(t)
  BY <1>2, OwnFuture, FuturesAssumption DEF Accounted
<1> QED
  BY <1>1, <1>2 DEF SubmitKeeps

(* InnerPending and InnerReady keep the types; a fired delay ends the task. *)
Stages == Ended \cup {"free", "start", "serve", "accepted", "read", "echo", "write"}

LEMMA PendingEffect ==
  ASSUME EchoTypeOK, NEW t \in Tasks, running = t, InnerPending(t)
  PROVE  /\ stage' \in [Tasks -> Stages] /\ delay' \in [Tasks -> {"none", "armed", "fired"}]
         /\ running' \in {t, NoTask}
         /\ stage'[t] \in {stage[t], "expired"}
         /\ \A u \in Tasks \ {t} : stage'[u] = stage[u]
<1>1. delay' \in [Tasks -> {"none", "armed", "fired"}]
  BY DEF EchoTypeOK, InnerPending, DelayPolled
<1>2. \/ stage' = [stage EXCEPT ![t] = "expired"] /\ running' = running
      \/ stage' = stage /\ running' = NoTask
  BY DEF InnerPending
<1> QED
  BY <1>1, <1>2 DEF EchoTypeOK, Stages, Ended

LEMMA ReadyEffect ==
  ASSUME EchoTypeOK, NEW t \in Tasks, running = t, NEW s \in Stages, InnerReady(t, s) \/ Go(t, s)
  PROVE  /\ stage' \in [Tasks -> Stages] /\ delay' \in [Tasks -> {"none", "armed", "fired"}]
         /\ running' = t /\ stage'[t] = s
         /\ \A u \in Tasks \ {t} : stage'[u] = stage[u]
BY DEF EchoTypeOK, Stages, InnerReady, Go

(* StartAwait *)
LEMMA StartAwaitStep ==
  ASSUME EchoIInv, NEW t \in Tasks, StartAwait(t)
  PROVE  EchoIInv'
<1> USE OwnFuture
<1>1. /\ running = t /\ stage[t] \in {"serve", "read", "write"} /\ Await(t, FutureOf(t))
      /\ UNCHANGED <<blocked, backlog, ipc, stage, delay, running>>
  BY DEF StartAwait, At, netVars, echoVars
<1>2. UNCHANGED <<inner, state, reg, active, op>> /\ cur' = [cur EXCEPT ![t] = FutureOf(t)]
  BY <1>1 DEF Await, futVars
<1>3. IInv'
  BY <1>1, OtherwiseStep DEF EchoIInv
<1>4. EchoTypeOK'
  BY <1>1, <1>3 DEF EchoIInv, EchoTypeOK, IncomingTypeOK, IInv
<1>5. OnlyOf(t)
  BY <1>1, <1>2 DEF OnlyOf
<1>6. ListenerInv'
  BY <1>1, <1>2 DEF EchoIInv, ListenerInv
<1>7. \A o \in Ops : op'[o] # NoOp => Accounted(o)'
  <2>1. OpsKept
    BY <1>2 DEF OpsKept, OpKept
  <2> QED BY <1>1, <2>1, AllKept
<1>8. t # Server =>
        /\ stage'[t] \in {"read", "write"} => state'[TransferOf[t]] \in {"Pending", "InitFailed"}
        /\ stage'[t] \in {"free", "start", "echo", "closed", "error"} =>
             state'[TransferOf[t]] \in {"none", "Closed"}
  BY <1>1, <1>2 DEF EchoIInv, ConnectionInv, Connections
<1> QED
  BY <1>1, <1>2, <1>3, <1>4, <1>5, <1>6, <1>7, <1>8, TaskFrame

(* A step of a connection: TaskFrame with what is common to all of them *)
LEMMA ConnectionFrame ==
  ASSUME EchoIInv, IInv', NEW c \in Connections, running = c, running' \in {c, NoTask},
         UNCHANGED netVars, stage' \in [Tasks -> Stages],
         delay' \in [Tasks -> {"none", "armed", "fired"}], OnlyOf(c),
         cur' = cur \/ cur' = [cur EXCEPT ![c] = NoFut],
         \A o \in Ops : op'[o] # NoOp => Accounted(o)',
         stage'[c] \in {"read", "write"} => state'[TransferOf[c]] \in {"Pending", "InitFailed"},
         stage'[c] \in {"free", "start", "echo", "closed", "error"} =>
           state'[TransferOf[c]] \in {"none", "Closed"},
         running' = c /\ stage'[c] = "expired" /\ reg'[TransferOf[c]] # NoAddr =>
           ~inner'[reg'[TransferOf[c]]].finished
  PROVE  EchoIInv'
<1> USE OwnFuture
<1>1. ListenerInv'
  BY ListenerFrame
<1>2. EchoTypeOK'
  <2>1. UNCHANGED <<blocked, backlog, ipc>> /\ running' \in Tasks \cup {NoTask}
    BY DEF netVars
  <2>2. TypeOK'
    BY DEF IInv
  <2> QED BY <2>1, <2>2 DEF EchoIInv, EchoTypeOK, IncomingTypeOK, Stages
<1>3. FutureOf(c) = TransferOf[c] /\ c \in Tasks
  OBVIOUS
<1> QED
  BY <1>1, <1>2, <1>3, TaskFrame

(* StartTransfer *)
LEMMA StartTransferStep ==
  ASSUME EchoIInv, NEW c \in Connections, NEW a \in Addrs, NEW o \in Ops, StartTransfer(c, a, o)
  PROVE  EchoIInv'
<1> USE OwnFuture
<1> DEFINE f == TransferOf[c]
<1>0. f \in Transfers /\ f \in Futs /\ c \in Tasks /\ f = FutureOf(c) /\ IInv /\ EchoTypeOK
  BY DEF EchoIInv
<1>1. /\ running = c /\ stage[c] \in {"start", "echo"} /\ UNCHANGED netVars
      /\ NewTransfer(c, f, a, o) \/ NewTransferFull(c, f)
      /\ Go(c, Started(stage[c]))
  BY DEF StartTransfer, At
<1> HIDE DEF f
<1>2. Started(stage[c]) \in Stages /\ Started(stage[c]) \in {"read", "write"}
  BY DEF Started, Stages
<1>3. /\ stage' \in [Tasks -> Stages] /\ delay' \in [Tasks -> {"none", "armed", "fired"}]
      /\ running' = c /\ stage'[c] = Started(stage[c])
      /\ \A u \in Tasks \ {c} : stage'[u] = stage[u]
  BY <1>0, <1>1, <1>2, ReadyEffect
<1>4. IInv'
  BY <1>0, <1>1, NewTransferStep, NewTransferFailsStep
<1>5. /\ SubmitKeeps(f) /\ UNCHANGED <<active, cur>> /\ state'[f] \in {"Pending", "InitFailed"}
      /\ \A g \in Futs \ {f} : state'[g] = state[g]
  <2>1. CASE NewTransfer(c, f, a, o)
    BY <1>0, <2>1, NewTransferKeeps
  <2>2. CASE NewTransferFull(c, f)
    <3> DEFINE s == IF Abortable(ClosureDropped(NewInner(f))) THEN "InitFailed" ELSE "panicked"
    <3>1. UNCHANGED <<inner, reg, active, op, cur>> /\ state' = [state EXCEPT ![f] = s]
      BY <2>2 DEF NewTransferFull, taskVars
    <3>2. s \in {"InitFailed", "panicked"}
      OBVIOUS
    <3> HIDE DEF s
    <3>3. state'[f] = s /\ \A g \in Futs \ {f} : state'[g] = state[g]
      BY <1>0, <3>1 DEF IInv, TypeOK
    <3>4. state'[f] # "panicked"
      BY <1>0, <1>4 DEF IInv, StateInv
    <3>5. SubmitKeeps(f)
      BY <3>1 DEF SubmitKeeps, OpKept
    <3> QED BY <3>1, <3>2, <3>3, <3>4, <3>5
  <2> QED BY <1>1, <2>1, <2>2
<1>6. OnlyOf(c)
  BY <1>0, <1>3, <1>5 DEF OnlyOf
<1>7. \A p \in Ops : op'[p] # NoOp => Accounted(p)'
  BY <1>0, <1>1, <1>3, <1>5, AllSubmitted
<1> QED
  BY <1>0, <1>1, <1>2, <1>3, <1>4, <1>5, <1>6, <1>7, ConnectionFrame DEF f

(* ReadPending, WritePending *)
LEMMA TransferPendingStep ==
  ASSUME EchoIInv, NEW c \in Connections, ReadPending(c) \/ WritePending(c)
  PROVE  EchoIInv'
<1> USE OwnFuture
<1> DEFINE f == TransferOf[c]
<1>0. f \in Transfers /\ f \in Futs /\ c \in Tasks /\ f = FutureOf(c) /\ IInv /\ EchoTypeOK
  BY DEF EchoIInv
<1>1. /\ running = c /\ stage[c] \in {"read", "write"} /\ UNCHANGED netVars
      /\ TransferNotReady(c, f)
  BY DEF ReadPending, WritePending, At
<1> HIDE DEF f
<1>2. /\ stage' \in [Tasks -> Stages] /\ delay' \in [Tasks -> {"none", "armed", "fired"}]
      /\ running' \in {c, NoTask} /\ stage'[c] \in {stage[c], "expired"}
      /\ \A u \in Tasks \ {c} : stage'[u] = stage[u]
  <2>1. CASE InnerPending(c)
    BY <1>0, <1>1, <2>1, PendingEffect
  <2>2. CASE running' = NoTask /\ UNCHANGED <<stage, delay>>
    BY <1>0, <2>2 DEF EchoTypeOK, Stages
  <2> QED BY <2>1, <2>2 DEF ReadPending, WritePending
<1>3. IInv'
  BY <1>0, <1>1, NotReadyStep
<1>4. /\ OpsKept /\ UNCHANGED <<state, reg, active, cur>> /\ ~inner'[reg[f]].finished
  BY <1>0, <1>1, NotReadyKeeps
<1>5. OnlyOf(c)
  BY <1>2, <1>4 DEF OnlyOf
<1>6. \A p \in Ops : op'[p] # NoOp => Accounted(p)'
  BY <1>0, <1>1, <1>2, <1>4, AllKept
<1>7. state[f] = "Pending"
  BY <1>1 DEF TransferNotReady
<1> QED
  BY <1>0, <1>1, <1>2, <1>3, <1>4, <1>5, <1>6, <1>7, ConnectionFrame DEF f

(* ReadReady, WriteReady *)
LEMMA TransferReadyTaskStep ==
  ASSUME EchoIInv, NEW c \in Connections, ReadReady(c) \/ WriteReady(c)
  PROVE  EchoIInv'
<1> USE OwnFuture
<1> DEFINE f == TransferOf[c]
<1>0. f \in Transfers /\ f \in Futs /\ c \in Tasks /\ f = FutureOf(c) /\ IInv /\ EchoTypeOK
  BY DEF EchoIInv
<1>1. /\ running = c /\ stage[c] \in {"read", "write"} /\ UNCHANGED netVars
      /\ TransferReady(c, f)
  BY DEF ReadReady, WriteReady, At
<1>2. \E s \in {"error", "closed", "echo", "start"} : InnerReady(c, s) \/ Go(c, s)
  BY DEF ReadReady, WriteReady
<1> HIDE DEF f
<1>3. /\ stage' \in [Tasks -> Stages] /\ delay' \in [Tasks -> {"none", "armed", "fired"}]
      /\ running' = c /\ stage'[c] \in {"error", "closed", "echo", "start"}
      /\ \A u \in Tasks \ {c} : stage'[u] = stage[u]
  <2>1. PICK s \in {"error", "closed", "echo", "start"} : InnerReady(c, s) \/ Go(c, s)
    BY <1>2
  <2>2. s \in Stages
    BY DEF Stages, Ended
  <2> QED BY <1>0, <1>1, <2>1, <2>2, ReadyEffect
<1>4. IInv'
  BY <1>0, <1>1, TransferReadyStep
<1>5. /\ OpsKept /\ state'[f] = "Closed" /\ \A g \in Futs \ {f} : state'[g] = state[g]
      /\ active' = active /\ cur' = [cur EXCEPT ![c] = NoFut]
  BY <1>0, <1>1, TransferReadyKeeps
<1>6. OnlyOf(c)
  BY <1>0, <1>3, <1>5 DEF OnlyOf
<1>7. \A p \in Ops : op'[p] # NoOp => Accounted(p)'
  BY <1>0, <1>1, <1>3, <1>5, AllKept
<1> QED
  BY <1>0, <1>1, <1>3, <1>4, <1>5, <1>6, <1>7, ConnectionFrame DEF f

(* StartFailed *)
LEMMA StartFailedStep ==
  ASSUME EchoIInv, NEW c \in Connections, StartFailed(c)
  PROVE  EchoIInv'
<1> USE OwnFuture
<1> DEFINE f == TransferOf[c]
<1>0. f \in Transfers /\ f \in Futs /\ c \in Tasks /\ f = FutureOf(c) /\ IInv /\ EchoTypeOK
  BY DEF EchoIInv
<1>1. /\ running = c /\ stage[c] \in {"read", "write"} /\ UNCHANGED netVars
      /\ TransferFailed(c, f) /\ InnerReady(c, "error")
  BY DEF StartFailed, At
<1> HIDE DEF f
<1>2. "error" \in Stages
  BY DEF Stages, Ended
<1>3. /\ stage' \in [Tasks -> Stages] /\ delay' \in [Tasks -> {"none", "armed", "fired"}]
      /\ running' = c /\ stage'[c] = "error"
      /\ \A u \in Tasks \ {c} : stage'[u] = stage[u]
  BY <1>0, <1>1, <1>2, ReadyEffect
<1>4. IInv'
  BY <1>0, <1>1, TransferFailedStep
<1>5. /\ state' = [state EXCEPT ![f] = "Closed"] /\ UNCHANGED <<inner, active, op>>
      /\ cur' = [cur EXCEPT ![c] = NoFut]
  BY <1>1 DEF TransferFailed, Resume
<1>6. state'[f] = "Closed" /\ \A g \in Futs \ {f} : state'[g] = state[g]
  BY <1>0, <1>5 DEF IInv, TypeOK
<1>7. OnlyOf(c)
  BY <1>0, <1>3, <1>5, <1>6 DEF OnlyOf
<1>8. OpsKept
  BY <1>5 DEF OpsKept, OpKept
<1>9. \A p \in Ops : op'[p] # NoOp => Accounted(p)'
  BY <1>0, <1>1, <1>3, <1>8, AllKept
<1> QED
  BY <1>0, <1>1, <1>3, <1>4, <1>5, <1>6, <1>7, <1>9, ConnectionFrame DEF f

(* A future without registration has no operation to leave behind. *)
LEMMA AllKeptByDrop ==
  ASSUME EchoIInv, NEW t \in Tasks, Drop(FutureOf(t)), stage' = stage,
         \/ stage[t] = "expired"
         \/ \A o \in Ops : op[o] # NoOp => op[o].owner # FutureOf(t)
  PROVE  \A o \in Ops : op'[o] # NoOp => Accounted(o)'
<1> SUFFICES ASSUME NEW o \in Ops, op'[o] # NoOp PROVE Accounted(o)'
  OBVIOUS
<1> DEFINE f == FutureOf(t)
<1>0. f \in Futs /\ IInv /\ LeftByTimeoutOnly
  BY OwnFuture DEF EchoIInv
<1>1. \/ op[o].owner # f /\ OpKept(o)
      \/ /\ op[o] # NoOp /\ op[o].owner = f /\ op[o].addr = reg[f]
         /\ op'[o].addr = reg[f] /\ inner'[reg[f]].data = f
  BY <1>0, DropKeeps
<1>2. CASE OpKept(o)
  BY <1>0, <1>2, AccountedFrame
<1>3. CASE op[o] # NoOp /\ op[o].owner = f /\ op'[o].addr = reg[f] /\ inner'[reg[f]].data = f
  BY <1>3 DEF Accounted, FutureOf
<1> QED
  BY <1>1, <1>2, <1>3

(* EndStatement *)
LEMMA EndStatementStep ==
  ASSUME EchoIInv, NEW c \in Connections, EndStatement(c)
  PROVE  EchoIInv'
<1> USE OwnFuture
<1> DEFINE f == TransferOf[c]
<1>0. f \in Transfers /\ f \in Futs /\ c \in Tasks /\ f = FutureOf(c) /\ IInv /\ EchoTypeOK
  BY DEF EchoIInv
<1>1. /\ running = c /\ stage[c] \in {"start", "echo"}
      /\ UNCHANGED <<blocked, backlog, ipc, stage, delay, running>>
      /\ DropFuture(c, f)
  BY DEF EndStatement, At, netVars, echoVars
<1>2. state[f] \in {"none", "Closed"}
  BY <1>1 DEF EchoIInv, ConnectionInv
<1> HIDE DEF f
<1>3. Drop(f) /\ Resume(c) /\ \A u \in Tasks \ {c} : cur[u] # f
  BY <1>1 DEF DropFuture, AtHand
<1>4. IInv'
  BY <1>0, <1>3, DropStep
<1>5. /\ state'[f] = "none" /\ cur' = [cur EXCEPT ![c] = NoFut]
      /\ \A g \in Futs \ {f} : state'[g] = state[g] /\ active'[g] = active[g]
  BY <1>0, <1>3, DropKeeps DEF Resume
<1>6. \A o \in Ops : op[o] # NoOp => op[o].owner # f
  <2>1. reg[f] \notin Addrs
    BY <1>0, <1>2, FuturesAssumption DEF IInv, TypeOK, StateInv, KnowsItsOp
  <2> QED BY <1>0, <2>1 DEF IInv, TypeOK, OpRecord, OwnerInv
<1>7. \A p \in Ops : op'[p] # NoOp => Accounted(p)'
  BY <1>0, <1>1, <1>3, <1>6, AllKeptByDrop
<1>8. OnlyOf(c) /\ UNCHANGED netVars
  BY <1>0, <1>1, <1>5 DEF OnlyOf, netVars
<1>9. stage' \in [Tasks -> Stages] /\ delay' \in [Tasks -> {"none", "armed", "fired"}]
  BY <1>0, <1>1 DEF EchoTypeOK, Stages
<1> QED
  BY <1>0, <1>1, <1>4, <1>5, <1>7, <1>8, <1>9, ConnectionFrame DEF f

(* Finish *)
LEMMA FinishStep ==
  ASSUME EchoIInv, NEW t \in Tasks, Finish(t)
  PROVE  EchoIInv'
<1> USE OwnFuture
<1> DEFINE f == FutureOf(t)
<1>0. f \in Futs /\ IInv /\ EchoTypeOK
  BY DEF EchoIInv
<1>1. /\ running = t /\ stage[t] \in Ended /\ Drop(f) /\ Resume(t) /\ running' = NoTask
      /\ delay' = [delay EXCEPT ![t] = "none"] /\ UNCHANGED <<blocked, backlog, ipc, stage>>
  BY DEF Finish, At, Resume, netVars
<1>2. \A u \in Tasks \ {t} : cur[u] # f
  BY FuturesAssumption DEF EchoIInv, OwnFutureInv
<1>3. IInv'
  BY <1>0, <1>1, <1>2, DropStep
<1>4. EchoTypeOK'
  <2>1. TypeOK'
    BY <1>3 DEF IInv
  <2> QED BY <1>0, <1>1, <2>1 DEF EchoTypeOK, IncomingTypeOK
<1>5. /\ state'[f] = "none" /\ ~active'[f] /\ cur' = [cur EXCEPT ![t] = NoFut]
      /\ \A g \in Futs \ {f} : state'[g] = state[g] /\ active'[g] = active[g]
  BY <1>0, <1>1, DropKeeps DEF Resume
<1>6. \/ stage[t] = "expired"
      \/ \A o \in Ops : op[o] # NoOp => op[o].owner # f
  <2> SUFFICES ASSUME stage[t] # "expired", NEW o \in Ops, op[o] # NoOp
               PROVE  op[o].owner # f
    OBVIOUS
  <2>1. stage[t] \in {"closed", "error"}
    BY <1>1 DEF Ended
  <2>2. CASE t = Server
    <3>1. ~active[f]
      BY <2>1, <2>2 DEF EchoIInv, ListenerInv
    <3>2. CASE state[f] = "Stream"
      BY <1>0, <3>1, <3>2 DEF IInv, StateInv, KnowsItsOp, OwnerInv, HasOp
    <3>3. CASE state[f] = "none"
      BY <1>0, <3>3, FuturesAssumption DEF IInv, TypeOK, OpRecord, StateInv, KnowsItsOp, OwnerInv
    <3> QED BY <1>0, <2>2, <3>2, <3>3 DEF IInv, StateInv
  <2>3. CASE t # Server
    <3>1. state[f] \in {"none", "Closed"}
      BY <2>1, <2>3 DEF EchoIInv, ConnectionInv, Connections
    <3> QED BY <1>0, <3>1, FuturesAssumption DEF IInv, TypeOK, OpRecord, StateInv, KnowsItsOp, OwnerInv
  <2> QED BY <2>2, <2>3
<1>7. \A p \in Ops : op'[p] # NoOp => Accounted(p)'
  BY <1>0, <1>1, <1>6, AllKeptByDrop
<1>8. OnlyOf(t)
  BY <1>1, <1>5 DEF OnlyOf
<1>9. ListenerInv'
  <2>1. active'[Listener] => active[Listener]
    BY <1>5
  <2> QED BY <1>1, <2>1 DEF EchoIInv, ListenerInv
<1>10. t # Server =>
         /\ stage'[t] \in {"read", "write"} => state'[TransferOf[t]] \in {"Pending", "InitFailed"}
         /\ stage'[t] \in {"free", "start", "echo", "closed", "error"} =>
              state'[TransferOf[t]] \in {"none", "Closed"}
  BY <1>1, <1>5 DEF Ended, Connections
<1>11. NoTask # t
  BY RegistrationAssumption
<1> QED
  BY <1>1, <1>3, <1>4, <1>5, <1>7, <1>8, <1>9, <1>10, <1>11, TaskFrame

(* A step of the server: TaskFrame with what is common to all of them *)
LEMMA ServerFrame ==
  ASSUME EchoIInv, IInv', running = Server, running' \in {Server, NoTask},
         stage' \in [Tasks -> Stages], delay' \in [Tasks -> {"none", "armed", "fired"}],
         blocked' \in BOOLEAN, backlog' \in 0..MaxBacklog, ipc' \in {"out", "accept", "poll"},
         OnlyOf(Server), ListenerInv',
         cur' = cur \/ cur' = [cur EXCEPT ![Server] = NoFut],
         \A o \in Ops : op'[o] # NoOp => Accounted(o)',
         running' = Server /\ stage'[Server] = "expired" /\ reg'[Listener] # NoAddr =>
           ~inner'[reg'[Listener]].finished
  PROVE  EchoIInv'
<1> USE OwnFuture
<1>1. TypeOK' /\ running' \in Tasks \cup {NoTask}
  BY DEF IInv
<1>2. EchoTypeOK'
  BY <1>1 DEF EchoTypeOK, IncomingTypeOK, Stages
<1>3. FutureOf(Server) = Listener
  OBVIOUS
<1> QED
  BY <1>2, <1>3, TaskFrame

(* Serve *)
LEMMA ServeStep ==
  ASSUME EchoIInv, NEW a \in Addrs, Serve(a)
  PROVE  EchoIInv'
<1> USE OwnFuture
<1>0. IInv /\ EchoTypeOK /\ ListenerInv
  BY DEF EchoIInv
<1>1. /\ running = Server /\ stage[Server] = "start" /\ ipc = "out" /\ NewPoll(Server, Listener, a)
      /\ blocked' = TRUE /\ UNCHANGED <<backlog, ipc>> /\ Go(Server, "serve")
  BY DEF Serve, At, incoming
<1>2. "serve" \in Stages
  BY DEF Stages
<1>3. /\ stage' \in [Tasks -> Stages] /\ delay' \in [Tasks -> {"none", "armed", "fired"}]
      /\ running' = Server /\ stage'[Server] = "serve"
      /\ \A u \in Tasks \ {Server} : stage'[u] = stage[u]
  BY <1>0, <1>1, <1>2, ReadyEffect
<1>4. IInv'
  BY <1>0, <1>1, NewPollStep
<1>5. /\ OpsKept /\ UNCHANGED <<active, cur>>
      /\ \A g \in Futs \ {Listener} : state'[g] = state[g]
  BY <1>0, <1>1, NewPollKeeps
<1>6. OnlyOf(Server)
  BY <1>3, <1>5 DEF OnlyOf
<1>7. \A p \in Ops : op'[p] # NoOp => Accounted(p)'
  BY <1>0, <1>1, <1>3, <1>5, AllKept
<1>8. ListenerInv'
  BY <1>0, <1>1, <1>3 DEF ListenerInv
<1>9. backlog \in 0..MaxBacklog
  BY <1>0 DEF EchoTypeOK, IncomingTypeOK
<1> QED
  BY <1>1, <1>3, <1>4, <1>5, <1>6, <1>7, <1>8, <1>9, ServerFrame

(* ServePolls *)
LEMMA ServePollsStep ==
  ASSUME EchoIInv, ServePolls
  PROVE  EchoIInv'
<1> USE OwnFuture
<1>0. /\ IInv /\ EchoTypeOK /\ ListenerInv /\ backlog \in 0..MaxBacklog /\ blocked \in BOOLEAN
      /\ stage \in [Tasks -> Stages] /\ delay \in [Tasks -> {"none", "armed", "fired"}]
  BY DEF EchoIInv, EchoTypeOK, IncomingTypeOK, Stages
<1>1. /\ running = Server /\ stage[Server] = "serve" /\ UNCHANGED <<stage, delay, running>>
      /\ PollBegin(Server) \/ AcceptWouldBlock \/ PollEvents(Server)
  BY DEF ServePolls, At, poll_next, echoVars
<1>2. CASE PollBegin(Server) \/ AcceptWouldBlock
  <2>1. UNCHANGED vars /\ backlog' = backlog
    BY <1>2 DEF PollBegin, AcceptWouldBlock
  <2>2. UNCHANGED <<inner, state, reg, active, op, alive, ready, cur, truth>>
    BY <2>1 DEF vars, futVars, taskVars
  <2>3. /\ blocked' \in BOOLEAN /\ ipc' \in {"poll", "accept"} /\ (ipc' = "poll" => blocked')
        /\ (ipc' = "accept" => ~blocked')
    <3>1. CASE PollBegin(Server)
      <4>1. ipc' = (IF blocked THEN "poll" ELSE "accept") /\ blocked' = blocked
        BY <3>1 DEF PollBegin
      <4> QED BY <1>0, <4>1
    <3>2. CASE AcceptWouldBlock
      BY <3>2 DEF AcceptWouldBlock
    <3> QED BY <1>2, <3>1, <3>2
  <2>4. ~blocked' => ~active[Listener]
    BY <1>0, <1>2 DEF PollBegin, AcceptWouldBlock, ListenerInv
  <2>5. IInv'
    BY <1>0, <2>1, NextIInv
  <2>6. ListenerInv'
    BY <1>1, <2>2, <2>3, <2>4 DEF ListenerInv
  <2>7. OnlyOf(Server) /\ OpsKept
    BY <1>1, <2>2 DEF OnlyOf, OpsKept, OpKept
  <2>8. \A p \in Ops : op'[p] # NoOp => Accounted(p)'
    BY <1>1, <2>7, AllKept
  <2> QED
    BY <1>0, <1>1, <2>1, <2>2, <2>3, <2>5, <2>6, <2>7, <2>8, ServerFrame
<1>3. CASE PollEvents(Server)
  <2>1. /\ TakeEvents(Server, Listener) /\ blocked' = FALSE /\ ipc' = "accept"
        /\ UNCHANGED taskVars /\ backlog' = backlog /\ cur' = cur
    BY <1>3 DEF PollEvents, taskVars
  <2>2. IInv'
    BY <1>0, <2>1, TakeEventsStep
  <2>3. /\ OpsKept /\ UNCHANGED <<state, reg>> /\ ~active'[Listener]
        /\ \A g \in Futs \ {Listener} : active'[g] = active[g]
    BY <1>0, <2>1, TakeEventsKeeps
  <2>4. ListenerInv'
    BY <2>1, <2>3 DEF ListenerInv
  <2>5. OnlyOf(Server)
    BY <1>1, <2>3 DEF OnlyOf
  <2>6. \A p \in Ops : op'[p] # NoOp => Accounted(p)'
    BY <1>1, <2>3, AllKept
  <2> QED
    BY <1>0, <1>1, <2>1, <2>2, <2>4, <2>5, <2>6, ServerFrame
<1> QED
  BY <1>1, <1>2, <1>3

(* ServePending *)
LEMMA ServePendingStep ==
  ASSUME EchoIInv, ServePending
  PROVE  EchoIInv'
<1> USE OwnFuture
<1>0. /\ IInv /\ EchoTypeOK /\ ListenerInv /\ backlog \in 0..MaxBacklog /\ blocked \in BOOLEAN
  BY DEF EchoIInv, EchoTypeOK, IncomingTypeOK
<1>1. /\ running = Server /\ stage[Server] = "serve" /\ InnerPending(Server)
      /\ ipc = "poll" /\ ipc' = "out" /\ UNCHANGED <<blocked, backlog>>
      /\ PollNotReady(Server, Listener) \/ \E o \in Ops : PollQueue(Server, Listener, o)
  BY DEF ServePending, At, PollSuspends
<1>2. /\ stage' \in [Tasks -> Stages] /\ delay' \in [Tasks -> {"none", "armed", "fired"}]
      /\ running' \in {Server, NoTask} /\ stage'[Server] \in {"serve", "expired"}
      /\ \A u \in Tasks \ {Server} : stage'[u] = stage[u]
  BY <1>0, <1>1, PendingEffect
<1>3. /\ IInv' /\ SubmitKeeps(Listener) /\ UNCHANGED <<state, reg, cur>>
      /\ \A g \in Futs \ {Listener} : active'[g] = active[g]
      /\ ~inner'[reg[Listener]].finished
  <2>1. CASE PollNotReady(Server, Listener)
    <3>1. IInv'
      BY <1>0, <2>1, NotReadyStep
    <3>2. OpsKept /\ UNCHANGED <<state, reg, active, cur>> /\ ~inner'[reg[Listener]].finished
      BY <1>0, <2>1, NotReadyKeeps
    <3> QED BY <3>1, <3>2 DEF OpsKept, SubmitKeeps
  <2>2. CASE \E o \in Ops : PollQueue(Server, Listener, o)
    <3>1. PICK o \in Ops : PollQueue(Server, Listener, o)
      BY <2>2
    <3>2. IInv'
      BY <1>0, <3>1, PollQueueStep
    <3> QED BY <1>0, <3>1, <3>2, PollQueueKeeps
  <2> QED BY <1>1, <2>1, <2>2
<1>4. ListenerInv'
  BY <1>0, <1>1, <1>2 DEF ListenerInv
<1>5. OnlyOf(Server)
  BY <1>2, <1>3 DEF OnlyOf
<1>6. \A p \in Ops : op'[p] # NoOp => Accounted(p)'
  <2>1. Listener = FutureOf(Server) /\ \A u \in Tasks : stage[u] = "expired" => stage'[u] = "expired"
    BY <1>1, <1>2
  <2> QED BY <1>3, <2>1, AllSubmitted
<1> QED
  BY <1>0, <1>1, <1>2, <1>3, <1>4, <1>5, <1>6, ServerFrame

(* ServeAccepts, ServeAcceptFails *)
LEMMA ServeAcceptsStep ==
  ASSUME EchoIInv, ServeAccepts \/ ServeAcceptFails
  PROVE  EchoIInv'
<1> USE OwnFuture
<1>0. /\ IInv /\ EchoTypeOK /\ ListenerInv /\ backlog \in 0..MaxBacklog /\ blocked \in BOOLEAN
  BY DEF EchoIInv, EchoTypeOK, IncomingTypeOK
<1>1. /\ running = Server /\ stage[Server] = "serve" /\ ipc = "accept" /\ ipc' = "out"
      /\ GiveUp(Server, Listener) /\ blocked' = blocked
      /\ InnerReady(Server, "accepted") \/ InnerReady(Server, "error")
  BY DEF ServeAccepts, ServeAcceptFails, At, AcceptOk, AcceptError, GiveUp
<1>2. backlog' \in 0..MaxBacklog
  <2>1. backlog' = backlog \/ (backlog > 0 /\ backlog' = backlog - 1)
    BY DEF ServeAccepts, ServeAcceptFails, AcceptOk, AcceptError
  <2> QED BY <1>0, <2>1, IncomingAssumption
<1>3. /\ stage' \in [Tasks -> Stages] /\ delay' \in [Tasks -> {"none", "armed", "fired"}]
      /\ running' = Server /\ stage'[Server] \in {"accepted", "error"}
      /\ \A u \in Tasks \ {Server} : stage'[u] = stage[u]
  <2>1. "accepted" \in Stages /\ "error" \in Stages
    BY DEF Stages, Ended
  <2>2. CASE InnerReady(Server, "accepted")
    BY <1>0, <1>1, <2>1, <2>2, ReadyEffect
  <2>3. CASE InnerReady(Server, "error")
    BY <1>0, <1>1, <2>1, <2>3, ReadyEffect
  <2> QED BY <1>1, <2>2, <2>3
<1>4. IInv'
  BY <1>0, <1>1, OtherwiseStep
<1>5. UNCHANGED <<inner, state, reg, active, op>> /\ cur' = [cur EXCEPT ![Server] = NoFut]
  BY <1>1 DEF GiveUp, Resume, futVars
<1>6. ListenerInv'
  BY <1>0, <1>1, <1>5 DEF ListenerInv
<1>7. OnlyOf(Server) /\ OpsKept
  BY <1>3, <1>5 DEF OnlyOf, OpsKept, OpKept
<1>8. \A p \in Ops : op'[p] # NoOp => Accounted(p)'
  BY <1>1, <1>3, <1>7, AllKept
<1> QED
  BY <1>0, <1>1, <1>2, <1>3, <1>4, <1>5, <1>6, <1>7, <1>8, ServerFrame

(* ServeFails *)
LEMMA ServeFailsStep ==
  ASSUME EchoIInv, ServeFails
  PROVE  EchoIInv'
<1> USE OwnFuture
<1>0. /\ IInv /\ EchoTypeOK /\ ListenerInv /\ backlog \in 0..MaxBacklog /\ blocked \in BOOLEAN
  BY DEF EchoIInv, EchoTypeOK, IncomingTypeOK
<1>1. /\ running = Server /\ stage[Server] = "serve" /\ InnerReady(Server, "error")
      /\ ipc = "poll" /\ ipc' = "out" /\ UNCHANGED <<blocked, backlog>>
      /\ PollQueueError(Server, Listener) \/ PollReady(Server, Listener)
  BY DEF ServeFails, At, PollFails
<1>2. /\ stage' \in [Tasks -> Stages] /\ delay' \in [Tasks -> {"none", "armed", "fired"}]
      /\ running' = Server /\ stage'[Server] = "error"
      /\ \A u \in Tasks \ {Server} : stage'[u] = stage[u]
  <2>1. "error" \in Stages
    BY DEF Stages, Ended
  <2> QED BY <1>0, <1>1, <2>1, ReadyEffect
<1>3. /\ IInv' /\ OpsKept /\ UNCHANGED <<state, reg>> /\ ~active'[Listener]
      /\ \A g \in Futs \ {Listener} : active'[g] = active[g]
      /\ cur' = [cur EXCEPT ![Server] = NoFut]
  <2>1. CASE PollQueueError(Server, Listener)
    <3>1. IInv'
      BY <1>0, <2>1, PollQueueErrorStep
    <3>2. OpsKept /\ UNCHANGED <<state, reg, active>> /\ ~active[Listener]
      BY <1>0, <2>1, PollQueueErrorKeeps
    <3> QED BY <2>1, <3>1, <3>2 DEF PollQueueError, Resume
  <2>2. CASE PollReady(Server, Listener)
    <3>1. TakeEvents(Server, Listener) /\ Resume(Server)
      BY <2>2 DEF PollReady
    <3>2. IInv'
      BY <1>0, <3>1, TakeEventsStep
    <3>3. /\ OpsKept /\ UNCHANGED <<state, reg>> /\ ~active'[Listener]
          /\ \A g \in Futs \ {Listener} : active'[g] = active[g]
      BY <1>0, <3>1, TakeEventsKeeps
    <3> QED BY <3>1, <3>2, <3>3 DEF Resume
  <2> QED BY <1>1, <2>1, <2>2
<1>4. ListenerInv'
  BY <1>0, <1>1, <1>3 DEF ListenerInv
<1>5. OnlyOf(Server)
  BY <1>2, <1>3 DEF OnlyOf
<1>6. \A p \in Ops : op'[p] # NoOp => Accounted(p)'
  BY <1>1, <1>2, <1>3, AllKept
<1> QED
  BY <1>0, <1>1, <1>2, <1>3, <1>4, <1>5, <1>6, ServerFrame

(* ServeSpawns *)
LEMMA ServeSpawnsStep ==
  ASSUME EchoIInv, NEW c \in Connections, ServeSpawns(c)
  PROVE  EchoIInv'
<1> USE OwnFuture
<1>1. /\ running = Server /\ stage[Server] = "accepted" /\ stage[c] = "free"
      /\ stage' = [stage EXCEPT ![Server] = "serve", ![c] = "start"]
      /\ UNCHANGED vars /\ UNCHANGED <<blocked, backlog, ipc, delay, running>>
  BY DEF ServeSpawns, At, allVars, netVars
<1>2. UNCHANGED <<inner, state, reg, active, op, alive, ready, cur, truth>>
  BY <1>1 DEF vars, futVars, taskVars
<1>3. IInv'
  BY <1>1, NextIInv DEF EchoIInv
<1>4. EchoTypeOK'
  <2>1. stage' \in [Tasks -> Stages]
    BY <1>1 DEF EchoIInv, EchoTypeOK, Stages
  <2>2. TypeOK'
    BY <1>3 DEF IInv
  <2> QED BY <1>1, <2>1, <2>2 DEF EchoIInv, EchoTypeOK, IncomingTypeOK, Stages
<1>5. /\ stage'[Server] = "serve" /\ stage'[c] = "start"
      /\ \A u \in Tasks \ {Server, c} : stage'[u] = stage[u]
  BY <1>1 DEF EchoIInv, EchoTypeOK
<1>6. OwnFutureInv'
  BY <1>2 DEF EchoIInv, OwnFutureInv, FutureOf
<1>7. ConnectionInv'
  BY <1>1, <1>2, <1>5 DEF EchoIInv, ConnectionInv
<1>8. ListenerInv'
  BY <1>1, <1>2, <1>5 DEF EchoIInv, ListenerInv
<1>9. TimeoutInv'
  BY <1>1, <1>2, <1>5 DEF EchoIInv, TimeoutInv, FutureOf
<1>10. LeftByTimeoutOnly'
  <2>1. OpsKept
    BY <1>2 DEF OpsKept, OpKept
  <2>2. \A p \in Ops : op'[p] # NoOp => Accounted(p)'
    BY <1>1, <1>5, <2>1, AllKept
  <2> QED BY <2>2 DEF LeftByTimeoutOnly, Accounted
<1> QED
  BY <1>3, <1>4, <1>6, <1>7, <1>8, <1>9, <1>10 DEF EchoIInv

(* The steps of the executor, the reactor, the kernel and the clients *)
LEMMA OtherFrame ==
  ASSUME EchoIInv, IInv', UNCHANGED <<state, reg, active, cur, stage, blocked, ipc>>, OpsKept,
         delay' \in [Tasks -> {"none", "armed", "fired"}], backlog' \in 0..MaxBacklog,
         \/ UNCHANGED <<inner, running>>
         \/ running' = NoTask
         \/ running' \in Tasks /\ stage[running'] # "expired"
  PROVE  EchoIInv'
<1>1. EchoTypeOK'
  <2>1. TypeOK'
    BY DEF IInv
  <2>2. running' \in Tasks \cup {NoTask}
    BY DEF EchoIInv, EchoTypeOK
  <2> QED BY <2>1, <2>2 DEF EchoIInv, EchoTypeOK, IncomingTypeOK
<1>2. OwnFutureInv'
  BY DEF EchoIInv, OwnFutureInv, FutureOf
<1>3. ConnectionInv'
  BY DEF EchoIInv, ConnectionInv
<1>4. ListenerInv'
  BY DEF EchoIInv, ListenerInv
<1>5. TimeoutInv'
  BY RegistrationAssumption DEF EchoIInv, TimeoutInv, FutureOf
<1>6. LeftByTimeoutOnly'
  <2>1. \A p \in Ops : op'[p] # NoOp => Accounted(p)'
    BY AllKept
  <2> QED BY <2>1 DEF LeftByTimeoutOnly, Accounted
<1> QED
  BY <1>1, <1>2, <1>3, <1>4, <1>5, <1>6 DEF EchoIInv

(* Run, Clients, and no step at all: the futures do not change. *)
LEMMA RunStep ==
  ASSUME EchoIInv, (\E t \in Tasks : Run(t)) \/ Clients \/ UNCHANGED everything
  PROVE  EchoIInv'
<1>1. UNCHANGED vars /\ UNCHANGED <<stage, delay, blocked, ipc>>
  BY DEF Run, Clients, Connect, AcceptedElsewhere, everything, allVars, echoVars, netVars
<1>2. UNCHANGED <<inner, state, reg, active, op, cur>>
  BY <1>1 DEF vars, futVars, taskVars
<1>3. IInv' /\ OpsKept
  BY <1>1, <1>2, NextIInv DEF EchoIInv, OpsKept, OpKept
<1>4. backlog' \in 0..MaxBacklog
  <2>1. backlog \in 0..MaxBacklog
    BY DEF EchoIInv, EchoTypeOK, IncomingTypeOK
  <2>2. \/ backlog' = backlog
        \/ backlog < MaxBacklog /\ backlog' = backlog + 1
        \/ backlog > 0 /\ backlog' = backlog - 1
    BY DEF Run, Clients, Connect, AcceptedElsewhere, everything, allVars, netVars
  <2> QED BY <2>1, <2>2, IncomingAssumption
<1>5. \/ running' = running
      \/ running' \in Tasks /\ stage[running'] # "expired"
  BY DEF Run, Clients, everything, echoVars, Ended
<1>6. delay' \in [Tasks -> {"none", "armed", "fired"}]
  BY <1>1 DEF EchoIInv, EchoTypeOK
<1> QED
  BY <1>1, <1>2, <1>3, <1>4, <1>5, <1>6, OtherFrame

(* DelayFires *)
LEMMA DelayFiresStep ==
  ASSUME EchoIInv, NEW t \in Tasks, DelayFires(t)
  PROVE  EchoIInv'
<1>1. /\ running = NoTask /\ delay' = [delay EXCEPT ![t] = "fired"] /\ ready' = ready \cup {t}
      /\ UNCHANGED <<inner, futVars, state, reg, active, op, alive, cur, truth>>
      /\ UNCHANGED <<blocked, backlog, ipc, stage, running>>
  BY DEF DelayFires, futVars, netVars
<1>2. IInv'
  <2>1. CASE t \in ready
    <3>1. ready' = ready
      BY <1>1, <2>1
    <3>2. UNCHANGED vars
      BY <1>1, <3>1 DEF vars, taskVars, futVars
    <3> QED BY <3>2, NextIInv DEF EchoIInv
  <2>2. CASE t \notin ready
    <3>1. WakeOtherwise(t)
      BY <1>1, <2>2 DEF WakeOtherwise
    <3> QED BY <3>1, OtherwiseStep DEF EchoIInv
  <2> QED BY <2>1, <2>2
<1>3. /\ OpsKept /\ delay' \in [Tasks -> {"none", "armed", "fired"}]
      /\ backlog' \in 0..MaxBacklog
  BY <1>1 DEF OpsKept, OpKept, EchoIInv, EchoTypeOK, IncomingTypeOK
<1> QED
  BY <1>1, <1>2, <1>3, OtherFrame

(* EchoHandles *)
LEMMA EchoHandlesStep ==
  ASSUME EchoIInv, NEW o \in Ops, EchoHandles(o)
  PROVE  EchoIInv'
<1>1. /\ running = NoTask /\ HandleCompletion(o)
      /\ UNCHANGED <<blocked, backlog, ipc, stage, delay, running>>
  BY DEF EchoHandles, HandleStep, netVars, echoVars
<1>2. IInv'
  BY <1>1, HandleCompletionStep DEF EchoIInv
<1>3. OpsKept /\ UNCHANGED <<state, reg, active, cur>>
  BY <1>1, HandleKeeps DEF EchoIInv
<1>4. delay' \in [Tasks -> {"none", "armed", "fired"}] /\ backlog' \in 0..MaxBacklog
  BY <1>1 DEF EchoIInv, EchoTypeOK, IncomingTypeOK
<1> QED
  BY <1>1, <1>2, <1>3, <1>4, OtherFrame

(* KernelPolls, KernelTransfers, EchoKernelFails *)
LEMMA EchoKernelStep ==
  ASSUME EchoIInv, NEW o \in Ops, KernelPolls(o) \/ KernelTransfers(o) \/ EchoKernelFails(o)
  PROVE  EchoIInv'
<1>1. /\ KernelTakes(o) \/ \E res \in Results : KernelCompletes(o, res)
      /\ UNCHANGED <<blocked, backlog, ipc, stage, delay, running>>
  BY IncomingAssumption
     DEF KernelPolls, KernelTransfers, EchoKernelFails, KernelStep, KernelFails, netVars, echoVars
<1>2. IInv'
  BY <1>1, KernelTakesStep, KernelCompletesStep DEF EchoIInv
<1>3. OpsKept /\ UNCHANGED <<inner, state, reg, active, cur>>
  BY <1>1, KernelKeeps DEF EchoIInv
<1>4. delay' \in [Tasks -> {"none", "armed", "fired"}] /\ backlog' \in 0..MaxBacklog
  BY <1>1 DEF EchoIInv, EchoTypeOK, IncomingTypeOK
<1> QED
  BY <1>1, <1>2, <1>3, <1>4, OtherFrame

------------------------------------------------------------------------------
LEMMA EchoInitIInv ==
  ASSUME EchoInit
  PROVE  EchoIInv
<1> USE OwnFuture
<1>1. /\ Init /\ blocked = TRUE /\ backlog = 0 /\ ipc = "out" /\ running = NoTask
      /\ stage = [t \in Tasks |-> IF t = Server THEN "start" ELSE "free"]
      /\ delay = [t \in Tasks |-> "none"]
  BY DEF EchoInit, IncomingInit
<1>2. IInv
  BY <1>1, InitIInv
<1>3. EchoTypeOK
  <2>1. TypeOK
    BY <1>2 DEF IInv
  <2>2. backlog \in 0..MaxBacklog
    BY <1>1, IncomingAssumption
  <2> QED BY <1>1, <2>1, <2>2 DEF EchoTypeOK, IncomingTypeOK
<1>4. OwnFutureInv /\ ConnectionInv /\ ListenerInv
  <2>1. /\ \A t \in Tasks : cur[t] = NoFut
        /\ \A f \in Futs : state[f] = "none" /\ ~active[f]
    BY <1>1 DEF Init
  <2>2. stage[Server] = "start" /\ \A c \in Connections : stage[c] = "free"
    BY <1>1
  <2>3. OwnFutureInv
    BY <2>1 DEF OwnFutureInv
  <2>4. ConnectionInv
    BY <2>1, <2>2 DEF ConnectionInv
  <2>5. ListenerInv
    BY <1>1, <2>1 DEF ListenerInv
  <2> QED BY <2>3, <2>4, <2>5
<1>5. TimeoutInv /\ LeftByTimeoutOnly
  BY <1>1, RegistrationAssumption DEF TimeoutInv, LeftByTimeoutOnly, Init
<1> QED
  BY <1>2, <1>3, <1>4, <1>5 DEF EchoIInv

LEMMA EchoNextIInv ==
  ASSUME EchoIInv, [EchoNext]_everything
  PROVE  EchoIInv'
<1>1. ASSUME NEW t \in Tasks, TaskStep(t) PROVE EchoIInv'
  <2>1. CASE StartAwait(t)
    BY <2>1, StartAwaitStep
  <2>2. CASE Finish(t)
    BY <2>2, FinishStep
  <2>3. CASE ServerStep
    BY <2>3, ServeStep, ServePollsStep, ServePendingStep, ServeAcceptsStep, ServeFailsStep,
       ServeSpawnsStep DEF ServerStep
  <2>4. CASE t # Server /\ ConnectionStep(t)
    <3>1. t \in Connections
      BY <2>4 DEF Connections
    <3> QED BY <2>4, <3>1, StartTransferStep, TransferPendingStep, TransferReadyTaskStep,
               StartFailedStep, EndStatementStep DEF ConnectionStep
  <2> QED BY <1>1, <2>1, <2>2, <2>3, <2>4 DEF TaskStep
<1>2. CASE EchoNext
  BY <1>1, <1>2, RunStep, DelayFiresStep, ServeAcceptsStep, EchoHandlesStep, EchoKernelStep
     DEF EchoNext
<1>3. CASE UNCHANGED everything
  BY <1>3, RunStep
<1> QED
  BY <1>2, <1>3

(* The invariant of the echo server, for any number of connections,        *)
(* buffers, addresses and operations.                                      *)
THEOREM EchoInvariant == EchoSpec => []EchoIInv
<1>1. EchoInit => EchoIInv
  BY EchoInitIInv
<1>2. EchoIInv /\ [EchoNext]_everything => EchoIInv'
  BY EchoNextIInv
<1> QED
  BY <1>1, <1>2, PTL DEF EchoSpec

(* serve and handle_connection leave an operation in the kernel only when  *)
(* Timeout drops a future that is pending.                                 *)
THEOREM EchoLeftByTimeoutOnly == EchoSpec => []LeftByTimeoutOnly
<1>1. EchoIInv => LeftByTimeoutOnly
  BY DEF EchoIInv
<1> QED
  BY <1>1, EchoInvariant, PTL

(* What the futures promise holds of those the server uses: the memory of  *)
(* an operation stays while the kernel may use it, also of one that a      *)
(* timeout has left behind.                                                *)
THEOREM EchoKernelMemoryStays == EchoSpec => []KernelMemoryStays
<1>1. EchoIInv => KernelMemoryStays
  <2> SUFFICES ASSUME EchoIInv, NEW o \in OpsAt({"sq", "kernel"})
               PROVE  inner[op[o].addr].strong > 0 /\ inner[op[o].addr].data # NoData
    BY DEF KernelMemoryStays
  <2>1. o \in Ops /\ op[o] # NoOp /\ IInv
    BY DEF OpsAt, EchoIInv
  <2>2. op[o].addr \in Addrs /\ HasOp(op[o].addr)
    BY <2>1 DEF IInv, TypeOK, OpRecord, HasOp
  <2> QED BY <2>1, <2>2 DEF IInv, OwnerInv, StateInv
<1> QED
  BY <1>1, EchoInvariant, PTL

------------------------------------------------------------------------------
(* One step of NotifiedIsTaken *)
TakenStep ==
  \A f \in Futs :
    reg[f] # NoAddr /\ inner[reg[f]].finished /\ reg'[f] # reg[f] => state'[f] = "Closed"

(* A future is made where there was none, and returns what it takes. *)
LEMMA NewIsTaken ==
  ASSUME IInv, NEW t \in Tasks, NEW f \in Futs, NEW a \in Addrs, NEW o \in Ops,
         NewTransfer(t, f, a, o) \/ NewPoll(t, f, a)
  PROVE  TakenStep
<1>1. reg' = [reg EXCEPT ![f] = a] /\ state[f] = "none"
  BY DEF NewTransfer, NewPoll
<1>2. reg[f] = NoAddr
  BY <1>1 DEF IInv, StateInv, KnowsItsOp
<1> QED
  BY <1>1, <1>2 DEF TakenStep, IInv, TypeOK

(* A drop takes away only what has not finished. *)
LEMMA DropIsTaken ==
  ASSUME IInv, NEW f \in Futs, Drop(f), reg[f] # NoAddr => ~inner[reg[f]].finished
  PROVE  TakenStep
<1>1. \A g \in Futs \ {f} : reg'[g] = reg[g]
  BY DropKeeps
<1> QED
  BY <1>1 DEF TakenStep

LEMMA FinishIsTaken ==
  ASSUME EchoIInv, NEW t \in Tasks, Finish(t)
  PROVE  TakenStep
<1> USE OwnFuture
<1> DEFINE f == FutureOf(t)
<1>0. f \in Futs /\ IInv /\ Drop(f) /\ running = t /\ stage[t] \in {"expired", "closed", "error"}
  BY DEF EchoIInv, Finish, At, Ended
<1>1. reg[f] # NoAddr => ~inner[reg[f]].finished
  <2>1. CASE stage[t] = "expired"
    BY <1>0, <2>1 DEF EchoIInv, TimeoutInv
  <2>2. CASE stage[t] \in {"closed", "error"} /\ t = Server
    <3>1. ~active[f]
      BY <2>2 DEF EchoIInv, ListenerInv
    <3> QED BY <1>0, <2>2, <3>1 DEF IInv, StateInv, KnowsItsOp
  <2>3. CASE stage[t] \in {"closed", "error"} /\ t # Server
    <3>1. state[f] \in {"none", "Closed"}
      BY <2>3 DEF EchoIInv, ConnectionInv, Connections
    <3> QED BY <1>0, <3>1 DEF IInv, StateInv, KnowsItsOp
  <2> QED BY <1>0, <2>1, <2>2, <2>3
<1> QED
  BY <1>0, <1>1, DropIsTaken

LEMMA ConnectionIsTaken ==
  ASSUME EchoIInv, NEW c \in Connections, ConnectionStep(c)
  PROVE  TakenStep
<1> USE OwnFuture
<1> DEFINE f == TransferOf[c]
<1>0. f \in Transfers /\ f \in Futs /\ c \in Tasks /\ IInv
  BY DEF EchoIInv
<1>1. ASSUME NEW a \in Addrs, NEW o \in Ops, StartTransfer(c, a, o) PROVE TakenStep
  <2>1. CASE NewTransfer(c, f, a, o)
    BY <1>0, <2>1, NewIsTaken
  <2>2. CASE NewTransferFull(c, f)
    BY <2>2 DEF NewTransferFull, TakenStep
  <2> QED BY <1>1, <2>1, <2>2 DEF StartTransfer
<1>2. CASE ReadPending(c) \/ WritePending(c) \/ StartFailed(c)
  <2>1. reg' = reg
    BY <1>2 DEF ReadPending, WritePending, StartFailed, TransferNotReady, TransferFailed, futVars
  <2> QED BY <2>1 DEF TakenStep
<1>3. CASE ReadReady(c) \/ WriteReady(c)
  <2>1. reg' = [reg EXCEPT ![f] = NoAddr] /\ state' = [state EXCEPT ![f] = "Closed"]
    BY <1>3 DEF ReadReady, WriteReady, TransferReady
  <2> HIDE DEF f
  <2> QED BY <1>0, <2>1 DEF TakenStep, IInv, TypeOK
<1>4. CASE EndStatement(c)
  <2>1. Drop(f) /\ stage[c] \in {"start", "echo"}
    BY <1>4 DEF EndStatement, DropFuture, At
  <2>2. state[f] \in {"none", "Closed"}
    BY <2>1 DEF EchoIInv, ConnectionInv
  <2>3. reg[f] = NoAddr
    BY <1>0, <2>2 DEF IInv, StateInv, KnowsItsOp
  <2> QED BY <1>0, <2>1, <2>3, DropIsTaken
<1> QED
  BY <1>1, <1>2, <1>3, <1>4 DEF ConnectionStep

LEMMA ServerIsTaken ==
  ASSUME EchoIInv, ServerStep \/ ServeAcceptFails
  PROVE  TakenStep
<1> USE OwnFuture
<1>1. ASSUME NEW a \in Addrs, Serve(a) PROVE TakenStep
  <2>1. NewPoll(Server, Listener, a) /\ IInv
    BY <1>1 DEF Serve, incoming, EchoIInv
  <2>2. reg' = [reg EXCEPT ![Listener] = a] /\ state[Listener] = "none"
    BY <2>1 DEF NewPoll
  <2>3. reg[Listener] = NoAddr
    BY <2>1, <2>2 DEF IInv, StateInv, KnowsItsOp
  <2> QED BY <2>1, <2>2, <2>3 DEF TakenStep, IInv, TypeOK
<1>2. CASE ServePolls
  BY <1>2 DEF ServePolls, poll_next, PollBegin, AcceptWouldBlock, PollEvents, TakeEvents, vars,
     futVars, TakenStep
<1>3. CASE ServePending
  BY <1>3 DEF ServePending, PollSuspends, PollNotReady, PollQueue, futVars, TakenStep
<1>4. CASE ServeAccepts \/ ServeAcceptFails
  BY <1>4 DEF ServeAccepts, ServeAcceptFails, AcceptOk, AcceptError, futVars, TakenStep
<1>5. CASE ServeFails
  BY <1>5 DEF ServeFails, PollFails, PollQueueError, PollReady, TakeEvents, futVars, TakenStep
<1>6. CASE \E c \in Connections : ServeSpawns(c)
  BY <1>6 DEF ServeSpawns, allVars, vars, futVars, TakenStep
<1> QED
  BY <1>1, <1>2, <1>3, <1>4, <1>5, <1>6 DEF ServerStep

LEMMA NextIsTaken ==
  ASSUME EchoIInv, [EchoNext]_everything
  PROVE  TakenStep
<1>1. ASSUME NEW t \in Tasks, TaskStep(t) PROVE TakenStep
  <2>1. CASE StartAwait(t)
    BY <2>1 DEF StartAwait, Await, futVars, TakenStep
  <2>2. CASE t # Server /\ ConnectionStep(t)
    <3>1. t \in Connections
      BY <2>2 DEF Connections
    <3> QED BY <2>2, <3>1, ConnectionIsTaken
  <2> QED BY <1>1, <2>1, <2>2, FinishIsTaken, ServerIsTaken DEF TaskStep
<1>2. ASSUME \/ \E t \in Tasks : Run(t) \/ DelayFires(t)
             \/ \E o \in Ops : EchoHandles(o) \/ KernelPolls(o) \/ KernelTransfers(o)
                               \/ EchoKernelFails(o)
             \/ Clients \/ UNCHANGED everything
      PROVE  TakenStep
  <2>1. reg' = reg
    <3>1. CASE \E t \in Tasks : Run(t) \/ DelayFires(t)
      BY <3>1 DEF Run, DelayFires, allVars, vars, futVars
    <3>2. CASE \E o \in Ops : EchoHandles(o)
      BY <3>2 DEF EchoHandles, HandleStep, HandleCompletion, futVars
    <3>3. CASE \E o \in Ops : KernelPolls(o) \/ KernelTransfers(o) \/ EchoKernelFails(o)
      BY <3>3 DEF KernelPolls, KernelTransfers, EchoKernelFails, KernelStep, KernelFails,
         KernelTakes, KernelCompletes, futVars
    <3>4. CASE Clients \/ UNCHANGED everything
      BY <3>4 DEF Clients, Connect, AcceptedElsewhere, everything, allVars, vars, futVars
    <3> QED BY <1>2, <3>1, <3>2, <3>3, <3>4
  <2> QED BY <2>1 DEF TakenStep
<1> QED
  BY <1>1, <1>2, ServerIsTaken DEF EchoNext

(* A timeout does not win over a completion: the result of a future that   *)
(* the reactor has notified is taken, whenever the delay fires.            *)
THEOREM EchoNotifiedIsTaken == EchoSpec => NotifiedIsTaken
<1>1. EchoIInv /\ [EchoNext]_everything => [TakenStep]_everything
  BY NextIsTaken
<1> QED
  BY <1>1, EchoInvariant, PTL DEF EchoSpec, NotifiedIsTaken, TakenStep

------------------------------------------------------------------------------
(* The echo server and Delivery *)

(* Steps that touch nothing but tasks, connections and time *)
LEMMA StillUnnoticed ==
  ASSUME IInv, IInv', UNCHANGED <<inner, state, reg, active, op, alive>>
  PROVE  UNCHANGED D!vars
<1>1. \A g \in Futs : Kept(g)
  BY DEF Kept, Mine
<1> QED
  BY <1>1, KeptSame, StutterStep

(* What a task owns at its end is dropped, if there is anything. *)
LEMMA FinishDelivers ==
  ASSUME EchoIInv, EchoIInv', NEW t \in Tasks, Finish(t)
  PROVE  [D!Next]_(D!vars)
<1> DEFINE f == FutureOf(t)
<1>0. f \in Futs /\ IInv /\ IInv' /\ Drop(f)
  BY OwnFuture DEF EchoIInv, Finish
<1> HIDE DEF f
<1>1. CASE state[f] # "none"
  BY <1>0, <1>1, DropLeaves DEF D!Next
<1>2. CASE state[f] = "none"
  <2>1. reg[f] = NoAddr /\ active[f] = FALSE /\ TypeOK /\ OwnerInv /\ NoAddr \notin Addrs
    BY <1>0, <1>2, FuturesAssumption DEF IInv, StateInv, KnowsItsOp, TypeOK
  <2>2. \A o \in Ops : ~Mine(o, f)
    BY <1>0, <1>2, StandsBoth DEF Stands
  <2>3. /\ inner' = inner /\ op' = op /\ alive' = alive
        /\ \A g \in Futs : state'[g] = state[g] /\ reg'[g] = reg[g] /\ active'[g] = active[g]
    BY <1>0, <1>2, <2>1, <2>2 DEF Drop, TypeOK, Mine
  <2>4. \A g \in Futs : Kept(g)
    BY <2>3 DEF Kept, Mine
  <2> QED BY <1>0, <2>3, <2>4, KeptSame, StutterStep
<1> QED
  BY <1>1, <1>2

LEMMA ConnectionDelivers ==
  ASSUME EchoIInv, EchoIInv', NEW c \in Connections, ConnectionStep(c)
  PROVE  [D!Next]_(D!vars)
<1> DEFINE f == TransferOf[c]
<1>0. f \in Transfers /\ f \in Futs /\ c \in Tasks /\ IInv /\ IInv'
  BY OwnFuture DEF EchoIInv
<1>a. ASSUME D!Ask(f) \/ D!Come(f) \/ D!Take(f) \/ D!Leave(f) PROVE D!Next
  BY <1>0, <1>a DEF D!Next
<1>1. ASSUME NEW a \in Addrs, NEW o \in Ops, StartTransfer(c, a, o) PROVE D!Next
  <2>1. NewTransfer(c, f, a, o) \/ NewTransferFull(c, f)
    BY <1>1 DEF StartTransfer
  <2> HIDE DEF f
  <2> QED BY <1>0, <1>a, <2>1, NewTransferAsks, NewFailsComes
<1>2. CASE ReadPending(c) \/ WritePending(c) \/ StartFailed(c)
  <2>1. TransferNotReady(c, f) \/ TransferFailed(c, f)
    BY <1>2 DEF ReadPending, WritePending, StartFailed
  <2> HIDE DEF f
  <2> QED BY <1>0, <2>1, UnnoticedSteps
<1>3. CASE ReadReady(c) \/ WriteReady(c)
  <2>1. TransferReady(c, f)
    BY <1>3 DEF ReadReady, WriteReady
  <2> HIDE DEF f
  <2> QED BY <1>0, <1>a, <2>1, ReadyTakes
<1>4. CASE EndStatement(c)
  <2>1. Drop(f) /\ state[f] # "none"
    BY <1>4 DEF EndStatement, DropFuture, AtHand
  <2> HIDE DEF f
  <2> QED BY <1>0, <1>a, <2>1, DropLeaves
<1> QED
  BY <1>1, <1>2, <1>3, <1>4 DEF ConnectionStep

LEMMA ServerDelivers ==
  ASSUME EchoIInv, EchoIInv', ServerStep \/ ServeAcceptFails
  PROVE  [D!Next]_(D!vars)
<1>0. Server \in Tasks /\ Listener \in Polls /\ Listener \in Futs /\ IInv /\ IInv'
  BY OwnFuture DEF EchoIInv
<1>a. ASSUME D!Ask(Listener) \/ D!Come(Listener) \/ D!Take(Listener) PROVE D!Next
  BY <1>0, <1>a DEF D!Next
<1>1. ASSUME NEW a \in Addrs, Serve(a) PROVE D!Next
  BY <1>0, <1>1, <1>a, NewPollComes DEF Serve, incoming
<1>2. CASE ServePolls
  <2>1. CASE PollEvents(Server)
    BY <1>0, <1>a, <2>1, ReadyTakes DEF PollEvents
  <2>2. CASE PollBegin(Server) \/ AcceptWouldBlock
    BY <1>0, <2>2, UnnoticedSteps DEF PollBegin, AcceptWouldBlock
  <2> QED BY <1>2, <2>1, <2>2 DEF ServePolls, poll_next
<1>3. CASE ServePending
  <2>1. CASE PollNotReady(Server, Listener)
    BY <1>0, <2>1, UnnoticedSteps
  <2>2. CASE \E o \in Ops : PollQueue(Server, Listener, o)
    BY <1>0, <1>a, <2>2, PollQueueAsks
  <2> QED BY <1>3, <2>1, <2>2 DEF ServePending, PollSuspends
<1>4. CASE ServeAccepts \/ ServeAcceptFails
  <2>1. UNCHANGED <<inner, state, reg, active, op, alive>>
    BY <1>4 DEF ServeAccepts, ServeAcceptFails, AcceptOk, AcceptError, futVars
  <2> QED BY <1>0, <2>1, StillUnnoticed
<1>5. CASE ServeFails
  <2>1. CASE PollQueueError(Server, Listener)
    BY <1>0, <2>1, UnnoticedSteps
  <2>2. CASE PollReady(Server, Listener)
    BY <1>0, <1>a, <2>2, ReadyTakes DEF PollReady
  <2> QED BY <1>5, <2>1, <2>2 DEF ServeFails, PollFails
<1>6. CASE \E c \in Connections : ServeSpawns(c)
  BY <1>0, <1>6, UnnoticedSteps DEF ServeSpawns, allVars
<1> QED
  BY <1>1, <1>2, <1>3, <1>4, <1>5, <1>6 DEF ServerStep

LEMMA EchoNextDelivers ==
  ASSUME EchoIInv, EchoIInv', [EchoNext]_everything
  PROVE  [D!Next]_(D!vars)
<1>0. IInv /\ IInv'
  BY DEF EchoIInv
<1>1. ASSUME NEW t \in Tasks, TaskStep(t) PROVE [D!Next]_(D!vars)
  <2>1. CASE StartAwait(t)
    <3>1. UNCHANGED <<inner, state, reg, active, op, alive>>
      BY <2>1 DEF StartAwait, Await, futVars
    <3> QED BY <1>0, <3>1, StillUnnoticed
  <2>2. CASE t # Server /\ ConnectionStep(t)
    <3>1. t \in Connections
      BY <2>2 DEF Connections
    <3> QED BY <2>2, <3>1, ConnectionDelivers
  <2> QED BY <1>1, <2>1, <2>2, FinishDelivers, ServerDelivers DEF TaskStep
<1>2. CASE \E t \in Tasks : Run(t) \/ DelayFires(t)
  <2>1. UNCHANGED <<inner, state, reg, active, op, alive>>
    BY <1>2 DEF Run, DelayFires, allVars, vars, futVars
  <2> QED BY <1>0, <2>1, StillUnnoticed
<1>3. CASE \E o \in Ops : EchoHandles(o)
  BY <1>0, <1>3, HandleCompletionUnnoticed DEF EchoHandles, HandleStep
<1>4. CASE \E o \in Ops : KernelPolls(o) \/ KernelTransfers(o) \/ EchoKernelFails(o)
  <2>1. PICK o \in Ops : KernelTakes(o) \/ \E res \in Results : KernelCompletes(o, res)
    BY <1>4, IncomingAssumption DEF KernelPolls, KernelTransfers, EchoKernelFails, KernelStep,
       KernelFails
  <2> QED BY <1>0, <2>1, KernelCompletesAnswers, UnnoticedSteps
<1>5. CASE Clients \/ UNCHANGED everything
  <2>1. UNCHANGED <<inner, state, reg, active, op, alive>>
    BY <1>5 DEF Clients, Connect, AcceptedElsewhere, everything, allVars, vars, futVars
  <2> QED BY <1>0, <2>1, StillUnnoticed
<1> QED
  BY <1>1, <1>2, <1>3, <1>4, <1>5, ServerDelivers DEF EchoNext

(* The tasks of the echo server, with timeouts that abandon reads and one  *)
(* accept loop on a stream, get from the reactor what Delivery promises:   *)
(* every operation's result once, unchanged, to the future that asked.     *)
THEOREM EchoImplementsDelivery == EchoSpec => ImplementsDelivery
<1>1. EchoInit => D!Init
  BY InitDelivers DEF EchoInit, IncomingInit
<1>2. EchoIInv /\ EchoIInv' /\ [EchoNext]_everything => [D!Next]_(D!vars)
  BY EchoNextDelivers
<1> QED
  BY <1>1, <1>2, EchoInvariant, PTL DEF EchoSpec, ImplementsDelivery, D!Spec
==============================================================================
