------------------------------- MODULE Futures -------------------------------
(***************************************************************************)
(* The futures of tokio-uring-reactor/src/reactor/async_*.rs and who owns  *)
(* the memory their operations use.  A future is created, polled and       *)
(* dropped by tasks of one thread; its operation passes through the        *)
(* submission queue, the kernel and the completion queue and refers to its *)
(* registration by address only.  Futures, registrations and operations    *)
(* come and go, and freed addresses are used again.                        *)
(*                                                                         *)
(* AsyncRead and AsyncWrite have the same code.  The queues are those of   *)
(* Reactor, whose step handle_completion is the only one of interest here. *)
(* External: the kernel, and the executor, which polls a task only when    *)
(* its waker was called.  A task awaits one future at a time.              *)
(*                                                                         *)
(* Assumed of the kernel: as long as there is a reactor every completion   *)
(* finds a place in the completion queue.  Nothing in the code sees to it, *)
(* and a completion that was dropped for a full queue would leave a task   *)
(* asleep and a registration behind; CompletionQueue and Reactor have the  *)
(* loss and say what it does to the ring and to the reactor.               *)
(***************************************************************************)
EXTENDS Registration, FiniteSets

CONSTANTS
  Transfers,   \* AsyncRead and AsyncWrite futures
  Polls,       \* AsyncPoll streams
  Addrs,       \* addresses of registrations
  Ops,         \* bound: operations under way at a time
  SQEntries,   \* places in the submission queue
  NoFut, NoAddr, NoOp

Futs == Transfers \cup Polls

OpRecord == [addr : Addrs, stage : {"sq", "kernel", "cq", "lost"},
             res : Results \cup {NoResult}, owner : Futs \cup {NoFut}]

ASSUME FuturesAssumption ==
  /\ Contents = Futs
  /\ Transfers \cap Polls = {}
  /\ NoFut \notin Futs
  /\ NoAddr \notin Addrs
  /\ NoOp \notin OpRecord
  /\ IsFiniteSet(Ops)
  /\ SQEntries \in Nat \ {0}

VARIABLES
  inner,   \* memory: the registration at each address
  state,   \* State of a transfer; of a stream, whether it exists
  reg,     \* the address of the registration each future owns
  active,  \* AsyncPoll.active
  op,      \* operations: address (user_data), stage, result and, for the
           \* properties, the future that submitted it or NoFut once dropped
  alive,   \* the Reactor exists: Handle::inner_mut succeeds
  ready,   \* tasks in the executor's run queue
  cur,     \* the future each task awaits
  truth    \* for the properties: result of each future's last operation

futVars == <<state, reg, active>>
taskVars == <<ready, cur>>
vars == <<inner, futVars, op, alive, taskVars, truth>>

OpsAt(stages) == {o \in Ops : op[o] # NoOp /\ op[o].stage \in stages}

SqFull == Cardinality(OpsAt({"sq"})) >= SQEntries

Init ==
  /\ inner = [a \in Addrs |-> Freed]
  /\ state = [f \in Futs |-> "none"]
  /\ reg = [f \in Futs |-> NoAddr]
  /\ active = [f \in Futs |-> FALSE]
  /\ op = [o \in Ops |-> NoOp]
  /\ alive = TRUE
  /\ ready = Tasks
  /\ cur = [t \in Tasks |-> NoFut]
  /\ truth = [f \in Futs |-> NoResult]

------------------------------------------------------------------------------
(* Parts of the steps of a future *)

Free(a) == inner[a].strong = 0

(* Task t runs and polls future f. *)
Polling(t, f) == t \in ready /\ cur[t] = f

(* Task t has f at hand: it awaits it, or nobody does. *)
AtHand(t, f) ==
  /\ t \in ready
  /\ state[f] # "none"
  /\ \A u \in Tasks \ {t} : cur[u] # f

(* submit_with fills an entry with the address a for future f. *)
Submit(o, f, a) ==
  /\ alive
  /\ ~SqFull
  /\ op[o] = NoOp
  /\ op' = [op EXCEPT ![o] =
             [addr |-> a, stage |-> "sq", res |-> NoResult, owner |-> f]]
  /\ truth' = [truth EXCEPT ![f] = NoResult]

(* Faulty variant: the closure's reference is lost. *)
ClosureLeaked(i) == Cloned(i)

(* submit_with fails: the closure, which owns the reference made by to_raw *)
(* is dropped without having been called.                                  *)
ClosureDropped(i) == Released(Cloned(i))

(* The task goes to sleep on f; it waits for its waker. *)
Suspend(t) == ready' = ready \ {t} /\ UNCHANGED cur

(* The await ends and the task goes on. *)
Resume(t) == cur' = [cur EXCEPT ![t] = NoFut] /\ UNCHANGED ready

------------------------------------------------------------------------------
(* AsyncRead, AsyncWrite *)

(* new: the context is boxed in a fresh registration and queued. *)
NewTransfer(t, f, a, o) ==
  /\ t \in ready /\ state[f] = "none" /\ Free(a)
  /\ Submit(o, f, a)
  /\ inner' = [inner EXCEPT ![a] = Cloned(NewInner(f))]
  /\ state' = [state EXCEPT ![f] = "Pending"]
  /\ reg' = [reg EXCEPT ![f] = a]
  /\ UNCHANGED <<active, alive, taskVars>>

(* new, when the submission queue is full: the context is taken back with  *)
(* abort(), whose expect() panics if somebody else holds a reference.      *)
NewTransferFull(t, f) ==
  /\ t \in ready /\ state[f] = "none"
  /\ alive /\ SqFull
  /\ state' = [state EXCEPT ![f] = IF Abortable(ClosureDropped(NewInner(f)))
                                     THEN "InitFailed" ELSE "panicked"]
  /\ UNCHANGED <<inner, reg, active, op, alive, taskVars, truth>>

(* new, when the reactor is gone *)
NewTransferDead(t, f) ==
  /\ t \in ready /\ state[f] = "none"
  /\ ~alive
  /\ state' = [state EXCEPT ![f] = "InitFailed"]
  /\ UNCHANGED <<inner, reg, active, op, alive, taskVars, truth>>

(* poll, operation under way *)
TransferNotReady(t, f) ==
  /\ Polling(t, f) /\ state[f] = "Pending"
  /\ ~inner[reg[f]].finished
  /\ inner' = [inner EXCEPT ![reg[f]] = Tracked(@, t)]
  /\ Suspend(t)
  /\ UNCHANGED <<futVars, op, alive, truth>>

(* poll, operation finished: buffer and file go to the task and State      *)
(* becomes Closed, which drops the registration.                           *)
TransferReady(t, f) ==
  /\ Polling(t, f) /\ state[f] = "Pending"
  /\ inner[reg[f]].finished
  /\ inner[reg[f]].data # NoData
  /\ inner' = [inner EXCEPT ![reg[f]] = Released(Taken(@))]
  /\ state' = [state EXCEPT ![f] = "Closed"]
  /\ reg' = [reg EXCEPT ![f] = NoAddr]
  /\ Resume(t)
  /\ UNCHANGED <<active, op, alive, truth>>

(* poll after a failed new returns the error with buffer and file. *)
TransferFailed(t, f) ==
  /\ Polling(t, f) /\ state[f] = "InitFailed"
  /\ state' = [state EXCEPT ![f] = "Closed"]
  /\ Resume(t)
  /\ UNCHANGED <<inner, reg, active, op, alive, truth>>

------------------------------------------------------------------------------
(* AsyncPoll: one registration for any number of polls *)

NewPoll(t, f, a) ==
  /\ t \in ready /\ state[f] = "none" /\ Free(a)
  /\ inner' = [inner EXCEPT ![a] = NewInner(f)]
  /\ state' = [state EXCEPT ![f] = "Stream"]
  /\ reg' = [reg EXCEPT ![f] = a]
  /\ UNCHANGED <<active, op, alive, taskVars, truth>>

Queued(i, t) == Tracked(Cloned(i), t)

(* poll, nothing under way: the poll is queued and the waker registered. *)
PollQueue(t, f, o) ==
  /\ Polling(t, f) /\ state[f] = "Stream" /\ ~active[f]
  /\ Submit(o, f, reg[f])
  /\ inner' = [inner EXCEPT ![reg[f]] = Queued(@, t)]
  /\ active' = [active EXCEPT ![f] = TRUE]
  /\ Suspend(t)
  /\ UNCHANGED <<state, reg, alive>>

(* The queue is full or the reactor gone: an error, active stays false. *)
PollQueueError(t, f) ==
  /\ Polling(t, f) /\ state[f] = "Stream" /\ ~active[f]
  /\ ~alive \/ SqFull
  /\ inner' = [inner EXCEPT ![reg[f]] = IF alive THEN ClosureDropped(@) ELSE @]
  /\ Resume(t)
  /\ UNCHANGED <<futVars, op, alive, truth>>

PollNotReady(t, f) ==
  /\ Polling(t, f) /\ state[f] = "Stream" /\ active[f]
  /\ ~inner[reg[f]].finished
  /\ inner' = [inner EXCEPT ![reg[f]] = Tracked(@, t)]
  /\ Suspend(t)
  /\ UNCHANGED <<futVars, op, alive, truth>>

(* Faulty variant: the stream is not reset. *)
ActiveKept(f) == active

ActiveReset(f) == [active EXCEPT ![f] = FALSE]

(* poll, finished: the stream is ready for its next poll. *)
TakeEvents(t, f) ==
  /\ Polling(t, f) /\ state[f] = "Stream" /\ active[f]
  /\ inner[reg[f]].finished
  /\ inner' = [inner EXCEPT ![reg[f]] = Reset(@)]
  /\ active' = ActiveReset(f)
  /\ UNCHANGED <<state, reg, op, alive, truth>>

(* The task gets the events, or the error of the operation. *)
PollReady(t, f) == TakeEvents(t, f) /\ Resume(t)

------------------------------------------------------------------------------
(* Faulty variant: dropping a future frees its registration at once. *)
DroppedFrees(i) == Freed

Dropped(i) == Released(i)

(* Drop of a future in any state.  Its operation is not cancelled (TODO in *)
(* async_poll.rs) and keeps the registration.                              *)
Drop(f) ==
  /\ inner' = [a \in Addrs |-> IF a = reg[f] THEN Dropped(inner[a]) ELSE inner[a]]
  /\ state' = [state EXCEPT ![f] = "none"]
  /\ reg' = [reg EXCEPT ![f] = NoAddr]
  /\ active' = [active EXCEPT ![f] = FALSE]
  /\ op' = [o \in Ops |-> IF op[o] # NoOp /\ op[o].owner = f
                            THEN [op[o] EXCEPT !.owner = NoFut] ELSE op[o]]
  /\ truth' = [truth EXCEPT ![f] = NoResult]
  /\ UNCHANGED alive

DropFuture(t, f) ==
  /\ AtHand(t, f) /\ cur[t] \in {f, NoFut}
  /\ Drop(f)
  /\ Resume(t)

(* External: what tasks do besides polling.  A task starts to await a      *)
(* future that no other one awaits, gives it to another task, waits for    *)
(* something else, or is woken by something else, a timeout for example.   *)
Await(t, f) ==
  /\ AtHand(t, f) /\ cur[t] = NoFut
  /\ state[f] \in {"Pending", "InitFailed", "Stream"}
  /\ cur' = [cur EXCEPT ![t] = f]
  /\ UNCHANGED <<inner, futVars, op, alive, ready, truth>>

GiveUp(t, f) ==
  /\ Polling(t, f)
  /\ Resume(t)
  /\ UNCHANGED <<inner, futVars, op, alive, truth>>

SleepOtherwise(t) ==
  /\ t \in ready /\ cur[t] = NoFut
  /\ Suspend(t)
  /\ UNCHANGED <<inner, futVars, op, alive, truth>>

WakeOtherwise(t) ==
  /\ t \notin ready
  /\ ready' = ready \cup {t}
  /\ UNCHANGED <<inner, futVars, op, alive, cur, truth>>

------------------------------------------------------------------------------
(* Faulty variant: the result is not stored. *)
HandledSilently(i, res) == Released(i)

(* Faulty variant: the raw reference is dropped twice. *)
HandledTwice(i, res) == Released(Released(Notified(i, res)))

Handled(i, res) == Released(Notified(i, res))

(* handle_completion of an operation: the reference comes back from the    *)
(* user_data, the waker is called and the reference dropped.               *)
HandleCompletion(o) ==
  /\ alive
  /\ o \in OpsAt({"cq"})
  /\ LET a == op[o].addr IN
       /\ inner' = [inner EXCEPT ![a] = Handled(@, op[o].res)]
       /\ ready' = ready \cup ({inner[a].waker} \ {NoTask})
  /\ op' = [op EXCEPT ![o] = NoOp]
  /\ UNCHANGED <<futVars, alive, cur, truth>>

(* Faulty variant: the reactor takes the references of the operations that *)
(* are still under way along with it.                                      *)
LeftBehindReleased(a) ==
  IF \E o \in Ops : op[o] # NoOp /\ op[o].addr = a THEN Released(inner[a]) ELSE inner[a]

LeftBehind(a) == inner[a]

(* Drop of the Reactor, the only strong reference to its Inner: the rings  *)
(* are closed.  What was queued or completed is not looked at any more,    *)
(* the kernel goes on with the rest, and no reference is given back.       *)
DropReactor ==
  /\ alive
  /\ alive' = FALSE
  /\ op' = [o \in Ops |-> IF o \in OpsAt({"sq", "cq"})
                            THEN [op[o] EXCEPT !.stage = "lost"] ELSE op[o]]
  /\ inner' = [a \in Addrs |-> LeftBehind(a)]
  /\ UNCHANGED <<futVars, taskVars, truth>>

(* External: the kernel *)
KernelTakes(o) ==
  /\ o \in OpsAt({"sq"})
  /\ op' = [op EXCEPT ![o].stage = "kernel"]
  /\ UNCHANGED <<inner, futVars, alive, taskVars, truth>>

(* The completion queue has room; without a reactor nobody looks at it. *)
KernelCompletes(o, res) ==
  /\ o \in OpsAt({"kernel"})
  /\ op' = [op EXCEPT ![o].stage = IF alive THEN "cq" ELSE "lost", ![o].res = res]
  /\ truth' = [f \in Futs |-> IF f = op[o].owner THEN res ELSE truth[f]]
  /\ UNCHANGED <<inner, futVars, alive, taskVars>>

TransferPoll(t) ==
  \E f \in Transfers :
    TransferNotReady(t, f) \/ TransferReady(t, f) \/ TransferFailed(t, f)

StreamPoll(t) ==
  \E f \in Polls :
    \/ \E o \in Ops : PollQueue(t, f, o)
    \/ PollQueueError(t, f) \/ PollNotReady(t, f) \/ PollReady(t, f)

Create(t) ==
  \/ \E f \in Transfers :
       \/ \E a \in Addrs, o \in Ops : NewTransfer(t, f, a, o)
       \/ NewTransferFull(t, f) \/ NewTransferDead(t, f)
  \/ \E f \in Polls, a \in Addrs : NewPoll(t, f, a)

Otherwise(t) ==
  \/ \E f \in Futs : DropFuture(t, f) \/ Await(t, f) \/ GiveUp(t, f)
  \/ SleepOtherwise(t) \/ WakeOtherwise(t)

Kernel(o) == KernelTakes(o) \/ \E res \in Results : KernelCompletes(o, res)

Next ==
  \/ \E t \in Tasks : Create(t) \/ TransferPoll(t) \/ StreamPoll(t) \/ Otherwise(t)
  \/ \E o \in Ops : HandleCompletion(o) \/ Kernel(o)
  \/ DropReactor

Spec == Init /\ [][Next]_vars

------------------------------------------------------------------------------
TypeOK ==
  /\ inner \in [Addrs -> Inner]
  /\ state \in [Futs -> {"none", "Pending", "InitFailed", "Closed", "Stream", "panicked"}]
  /\ reg \in [Futs -> Addrs \cup {NoAddr}]
  /\ active \in [Futs -> BOOLEAN]
  /\ op \in [Ops -> OpRecord \cup {NoOp}]
  /\ alive \in BOOLEAN
  /\ ready \subseteq Tasks
  /\ cur \in [Tasks -> Futs \cup {NoFut}]
  /\ truth \in [Futs -> Results \cup {NoResult}]

(* The operation of f, if it has one that is not handled yet *)
OwnOps(f) == {o \in Ops : op[o] # NoOp /\ op[o].owner = f}

(* The owners of the registration at a: futures, and operations that have  *)
(* its address as user_data                                                *)
FutsOn(a) == {f \in Futs : reg[f] = a}
OpsOn(a) == {o \in Ops : op[o] # NoOp /\ op[o].addr = a}

(* The reference count of a registration is the number of its owners, a    *)
(* future and an operation: it is freed when the last of them is done with *)
(* it, neither earlier nor later.  Only operations that a dropped reactor  *)
(* left behind keep theirs for ever.                                       *)
CountIsOwners ==
  \A a \in Addrs : inner[a].strong = Cardinality(FutsOn(a)) + Cardinality(OpsOn(a))

(* While the kernel may use it the memory of an operation stays where it   *)
(* is: its registration is not freed, and buffer and file are not handed   *)
(* back, whether or not future and reactor still exist.                    *)
KernelMemoryStays ==
  \A o \in OpsAt({"sq", "kernel"}) :
    /\ inner[op[o].addr].strong > 0
    /\ inner[op[o].addr].data # NoData

(* No assertion fails: a completion finds a registration that is allocated *)
(* and not finished yet, although streams use theirs again and again, and  *)
(* abort() is always called by the last owner.                             *)
NoPanic ==
  /\ \A o \in OpsAt({"cq"}) :
       inner[op[o].addr].strong > 0 /\ ~inner[op[o].addr].finished
  /\ \A f \in Futs : state[f] # "panicked"

(* A stream knows whether it has a poll under way: active holds exactly    *)
(* while one operation of it exists or its result waits to be taken, never *)
(* both, so that no poll is queued twice and none is waited for that was   *)
(* never queued, through errors, full queues and reuse.                    *)
ActiveIsExact ==
  \A f \in Polls :
    Cardinality(OwnOps(f))
      + (IF reg[f] # NoAddr /\ inner[reg[f]].finished THEN 1 ELSE 0)
    = IF active[f] THEN 1 ELSE 0

(* An operation outlives its future, and addresses are used again: still a *)
(* future sees the result of its own last operation and gets back the      *)
(* buffer it was created with.                                             *)
ResultIsOwn ==
  \A f \in Futs : reg[f] # NoAddr =>
    /\ inner[reg[f]].data = f
    /\ inner[reg[f]].finished => inner[reg[f]].result = truth[f] /\ truth[f] # NoResult

(* What task t awaits has an operation under way and t's waker. *)
IsTracked(t) ==
  /\ inner[reg[cur[t]]].waker = t
  /\ \E o \in OpsAt({"sq", "kernel", "cq"}) : op[o].owner = cur[t]

(* A task that sleeps on a future will be woken: the operation is under    *)
(* way and its registration has this task's waker, also after the future   *)
(* went from one task to another.  A dead reactor wakes nobody.            *)
SleeperIsTracked ==
  \A t \in Tasks \ ready : cur[t] # NoFut /\ alive => IsTracked(t)

------------------------------------------------------------------------------
(* The inductive invariant, of which the properties above are consequences. *)

HasFut(a) == \E f \in Futs : reg[f] = a
HasOp(a) == \E o \in Ops : op[o] # NoOp /\ op[o].addr = a

(* A registration has at most one future and one operation, the future's   *)
(* own if there is a future, and a reference for each.                     *)
OwnerInv ==
  /\ \A f, g \in Futs : reg[f] = reg[g] /\ reg[f] # NoAddr => f = g
  /\ \A o, p \in Ops :
       op[o] # NoOp /\ op[p] # NoOp /\ op[o].addr = op[p].addr => o = p
  /\ \A o \in Ops, f \in Futs :
       op[o] # NoOp => (op[o].owner = f <=> reg[f] = op[o].addr)
  /\ \A a \in Addrs :
       /\ HasFut(a) /\ HasOp(a) => inner[a].strong = 2
       /\ HasFut(a) /\ ~HasOp(a) => inner[a].strong = 1
       /\ ~HasFut(a) /\ HasOp(a) => inner[a].strong = 1
       /\ ~HasFut(a) /\ ~HasOp(a) => inner[a].strong = 0

(* f has asked and not taken the answer yet. *)
Asking(f) == state[f] = "Pending" \/ active[f]

(* f knows whether it has an operation under way or a result to take. *)
KnowsItsOp(f) ==
  /\ reg[f] # NoAddr <=> state[f] \in {"Pending", "Stream"}
  /\ active[f] => state[f] = "Stream"
  /\ reg[f] # NoAddr => inner[reg[f]].data = f
  /\ Asking(f) => inner[reg[f]].finished \/ HasOp(reg[f])
  /\ state[f] = "Stream" /\ ~active[f] => ~inner[reg[f]].finished /\ ~HasOp(reg[f])

(* The states of futures, and an operation's memory while it is under way *)
StateInv ==
  /\ \A f \in Transfers : state[f] \in {"none", "Pending", "InitFailed", "Closed"}
  /\ \A f \in Polls : state[f] \in {"none", "Stream"}
  /\ \A f \in Futs : KnowsItsOp(f)
  /\ \A o \in Ops : op[o] # NoOp =>
       ~inner[op[o].addr].finished /\ inner[op[o].addr].data # NoData

(* Results are on their way to the future they belong to, and only a       *)
(* dropped reactor loses any.                                              *)
ResultInv ==
  /\ \A f \in Futs : reg[f] # NoAddr /\ inner[reg[f]].finished =>
       inner[reg[f]].result = truth[f] /\ truth[f] \in Results
  /\ \A o \in Ops : op[o] # NoOp /\ op[o].stage = "cq" =>
       op[o].res \in Results /\ \A f \in Futs : op[o].owner = f => op[o].res = truth[f]
  /\ \A o \in Ops : op[o] # NoOp =>
       IF alive THEN op[o].stage # "lost" ELSE op[o].stage \in {"kernel", "lost"}

(* Who awaits what *)
AwaitInv ==
  /\ \A t, u \in Tasks : cur[t] = cur[u] /\ cur[t] # NoFut => t = u
  /\ \A t \in Tasks : cur[t] # NoFut => state[cur[t]] \in {"Pending", "InitFailed", "Stream"}

IInv == TypeOK /\ OwnerInv /\ StateInv /\ ResultInv /\ AwaitInv /\ SleeperIsTracked

------------------------------------------------------------------------------
(* What f itself takes its operation to be, and if there is one, how far   *)
(* it has come; "stuck" is a future that waits for nothing.                *)
StatusOf(f) ==
  IF state[f] = "none" THEN "absent"
  ELSE IF ~Asking(f) THEN "idle"
  ELSE IF inner[reg[f]].finished \/ OwnOps(f) \cap OpsAt({"cq"}) # {} THEN "answered"
  ELSE IF OwnOps(f) \cap OpsAt({"lost"}) # {} THEN "lost"
  ELSE IF OwnOps(f) \cap OpsAt({"sq", "kernel"}) # {} THEN "waiting"
  ELSE "stuck"

AnswerOf(f) ==
  IF StatusOf(f) # "answered" THEN NoResult
  ELSE IF OwnOps(f) # {} THEN op[CHOOSE o \in OwnOps(f) : TRUE].res
  ELSE inner[reg[f]].result

D == INSTANCE Delivery WITH
       Clients <- Futs, Answers <- Results, NoAnswer <- NoResult,
       up <- alive, status <- [f \in Futs |-> StatusOf(f)],
       answer <- [f \in Futs |-> AnswerOf(f)]

(* Registrations, their addresses in user_data and handle_completion       *)
(* deliver every result exactly once, to the future that asked and as the  *)
(* kernel gave it, while futures are dropped and addresses used again.     *)
ImplementsDelivery == D!Spec
==============================================================================
