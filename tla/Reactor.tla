------------------------------- MODULE Reactor -------------------------------
(***************************************************************************)
(* tokio-uring-reactor/src/reactor.rs: the reactor thread submits          *)
(* operations, sleeps in io_uring_enter and dispatches completions, while  *)
(* the kernel completes operations and other threads call unpark().        *)
(*                                                                         *)
(* The two rings are bags of user_data here: SubmissionQueue and           *)
(* CompletionQueue show that they deliver every entry once, and the kernel *)
(* completes operations in any order.  The user_data of an operation is    *)
(* its registration; TIMER and PARK stand for the two odd values the       *)
(* reactor uses itself.  External: the kernel (rings, timerfd, pipe) and   *)
(* the executor, which runs the tasks that are ready between two parks.    *)
(***************************************************************************)
EXTENDS Unpark, FiniteSets

CONSTANTS
  Regs,         \* registrations; each is polled by one task of its own
  SQEntries,    \* places in the submission queue
  CQEntries,    \* places in the completion queue
  TickFence,    \* the executor looks at its run queue only after the reactor
                \* thread's earlier stores are visible
  FailingPolls  \* of TIMER and PARK, those whose poll the kernel may fail

TIMER == "TIMER"
PARK == "PARK"
UserData == Regs \cup {TIMER, PARK}

ASSUME ReactorAssumption ==
  /\ TIMER \notin Regs /\ PARK \notin Regs
  /\ IsFiniteSet(Regs)
  /\ SQEntries \in Nat \ {0}
  /\ CQEntries \in Nat \ {0}
  /\ TickFence \in BOOLEAN
  /\ FailingPolls \subseteq {TIMER, PARK}

VARIABLES
  requeue_timer, timer_pending, requeue_park, active_wait,  \* CompletionState
  sq,        \* queued, not yet taken by the kernel
  inflight,  \* taken by the kernel, not yet completed
  cq,        \* completed, not yet handled
  held,      \* handled since check_completions began: places not yet freed
  lost,      \* for the properties: operations whose completion did not fit
  timer,     \* the timerfd: "off", "armed" or "expired"
  pc,        \* where the reactor thread is; "exec" outside of park_inner
  wait,      \* the local variable wait of park_inner
  timeout,   \* the argument timeout of park_inner is Some(_)
  reg,       \* state of each registration
  waker,     \* registrations with a waker
  ready      \* tasks in the executor's run queue

stateVars == <<requeue_timer, timer_pending, requeue_park, active_wait>>
ringVars == <<sq, inflight, cq, held, lost>>
callVars == <<pc, wait, timeout>>
taskVars == <<reg, waker, ready>>
vars == <<stateVars, ringVars, timer, callVars, taskVars, parkVars, upc>>

None == [u \in UserData |-> 0]

(* The number of entries in a bag *)
Count(bag) == Cardinality(UNION {{u} \X (1..bag[u]) : u \in UserData})

(* Faulty variant: one entry too many. *)
SqFullLate == Count(sq) > SQEntries

(* submit_with returns QueueFull. *)
SqFull == Count(sq) >= SQEntries

(* submit_with filled an entry with user_data u; its BulkSubmission is     *)
(* dropped at once, which publishes it.                                    *)
QueueEntry(u) ==
  /\ sq' = [sq EXCEPT ![u] = @ + 1]
  /\ active_wait' = active_wait + 1

queue_timer_poll == QueueEntry(TIMER)
queue_park_read == QueueEntry(PARK)

(* CompletionState::new, Inner::build *)
Init ==
  /\ requeue_timer = TRUE
  /\ timer_pending = FALSE
  /\ requeue_park = TRUE
  /\ active_wait = 0
  /\ sq = None /\ inflight = None /\ cq = None /\ held = 0 /\ lost = {}
  /\ timer = "off"
  /\ pc = "exec"
  /\ wait = FALSE
  /\ timeout = FALSE
  /\ reg = [r \in Regs |-> "idle"]
  /\ waker = {}
  /\ ready = Regs
  /\ UnparkInit

------------------------------------------------------------------------------
(* The futures, polled by the executor.  A task that is polled leaves the  *)
(* run queue.                                                              *)

(* queue_async_read, queue_async_write, queue_async_poll: the registration *)
(* goes into the entry as user_data.  The future has no waker yet: it is   *)
(* polled later.                                                           *)
QueueAsync(r) ==
  /\ pc = "exec" /\ r \in ready /\ reg[r] = "idle"
  /\ ~SqFull
  /\ QueueEntry(r)
  /\ reg' = [reg EXCEPT ![r] = "active"]
  /\ UNCHANGED <<requeue_timer, timer_pending, requeue_park, inflight, cq, held, lost,
                 timer, callVars, waker, ready, parkVars, upc>>

(* The submission queue is full: the future fails with an error. *)
QueueAsyncFull(r) ==
  /\ pc = "exec" /\ r \in ready /\ reg[r] = "idle"
  /\ SqFull
  /\ ready' = ready \ {r}
  /\ UNCHANGED <<stateVars, ringVars, timer, callVars, reg, waker, parkVars, upc>>

(* Registration::poll, poll_stream_and_reset: not finished *)
PollNotReady(r) ==
  /\ pc = "exec" /\ r \in ready /\ reg[r] = "active"
  /\ waker' = waker \cup {r}
  /\ ready' = ready \ {r}
  /\ UNCHANGED <<stateVars, ringVars, timer, callVars, reg, parkVars, upc>>

(* Finished: the result is taken and the task goes on. *)
PollReady(r) ==
  /\ pc = "exec" /\ r \in ready /\ reg[r] = "finished"
  /\ reg' = [reg EXCEPT ![r] = "idle"]
  /\ UNCHANGED <<stateVars, ringVars, timer, callVars, waker, ready, parkVars, upc>>

(* The task drops its future (after a timeout): the entry's raw reference  *)
(* alone keeps the registration of an operation that is under way.         *)
DropFuture(r) ==
  /\ pc = "exec" /\ r \in ready /\ reg[r] \in {"active", "finished"}
  /\ reg' = [reg EXCEPT ![r] = IF @ = "active" THEN "orphan" ELSE "idle"]
  /\ UNCHANGED <<stateVars, ringVars, timer, callVars, waker, ready, parkVars, upc>>

(* External: the task has nothing to wait for here. *)
TaskIdle(r) ==
  /\ pc = "exec" /\ r \in ready /\ reg[r] \in {"idle", "orphan"}
  /\ ready' = ready \ {r}
  /\ UNCHANGED <<stateVars, ringVars, timer, callVars, reg, waker, parkVars, upc>>

RunTask(r) ==
  \/ QueueAsync(r) \/ QueueAsyncFull(r) \/ PollNotReady(r) \/ PollReady(r)
  \/ DropFuture(r) \/ TaskIdle(r)

------------------------------------------------------------------------------
(* park(), park_timeout(): the executor waits only if its run queue is     *)
(* empty; with ready tasks it calls park_timeout(0).                       *)
Park(w, t) ==
  /\ pc = "exec"
  /\ TickFence => sbuf = {}
  /\ w => ready = {}
  /\ t => w
  /\ pc' = "check1"
  /\ wait' = w
  /\ timeout' = t
  /\ UNCHANGED <<stateVars, ringVars, timer, taskVars, parkVars, upc>>

CountedDown == active_wait - 1

(* The part of handle_completion common to every user_data but 0 *)
TakeCompletion(u) ==
  /\ pc \in {"check1", "check2"}
  /\ cq[u] > 0
  /\ cq' = [cq EXCEPT ![u] = @ - 1]
  /\ held' = held + 1
  /\ active_wait' = CountedDown
  /\ wait' = FALSE
  /\ UNCHANGED <<sq, inflight, lost, timer, pc, timeout>>

(* CompatWaker::notify, the executor's notification of a task included:    *)
(* the task enters the run queue and unpark() is called if it was not in.  *)
NotifyTask(r) ==
  /\ waker' = waker \ {r}
  /\ IF r \in waker /\ r \notin ready
       THEN ready' = ready \cup {r} /\ UnparkSelf
       ELSE UNCHANGED <<ready, parkVars, upc>>

(* handle_completion of an operation: RawRegistration::notify, then the    *)
(* raw reference is dropped.                                               *)
HandleOperation(r) ==
  /\ TakeCompletion(r)
  /\ reg' = [reg EXCEPT ![r] = IF @ = "orphan" THEN "idle" ELSE "finished"]
  /\ NotifyTask(r)
  /\ UNCHANGED <<requeue_timer, timer_pending, requeue_park>>

(* The results of the two polls are not looked at: an error is taken for a *)
(* wakeup too.                                                             *)
HandleTimer ==
  /\ TakeCompletion(TIMER)
  /\ requeue_timer' = TRUE
  /\ timer_pending' = TRUE
  /\ UNCHANGED <<requeue_park, taskVars, parkVars, upc>>

HandlePark ==
  /\ TakeCompletion(PARK)
  /\ clear_event
  /\ requeue_park' = TRUE
  /\ UNCHANGED <<requeue_timer, timer_pending, taskVars>>

(* check_completions ends when the ring is empty; its iterator then frees  *)
(* the places of the entries it returned.                                  *)
EndCheck ==
  /\ pc \in {"check1", "check2"}
  /\ cq = None
  /\ held' = 0
  /\ pc' = IF pc = "check1" THEN "peek" ELSE "exec"
  /\ UNCHANGED <<stateVars, sq, inflight, cq, lost, timer, wait, timeout, taskVars,
                 parkVars, upc>>

(* No need to prepare a wait if an unpark is pending already. *)
PeekPending ==
  /\ pc = "peek"
  /\ wait' = (wait /\ ~PendingSeen)
  /\ pc' = "timer"
  /\ UNCHANGED <<stateVars, ringVars, timer, timeout, taskVars, parkVars, upc>>

(* Faulty variants: a triggered timer is not disarmed; a timed wait does   *)
(* not arm the timer.                                                      *)
TimerSettingKept == IF timeout THEN "armed" ELSE timer
TimerSettingUnarmed == IF timer_pending THEN "off" ELSE timer

(* A timed wait arms the timer, another one disarms it after it triggered. *)
TimerSetting ==
  IF timeout THEN "armed" ELSE IF timer_pending THEN "off" ELSE timer

TimerDue == wait /\ requeue_timer

(* With the timer set, its poll is queued if it is not under way.  If the  *)
(* submission queue is full the thread must not wait.                      *)
ArmTimer ==
  /\ pc = "timer"
  /\ pc' = "park"
  /\ timer' = IF wait THEN TimerSetting ELSE timer
  /\ timer_pending' = (timer_pending /\ ~wait)
  /\ IF TimerDue /\ ~SqFull
       THEN queue_timer_poll /\ requeue_timer' = FALSE
       ELSE UNCHANGED <<sq, active_wait, requeue_timer>>
  /\ wait' = (wait /\ ~(TimerDue /\ SqFull))
  /\ UNCHANGED <<requeue_park, inflight, cq, held, lost, timeout, taskVars, parkVars, upc>>

(* Faulty variant: the poll of the pipe is queued for every wait. *)
ParkDueAlways == wait

ParkDue == wait /\ requeue_park

QueuePark ==
  /\ pc = "park"
  /\ pc' = "enter"
  /\ IF ParkDue /\ ~SqFull
       THEN queue_park_read /\ requeue_park' = FALSE
       ELSE UNCHANGED <<sq, active_wait, requeue_park>>
  /\ wait' = (wait /\ ~(ParkDue /\ SqFull))
  /\ UNCHANGED <<requeue_timer, timer_pending, inflight, cq, held, lost, timer, timeout,
                 taskVars, parkVars, upc>>

ParkEnter ==
  /\ pc = "enter"
  /\ EnterStore
  /\ pc' = "allow"
  /\ UNCHANGED <<stateVars, ringVars, timer, wait, timeout, taskVars>>

(* Second half of Park::enter; park_inner returns early if it has nothing  *)
(* to submit and does not wait.                                            *)
ParkAllow ==
  /\ pc = "allow"
  /\ wait' = (wait /\ AllowWait)
  /\ pc' = IF sq = None /\ ~wait' THEN "quit" ELSE "syscall"
  /\ UNCHANGED <<stateVars, ringVars, timer, timeout, taskVars, parkVars, upc>>

(* io_uring_enter takes the pending submissions, or some of them and then  *)
(* returns at once: enter() does not look at the number that were taken.   *)
EnterSubmit(part) ==
  /\ pc = "syscall"
  /\ inflight' = [u \in UserData |-> inflight[u] + IF u \in part THEN sq[u] ELSE 0]
  /\ sq' = [u \in UserData |-> IF u \in part THEN 0 ELSE sq[u]]
  /\ pc' = IF wait /\ sq' = None THEN "blocked" ELSE "leave"
  /\ UNCHANGED <<stateVars, cq, held, lost, timer, wait, timeout, taskVars, parkVars, upc>>

(* io_uring_enter fails before it took anything. *)
EnterFails ==
  /\ pc = "syscall"
  /\ pc' = "quit"
  /\ UNCHANGED <<stateVars, ringVars, timer, wait, timeout, taskVars, parkVars, upc>>

(* min_complete = 1: one completion in the ring ends the wait. *)
EnterReturns ==
  /\ pc = "blocked"
  /\ cq # None
  /\ pc' = "leave"
  /\ UNCHANGED <<stateVars, ringVars, timer, wait, timeout, taskVars, parkVars, upc>>

(* A signal ends the wait, with an error or with the number submitted. *)
EnterInterrupted ==
  /\ pc = "blocked"
  /\ pc' \in {"leave", "quit"}
  /\ UNCHANGED <<stateVars, ringVars, timer, wait, timeout, taskVars, parkVars, upc>>

(* ParkEntered is dropped on every way out; only a successful call of      *)
(* io_uring_enter is followed by check_completions.  The arguments of      *)
(* park_inner are not used after this.                                     *)
LeavePark ==
  /\ pc \in {"leave", "quit"}
  /\ DropEntered
  /\ pc' = IF pc = "leave" THEN "check2" ELSE "exec"
  /\ wait' = FALSE
  /\ timeout' = FALSE
  /\ UNCHANGED <<stateVars, ringVars, timer, taskVars>>

ParkInner ==
  \/ \E r \in Regs : HandleOperation(r)
  \/ HandleTimer \/ HandlePark \/ EndCheck \/ PeekPending \/ ArmTimer \/ QueuePark
  \/ ParkEnter \/ ParkAllow \/ EnterSubmit(UserData) \/ EnterReturns \/ LeavePark

------------------------------------------------------------------------------
(* External: the kernel *)

(* A poll completes when its file is readable, an operation at any time. *)
Completable(u) ==
  /\ u = TIMER => timer = "expired"
  /\ u = PARK => pipe > 0

KernelPosts(u) ==
  /\ inflight[u] > 0
  /\ Count(cq) + held < CQEntries
  /\ inflight' = [inflight EXCEPT ![u] = @ - 1]
  /\ cq' = [cq EXCEPT ![u] = @ + 1]
  /\ UNCHANGED <<stateVars, sq, held, lost, timer, callVars, taskVars, parkVars, upc>>

KernelCompletes(u) == Completable(u) /\ KernelPosts(u)

(* A poll that cannot be set up completes at once, with an error. *)
KernelFails(u) == u \in FailingPolls /\ KernelPosts(u)

(* The completion queue is full: the completion is lost. *)
KernelOverflows(u) ==
  /\ inflight[u] > 0
  /\ Completable(u) \/ u \in FailingPolls
  /\ Count(cq) + held >= CQEntries
  /\ inflight' = [inflight EXCEPT ![u] = @ - 1]
  /\ lost' = lost \cup {u}
  /\ UNCHANGED <<stateVars, sq, cq, held, timer, callVars, taskVars, parkVars, upc>>

TimerExpires ==
  /\ timer = "armed"
  /\ timer' = "expired"
  /\ UNCHANGED <<stateVars, ringVars, callVars, taskVars, parkVars, upc>>

Kernel ==
  \/ \E u \in UserData : KernelCompletes(u) \/ KernelFails(u) \/ KernelOverflows(u)
  \/ TimerExpires

(* External: another thread notifies a task, then calls unpark(). *)
Notify(t, r) ==
  /\ upc[t] = "idle"
  /\ r \notin ready
  /\ ready' = ready \cup {r}
  /\ upc' = [upc EXCEPT ![t] = "swap"]
  /\ UNCHANGED <<stateVars, ringVars, timer, callVars, reg, waker, parkVars>>

UnparkStep(t) ==
  /\ UnparkSwap(t) \/ UnparkLoad(t) \/ UnparkWrite(t)
  /\ UNCHANGED <<stateVars, ringVars, timer, callVars, taskVars>>

MemoryStep(f) ==
  /\ StoreVisible(f)
  /\ UNCHANGED <<stateVars, ringVars, timer, callVars, taskVars>>

CallPark == \E w, t \in BOOLEAN : Park(w, t)

Next ==
  \/ \E r \in Regs : RunTask(r)
  \/ CallPark \/ ParkInner \/ EnterFails \/ EnterInterrupted
  \/ \E part \in SUBSET UserData : EnterSubmit(part)
  \/ Kernel
  \/ \E t \in Threads : UnparkStep(t) \/ \E r \in Regs : Notify(t, r)
  \/ \E f \in Flags : MemoryStep(f)

Spec == Init /\ [][Next]_vars

(* The threads run, stores become visible, a poll of a readable file       *)
(* completes, the timer expires and the executor calls park() again and    *)
(* again.  Nothing is assumed about the tasks, about the time an operation *)
(* takes, about signals or about other threads' notifications.             *)
Fairness ==
  /\ WF_vars(ParkInner)
  /\ WF_vars(CallPark)
  /\ \A t \in Threads : WF_vars(UnparkStep(t))
  /\ \A f \in Flags : WF_vars(MemoryStep(f))
  /\ WF_vars(TimerExpires)
  /\ \A u \in {TIMER, PARK} : WF_vars(KernelCompletes(u))

FairSpec == Spec /\ Fairness
------------------------------------------------------------------------------
TypeOK ==
  /\ {requeue_timer, timer_pending, requeue_park, wait, timeout} \subseteq BOOLEAN
  /\ active_wait \in Nat
  /\ sq \in [UserData -> Nat] /\ Count(sq) <= SQEntries
  /\ inflight \in [UserData -> Nat]
  /\ cq \in [UserData -> Nat]
  /\ held \in Nat
  /\ lost \subseteq UserData
  /\ timer \in {"off", "armed", "expired"}
  /\ pc \in {"exec", "check1", "peek", "timer", "park", "enter", "allow",
             "syscall", "blocked", "leave", "quit", "check2"}
  /\ reg \in [Regs -> {"idle", "active", "orphan", "finished"}]
  /\ waker \subseteq Regs
  /\ ready \subseteq Regs
  /\ UnparkTypeOK

(* Operations of user_data u that the code still expects a completion for *)
Outstanding(u) == sq[u] + inflight[u] + cq[u]

Expected(u) ==
  \/ u = TIMER /\ ~requeue_timer
  \/ u = PARK /\ ~requeue_park
  \/ u \in Regs /\ reg[u] \in {"active", "orphan"}

(* Each registration, the timer poll and the park poll are under way       *)
(* exactly when the reactor's flags say so, and never twice: notify() does *)
(* not hit its assertion that the registration is not finished, no poll is *)
(* queued a second time or forgotten, and active_wait counts them, so that *)
(* its decrement in handle_completion never underflows.  Completions lost  *)
(* to a full queue stay expected and counted for ever, and do no more.     *)
OneCompletionEach ==
  /\ \A u \in UserData :
       Outstanding(u) + (IF u \in lost THEN 1 ELSE 0) = IF Expected(u) THEN 1 ELSE 0
  /\ active_wait = Count(sq) + Count(inflight) + Count(cq) + Cardinality(lost)

(* The read in clear_event finds a byte whenever a PARK completion is      *)
(* handled: the blocking pipe cannot hang the reactor thread.              *)
ClearEventNeverBlocks == cq[PARK] > 0 => pipe > 0

(* In io_uring_enter with GETEVENTS the thread can be woken: the kernel    *)
(* polls the pipe, and for a timed wait a timer that is set, unless there  *)
(* is a completion already.  The one exception is a poll whose completion  *)
(* was lost, since nothing looks at the overflow counter of the ring.      *)
BlockedIsWakeable ==
  pc = "blocked" /\ cq = None =>
    /\ inflight[PARK] > 0 \/ PARK \in lost
    /\ timeout => (inflight[TIMER] > 0 \/ TIMER \in lost) /\ timer # "off"

(* The thread does not sleep on a task that was notified before it went to *)
(* sleep: some thread is still inside unpark(), or there is a byte in the  *)
(* pipe or a completion that ends the wait.                                *)
NoLostWakeup ==
  pc = "blocked" /\ ready # {} =>
    \/ \E t \in Threads : upc[t] # "idle"
    \/ pipe > 0
    \/ cq # None

------------------------------------------------------------------------------
(* The inductive invariant, of which the properties above are consequences. *)

(* Every poll or operation is in one place, and active_wait counts them. *)
PlaceInv ==
  /\ \A u \in UserData :
       /\ u \in lost => Expected(u)
       /\ Expected(u) /\ u \notin lost => Outstanding(u) = 1
       /\ ~Expected(u) \/ u \in lost => Outstanding(u) = 0
  /\ active_wait = Cardinality({u \in UserData : Expected(u)})

(* What park_inner has seen to as long as it still wants to wait *)
PhaseInv ==
  /\ wait /\ pc \in {"park", "enter", "allow", "syscall", "blocked"} =>
       ~requeue_timer /\ (timeout => timer # "off")
  /\ wait /\ pc \in {"enter", "allow", "syscall", "blocked"} => ~requeue_park
  /\ pc = "blocked" => wait /\ sq = None
  /\ pc = "check2" => ~wait

(* With wait, a notified task has left its mark in pending or will do so   *)
(* at once; and once entered is set and pending was seen to be FALSE, it   *)
(* is set again only by a thread that goes on to write a byte.             *)
WakeInv ==
  /\ pc \notin {"exec", "check2"} => sbuf = {}
  /\ pc \in {"allow", "syscall", "blocked"} => entered
  /\ pc # "exec" /\ wait /\ ready # {} => pending \/ \E t \in Threads : upc[t] = "swap"
  /\ pc \in {"syscall", "blocked"} /\ wait /\ pending =>
       pipe > 0 \/ \E t \in Threads : upc[t] \in {"load", "write"}

IInv ==
  /\ TypeOK /\ PlaceInv /\ PhaseInv
  /\ PARK \notin FailingPolls => ClearEventNeverBlocks
  /\ TickFence => WakeInv

------------------------------------------------------------------------------
(* A notified task gets the thread out of park(), whenever the             *)
(* notification comes: before, while or after the thread goes to sleep.    *)
NotifiedThreadReturns == (ready # {} /\ pc # "exec") ~> pc = "exec"

(* park_timeout returns. *)
TimedParkReturns == (pc = "blocked" /\ timeout) ~> pc # "blocked"

(* Once no timed waits are made any more the timer stops waking the thread.*)
TimerFallsSilent == <>[](~timeout) => <>[](cq[TIMER] = 0)
==============================================================================
