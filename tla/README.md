# Verification of rust-io-uring

TLA+ models of the rings, the entries in them, the wakeup protocol, the reactor,
the futures, the runtime and the echo server of this repository, the TLC
configurations that check them on small instances, and TLAPS proofs of their
safety properties and refinements for every size of the instance.

## 1. The system

| Part | Source | State | Operations |
|---|---|---|---|
| Submission queue | `io-uring/src/lib.rs` 54-234 | shared `k_head`, `k_tail`, entries; private `local_tail`, `cached_head` | `bulk`, `submit_with`, drop of the bulk handle (publishes), `is_full`, `has_pending_submissions`, `pending_submissions` |
| Completion queue | `io-uring/src/lib.rs` 236-345 | shared `k_head`, `k_tail`, entries, `k_overflow`; private `local_head`, `cached_tail` | `into_iter`, `next`, drop of the iterator (frees places) |
| `Uring`, `UringFile` | `io-uring/src/lib.rs` 19-49, 347-428 | a file | set-up, `enter`, `register_*` (system calls) |
| Memory mapping | `io-uring/src/mmap.rs` | address and length of a mapping | `map`, `get_field`, `as_mut_ptr`, drop (unmaps) |
| Kernel interface types | `io-uring-sys` | an entry | the builders of `SubmissionEntry`, I/O priorities, flags, encodings |
| Unpark | `tokio-uring-reactor/src/unpark.rs` | atomics `pending`, `entered`; a pipe | `unpark` (any thread); `enter`, drop of `ParkEntered`, `pending`, `clear_event` (reactor thread) |
| Reactor | `tokio-uring-reactor/src/reactor.rs` | `requeue_timer`, `timer_pending`, `requeue_park`, `active_wait`; a timerfd | `park`, `park_timeout` (`park_inner`), `queue_*`, `handle_completion` |
| Registration | `tokio-uring-reactor/src/registration.rs` | `finished`, `result`, waker, boxed data; shared by the future and, as `user_data`, by the kernel | `notify`, `poll`, `poll_stream_and_reset`, `abort` |
| Futures | `tokio-uring-reactor/src/reactor/async_*.rs` | one registration each | `new`, `poll`, drop |
| Listener, streams | `tokio-uring-reactor/src/net.rs`, `io.rs` | `blocked` and an `AsyncPoll`; a stream or a shared reference to it | accept loop, `split` |
| Runtime | `tokio-uring/src/lib.rs` | executor with timer and reactor; thread-local current handle | `spawn`, `run`, `run_timeout`, `block_on_all`, `turn`, `enter` |
| Echo server | `echo-async` | per task: where it is, a `Timeout` | accept loop, echo, timeout combinator |

How they interact: the executor polls tasks; a task's future queues an entry
whose `user_data` is a raw reference to its registration; between tasks the
executor calls `park`, in which the reactor handles completions (`notify` makes
the task ready again and calls `unpark`), sees to it that the kernel polls the
timerfd and the pipe, and sleeps in `io_uring_enter`. Other threads make tasks
ready and call `unpark`. Kernel and user space share the rings without locks.

What is hard here, and what makes each part correct:

- *Rings.* Two parties on lock-free indices that wrap at 2^32, each with a stale
  copy of the other's index. Correct: nobody touches an entry the other side
  may still use, nothing is lost, repeated or reordered, and "full" is neither
  missed nor reported too early.
- *Unpark.* Two flags written in opposite order by two threads, reset with
  Relaxed stores, and a blocking pipe. Correct: a notified thread does not sleep
  and does not hang in the read of the pipe.
- *Reactor.* Flags that say which polls are under way must agree with the
  kernel through full queues, failing and interrupted system calls, dropped
  futures and lost completions. Correct: a sleeping thread can always be woken,
  a timed park returns, no assertion or counter underflow is reached.
- *Registrations and futures.* Ownership shared with the kernel. Correct: memory
  the kernel may write to stays alive, a completion is delivered once.
- *Descriptors.* An entry has only the number of a descriptor, and the kernel
  looks it up later. Correct: the file is still the one that was meant, and it is
  closed with the last part of it.
- *Entries.* Places of the ring are used again. Correct: nothing of an earlier
  operation becomes part of the next one.
- *Life of a reactor.* Six acquisitions that may fail, sizes reported by the
  kernel, and a drop while other threads use the pipe. Correct: no access outside
  of a mapping, no leak, no write to a descriptor that was closed.
- *Runtime.* Thread-local handles that must be right during a call and gone
  after it, also after an error or a panic.
- *Echo server.* A timeout races a completion, and what it gives up cannot be
  cancelled. Correct: no result is thrown away, nobody waits for ever.

`PROJECT.json` lists the hazards with their lines and the properties for them.

## 2. The modules

| Module | Models |
|---|---|
| `RingIndex` | index arithmetic, parameterised by ring size and index width |
| `StagedFifo` | abstract: what either ring promises, a bounded FIFO with bulk publication and bulk release |
| `SubmissionQueue` | the submission ring, user space and kernel |
| `CompletionQueue` | the completion ring, user space and kernel |
| `Unpark` | the wakeup flags and the pipe |
| `Reactor` | extends `Unpark`: `park_inner`, tasks, kernel, notifying threads |
| `Registration` | the record shared by a future and its operation, as operators |
| `Futures` | extends `Registration`: `AsyncRead`, `AsyncWrite`, `AsyncPoll`, tasks, operations under way |
| `Delivery` | abstract: what the reactor promises to its futures; implemented by `Futures` |
| `Incoming` | extends `Futures`: the accept loop and the kernel's queue of connections |
| `Echo` | extends `Incoming`: the tasks of the echo server and their timeouts |
| `Descriptors` | streams, halves of streams, listeners, and the numbers in the entries |
| `Entry` | the builders of a submission entry, in a place that is used again |
| `Lifetime` | extends `Unpark`: `Reactor::new` and the drop of the reactor |
| `Runtime` | the methods of the runtime and the handles they set |
| `MC*` | instances for TLC |
| `RingIndexProofs` | lemmas on index arithmetic and on the window of a ring that is in use |
| `SubmissionQueueProofs`, `CompletionQueueProofs` | theorems: invariants, action properties, refinement of `StagedFifo` |
| `ReactorProofs`, `LifetimeProofs` | theorems: invariants |
| `DescriptorsProofs` | theorems: invariants, an action property |
| `FuturesProofs` | theorems on `Futures`: invariants, refinement of `Delivery`; on top of them those on `Echo`: invariants, `NotifiedIsTaken`, refinement of `Delivery` |
| `SequentialProofs` | theorems on `Runtime` and `Entry`, the components that one thread runs on its own: invariants and `SuccessMeansDone` |

An operator commented *Faulty variant* is a deliberately wrong form of the
definition after it. No specification uses it; `PROJECT.json` names for every
property the variant that violates it, to show that the property is sensitive to
a mistake in the code.

**Rings.** A variable has the name of the field it stands for. `submit_with` is
two steps, `SubmitBegin` (full test, `clear`) and `SubmitFilled` or
`SubmitFillError` (the closure's writes, the increment of the tail), so that the
kernel runs while an entry is half written. Each other method is one step: it
contains at most one access to a shared index. `reply` holds what the last
call returned, and the refinement compares it with the abstract queue's answer.
The index array is the identity and never changes, so an entry is addressed by
its masked index directly. `is_full()` tests masked indices with xor and a mask;
with a power of two this is equality of remainders, which is how `SameSlot` is
written. The kernel is external: it takes published entries in order and frees
their places later (with SQPOLL in a thread of its own), and it posts
completions, publishes them later and counts those for which there is no room.

**Unpark.** Read-modify-write and SeqCst operations take effect at once. The
Relaxed stores in the drop of `ParkEntered` go into `sbuf` and reach the other
threads later in either order; the reactor thread sees its own stores, and its
next SeqCst store or read-modify-write of the flag waits for them. The three
accesses of `unpark` are three steps. The pipe counts bytes: the write end drops
a byte if it is full, the read end blocks if it is empty (`clear_event` is then
not enabled).

**Reactor.** `pc` follows `park_inner` line by line:
`check1` (first `check_completions`), `peek` (early look at `pending`), `timer`,
`park` (the two polls), `enter`, `allow` (both halves of `Park::enter`),
`syscall`, `blocked`, `leave` or `quit` (drop of `ParkEntered`, with and
without the second `check_completions`), `check2`. A completion is one step, so
the kernel may add others meanwhile. The rings are bags of `user_data`; that they
deliver every entry once is what the ring modules show. Of a registration the
module keeps whether it is idle, active, finished or orphaned (its future was
dropped while the operation is under way), and whether it has a waker.
`io_uring_enter` may take everything, take a part and return, fail, be
interrupted, or wait for a completion. A poll completes when its file is
readable; those named by `FailingPolls` may also complete with an error, which
`handle_completion` does not look at. A failed poll of the timer is harmless
(`reactor_wakeup`), one of the pipe is not (see below). `lost` remembers which
completions did not fit into the ring; no action looks at it.

The executor is external. What the model assumes of it: tasks run only
outside `park`; it waits only with an empty run queue; and it looks at the run
queue only after the reactor thread's earlier stores are visible
(`TickFence`). The last point matters: with Relaxed stores in the drop of
`ParkEntered`, a thread that makes a task ready and finds `pending` still set
does nothing more, and only a fence between that drop and the look at the run
queue rules out that the executor misses the task as well. The current-thread
executor increments a SeqCst counter on each tick, which is such a fence. With
`TickFence = FALSE` TLC finds the lost wakeup, so the protocol depends on it.

**Futures.** `Reactor` asks whether the thread sleeps and wakes; `Futures` asks
who owns what. `inner` is memory: a registration for each address, with its
reference count. An operation is a record that knows its registration by address
only, as `user_data` does, and passes through the stages `sq`, `kernel`, `cq`;
`lost` means that the reactor was dropped before the completion was handled. Each
future has the fields of the code (`state`, `reg`, `active`). Freed addresses,
futures and operations are used again without limit. Two variables exist for the
properties only: `owner` in an operation (the future that submitted it, or
`NoFut` once that was dropped) and `truth` (the result the kernel gave for a
future's last operation). `AsyncRead` and `AsyncWrite` have the same code and are
one kind, `Transfers`; their buffer and file are boxed together and stand for one
value, the future they belong to. The two APIs (futures 0.1 and `async`) have the
same control flow, so that one action stands for both. A task that polls a
future after it has returned its result would hit a `panic!`; executors do not do
that and the model's tasks do not either. `Registration::poll` on data already
taken cannot happen for the same reason.

`Futures`, and with it `Echo`, assumes a kernel that loses no completion to a full
completion queue. The code does not see to that: it queues operations without
counting them against the completion queue. `CompletionQueue` and `Reactor` have the
loss and show that the ring, the flags and the counter stay right; what it does to a
future is plain and no property denies it: the task sleeps for ever, and the
registration with its buffer stays behind. `SleeperIsTracked`, `ImplementsDelivery`,
`WaitEnds` and `ConnectionTaken` hold under this assumption only.

Dropping the reactor does not release the references of the operations under
way: `KernelMemoryStays` holds because they are leaked. The FIXME in
`reactor.rs` is about internal operations; the two that the reactor queues are
polls, which use no memory of its own.

`Delivery` has none of this: a client asks, waits, is given one answer, takes it
and may ask again, or leaves. The refinement mapping of `Futures` reads a future
as such a client. It waits while an operation of its own is under way, has its
answer once its registration is finished, and is idle otherwise; a future that
waits for an operation whose completion went down with the reactor is lost.

**Incoming.** One call of `poll` is several steps between which the kernel may
queue connections, but no other task or reactor step happens. It is composed of
the `AsyncPoll` actions of `Futures`.

**Echo.** `stage` is the place in the code of each task, `running` the one that
is polled: the executor polls one at a time, and the reactor handles completions
in between. A task's steps are those of `Futures` and `Incoming`, each with what
`Timeout::poll` makes of it: `InnerReady` when the inner future is ready,
`InnerPending` when it is not, where the result is that of the delay. A delay
that is `fired` has elapsed or its timer has failed; both end the wait. The write
has no timeout, the number of bytes it wrote is not looked at, and a full
submission queue ends the accept loop as any other error of the poll does: so
does the code. The drop of the reactor is left to `Futures`. `Incoming` has no
specification of its own: its steps are taken by the server's task.

**Descriptors.** `table` is the kernel's: a number may name another file as
soon as the first one is closed. The kernel notes in an operation which file it
found when it took the entry, and the properties compare that with the file the
caller meant. A stream is one part or, after `split`, two halves with a counted
reference; each part is with a task, in the context that a read or a write keeps
alive, or in a future that could not queue its operation. The queues and
registrations are reduced to the stage of an operation.

**Entry.** One place of the ring. A closure of `submit_with` may call several
builders and may fail; the kernel reads what is left. The flags of all
operations share a union of which those of a poll fill only half: the other half
is undefined (`hi`). Integers have their widths, with `U32` and `U16` as the
numbers of values.

**Lifetime.** `step` is the next acquisition of `Reactor::new`, or the next field
that the drop of the reactor releases. `open` is what the kernel has open for the
process; `Locals` is what the local variables of `Reactor::new`, `Uring::new` and
the two queues' constructors own at each step, in the order in which the code makes
them, and an early return releases that and nothing else. The kernel may report any
sizes in the parameters and in the rings, and the offsets of one of `Layouts`. The
mapped lengths are computed from the offset of the array and the sizes, as in the
code; `touched` collects the ends of all accesses through `get_field` and to the
elements, now and later. The constructors' assertions decide which sizes and masks
are accepted; no offset is checked by the code, so that `LayoutAssumption` (each
fixed field ends before the array begins) is what is assumed of the kernel. The
threads' `unpark` is that of `Unpark`, between the upgrade of a `Weak` and the
drop of the reference it gave.

**Runtime.** One call at a time on one thread, with the phases of
`block_on_all`. A call ends by a result, an error of the event loop, a timeout or
the panic of a task or of the future of `block_on_all`; the guards are dropped on
each of these ways, and the `Enter` with them if the call made it. A task that
calls a runtime is refused, because there is an `Enter` already.

## 3. What is checked

| Run | Instance | Shows |
|---|---|---|
| `submission_ring` | 4 entries, 8 index values, 2 submissions | the inductive invariant `IInv` (with `TypeOK` and `PendingFilled`), `PendingIntact`, refinement of `StagedFifo` |
| `completion_ring` | 4 entries, 8 index values, 2 completions | `IInv` (with `TypeOK` and `UnreadWritten`), `UnreadIntact`, refinement of `StagedFifo`, `PublishedIsRead` |
| `reactor_wakeup` | 1 task, 2 threads, 2 places in each queue for 3 operations, pipe of 1 byte, the poll of the timer may fail | `IInv`, `OneCompletionEach`, `NoLostWakeup`, `BlockedIsWakeable`, `ClearEventNeverBlocks` |
| `reactor_liveness` | 1 task, 1 thread, no lost completions | `NotifiedThreadReturns`, `TimedParkReturns`, `TimerFallsSilent` |
| `futures` | a transfer, a poll stream, 2 tasks, 3 addresses, 2 operations at a time, 1 place in the submission queue | `IInv`, `CountIsOwners`, `KernelMemoryStays`, `NoPanic`, `ActiveIsExact`, `ResultIsOwn`, `SleeperIsTracked`, refinement of `Delivery` |
| `echo` | the server and a connection, 2 addresses, 2 operations, 1 place in the submission queue | `EchoIInv`, `LeftByTimeoutOnly`, `NotifiedIsTaken`, `WaitEnds`, `ConnectionTaken` |
| `descriptors` | 2 streams, 1 listener, 1 foreign file, 3 numbers, 2 operations | `IInv`, `FindsItsFile`, `ClosedByLast`, `StrayChangesNothing` |
| `entry` | 16 values of u32, 4 of u16, boundary values of each argument | `KernelReadsRequest` |
| `lifetime` | rings of up to 4 entries in 2 layouts, 2 threads, pipe of 2 bytes read one at a time | `IInv`, `MappingsSuffice`, `NothingLeaks`, `UnparkWritesPipe` |
| `runtime` | 2 runtimes with up to 3 tasks | `RuntimeIInv`, `HandlesAreOwn`, `SuccessMeansDone` |
| `pending_overflow` | overflow checks on | violation, see below |
| `block_on_all_panics` | as `runtime` | violation, see below |

The inductive invariants of the proofs (`IInv`, `EchoIInv`, `RuntimeIInv`), of which
the type invariants are a part, are properties of the runs: they are checked first on
a small instance. `EntryIInv` is not: it says little more than `KernelReadsRequest`.

*Bounds.* Eight index values for four entries is the smallest width at which
"full" and "empty" differ and both the ring and the indices wrap in every
combination of positions; a larger width adds no new relative position, and the
proofs cover every width. Two items are enough to tell entries apart. In the
reactor runs there are three operations, of a task, the timer and the pipe, for
two places in the submission queue, so that it is full when the reactor wants to
queue its own polls; in `reactor_wakeup` there are as few in the completion queue,
so that completions are lost. Two threads are needed for the case that one finds
`pending` set by another that has not written its byte yet. Operations are bounded
by the number of registrations, nothing else is cut off. Tasks, threads, addresses
and operations are interchangeable and used as symmetry sets in safety runs only.
In `futures`, three addresses let the operation of a dropped future, its successor
and the stream coexist, and two operations for one place in the submission queue
let creation fail. In `echo` each task can have one operation under way while both
compete for one place in the submission queue. Three numbers for four files in
`descriptors` force a number to be used again. The layouts of `lifetime` are one in
which the array follows the fixed fields at once and one in which both rings share a
memory, with gaps. `entry` takes from each type zero or
the smallest value and one at the upper end, among them an index that is negative
as an i32 and a length beyond a u32. The runs `lifetime` and `echo` have no
deadlock check: a reactor that was dropped and a server whose tasks are over stop.

*Fairness.* Ring: the kernel publishes what it wrote, and the reactor, which
iterates on every park, asks each iterator for an item. Reactor: the thread's
own steps, other threads inside `unpark`, visibility of stores, expiry of an armed
timer, completion of a poll whose file is readable, and that the executor calls
`park` again. Nothing is assumed about operations, tasks, signals, failing
system calls or new notifications. Echo: the running task goes on; running a ready
task, firing the delay of a connection and handling a completion are strongly
fair, because each is impossible while a task runs, and the executor's loop comes
back to all of them; entries of the listener are submitted and its poll completes
when there is a connection. Nothing is assumed of transfers: a peer may be silent
for ever, which is what the timeouts are for. Nothing is assumed of the server's
own delay either, although the code would justify it: with it the timeout would
end every wait and hide a connection that is missed.

*Disagreements found.*

- `pending_submissions()` subtracts two wrapping indices with `-`. In a build
  with overflow checks it panics when the tail has wrapped and the head has not;
  in a release build the result is right (`ImplementsFifo` checks the value).
- `block_on_all` says that its outer `Result` stands for errors of the event
  loop; it calls `unwrap()` on that of the second part, and panics instead.

Two limits of the reactor are written into the models instead:

- It queues its polls again only after their completion. Operations in flight are
  not bounded by the completion queue and `overflow()` is never read, so on a kernel
  that drops completions the reactor may wait without its poll of the pipe or of
  the timer. That is the exception in `BlockedIsWakeable`; `OneCompletionEach` shows
  that nothing worse follows from a loss, no assertion and no underflow.
- `handle_completion` ignores the results of its polls. If that of the pipe fails
  while nobody has called `unpark`, the reactor thread reads from an empty blocking
  pipe and hangs: with `FailingPolls = {"PARK"}` `ClearEventNeverBlocks` does not hold.

## 4. What is proved

Each theorem holds for all values of the constants that satisfy the named
assumptions (`...Assumption` in the module that declares them): any ring size, any
number of threads, tasks, futures, addresses, connections, descriptors. Every
component has an inductive invariant, `IInv` or one named after it, of which its properties are
consequences; the proof that it is inductive has a lemma for each action or group
of alike actions.

| Module | Proved of the specification |
|---|---|
| `SubmissionQueueProofs` | `IInv`, `TypeOK`, `PendingFilled`, `PendingIntact`, `ImplementsFifo` |
| `CompletionQueueProofs` | `IInv`, `TypeOK`, `UnreadWritten`, `UnreadIntact`, `ImplementsFifo` |
| `ReactorProofs` | `IInv`, `TypeOK`, `OneCompletionEach`, `BlockedIsWakeable`; `ClearEventNeverBlocks` if the kernel does not fail the poll of the pipe; `NoLostWakeup` with `TickFence` |
| `FuturesProofs`, of `Futures` | `IInv`, `TypeOK`, `CountIsOwners`, `KernelMemoryStays`, `NoPanic`, `ActiveIsExact`, `ResultIsOwn`, `SleeperIsTracked`, `ImplementsDelivery` |
| `DescriptorsProofs` | `IInv`, `FindsItsFile`, `ClosedByLast`, `StrayChangesNothing` |
| `LifetimeProofs` | `IInv`, `MappingsSuffice`, `NothingLeaks`, `UnparkWritesPipe` |
| `FuturesProofs`, of `Echo` | `EchoIInv`, `LeftByTimeoutOnly`, `NotifiedIsTaken`, `KernelMemoryStays`, `ImplementsDelivery` |
| `SequentialProofs`, of `Entry` | `EntryIInv`, `KernelReadsRequest` |
| `SequentialProofs`, of `Runtime` | `RuntimeIInv`, `HandlesAreOwn`, `SuccessMeansDone` |

**Rings.** `PendingFilled` alone is not inductive, because nothing in it says that
the entry at the tail is free. `IndexOrder` adds that the distances from the
stalest index to the newest (`cached_head`, `k_head`, `sq_head`, `k_tail`,
`local_tail`, in this order) sum up to at most one ring, and `PhaseInv` that there is
room while an entry is filled and that the tails agree between two bulk handles. The
only step that could break the order is the increment of the tail, and it is
guarded by `is_full()`. `SameSlotIff` connects that test, made on masked indices,
with the distance: within one ring two indices address the same entry exactly when
they are equal or a ring apart. `LiveSlotsDiffer` then shows that the entry at the
tail is none of the pending ones. The refinement maps the queue of `StagedFifo` to
`Window`, the entries between two indices: lemmas say how a window grows at its end,
loses its head, is joined with the next, and does not depend on entries outside of
it; each step of a ring moves one boundary of one window. Assumptions:
`RingAssumption` (the constructors assert a power of two; the proofs need only that
the ring size divides the number of index values, with room for two rings) and that
the marker values are no items.

**Reactor.** `PlaceInv`: what is expected and not lost is in exactly one place
(submission queue, kernel, completion queue), and `active_wait` is the number of what
is expected. `PhaseInv`: what `park_inner` has seen to as long as it still wants to
wait; it is what makes `BlockedIsWakeable` inductive, since the two polls are queued
long before the thread blocks. `WakeInv`, for `NoLostWakeup`: from the second half of
`Park::enter` on, `pending` implies a thread between its swap and its write, or a byte
in the pipe; before that, a ready task implies `pending` or a thread about to set it;
and no store is buffered while the reactor is inside `park_inner`. The last conjunct
is where `TickFence` is needed. `ClearEventNeverBlocks` is a conjunct of `IInv` under
the condition that the poll of the pipe is not in `FailingPolls`; both conditions
are hypotheses of the theorems, and TLC shows that neither can be dropped.

**Futures.** `OwnerInv`: an address has at most one future and one operation; the
operation's owner is that future, if there is one; the reference count is two, one
or none accordingly. `StateInv`: a future knows whether it has an operation under way
(`KnowsItsOp`), and an operation's registration is unfinished and has its data.
`ResultInv`: a result on its way is that of its future's last operation. `AwaitInv`:
two tasks do not await one future, and what is awaited exists. None of these is
inductive without the others: that a completion finds its registration unfinished
needs the uniqueness of owners, which needs the count, which needs that a new
registration is made where neither a future nor an operation is. For the refinement,
`Stands` says what each future's status in `Delivery` is under `IInv`, and each step
is a step of one client or none. It needs `NoOp \notin OpRecord`, that the marker for
no operation is not an operation.

**Descriptors.** `FindsItsFile` needs that an operation's number still names its file
when the kernel looks: for a transfer, because the part of the stream it uses is in
its context (`TransferInv`), and a part that exists keeps the stream open
(`PartInv`); for a poll, only as long as its `Incoming` lives (`PollInv`). A poll whose
`Incoming` was dropped may find another file. `FindsItsFile` says that nothing else
can; `StrayChangesNothing` says of those that do that nothing comes of it: of all the
steps that could move an operation on, the ones that report or release something need
a future or a part of a stream in the context.

**Lifetime.** `OwnerInv`: the threads inside `unpark` and, from `Park::new` to the drop
of its field, the reactor hold `Shared`; `SharedInv`: the write end is open under its
own number exactly as long as somebody does; `LeftInv`: at each step of `Reactor::new`
what is open is what the locals own (`EarlyStep` shows that each acquisition keeps the
two equal), and what may be left at each step of the end; `LayoutInv`: the offsets in
use are those of a layout. For `MappingsSuffice`, `Parameters` brings in what is
assumed of layouts and `ElementsFit` shows that the assertions on `ring_entries` and
`ring_mask` keep every element inside. Assumptions: `LayoutAssumption`, without which
an offset might lie anywhere, and that the reactor is none of `Threads`, which keeps
the two kinds of owners apart.

**Echo.** The steps of the tasks are steps of `Futures` with other conditions, so the
lemmas of `FuturesProofs` show that its `IInv` is preserved. What is added:
`OwnFutureInv` (a task awaits its own future only, so that nobody else awaits what it
drops), `ConnectionInv` and `ListenerInv` (each place in the code determines the state
of the future: no operation is under way between two statements, after an error, or
while `accept()` is tried), and `TimeoutInv` (a task that has run into its timeout has
just found its future pending, and no reactor step comes in between). The last is
what `NotifiedIsTaken` rests on: it is the order inside `Timeout::poll` and the
single thread, not luck, that keeps a timeout from discarding a result.

That it implements `Delivery` does not follow from the theorem on `Futures`, because
`Echo` has steps that `Futures` has not: `poll_next` takes the events of the listener
and goes on in the same call, and a task that ends drops its future without being
woken first. `ReadyTakes` and `DropLeaves` are therefore stated for taking and dropping
as such, and every other step of the server is one that `Futures` has, or touches no
future.

**Entry.** `EntryIInv` says of every state what `KernelReadsRequest` says of the entries
the kernel reads: a closure may return after any builder, and the place it leaves
behind is as it was. Each builder is shown to write one and the same rendering of its
request (`Written`), whatever was in the entry (`Rendered`); `FilledHolds` shows that
the kernel reads from a rendering what was rendered. That rests on a lemma for each
conversion: `IndexRoundTrip` (an index through an i32 and back), `AsU32Value` (a length
is cut, never enlarged), `Opcodes`, `PriorityRoundTrip` (class and level do not share
bits), and `PollFlagsRead` (the kernel's half of the flags union does not depend on the
undefined half). Widths and arguments are constants: the theorem holds with 2^32 and
2^16 and all values of a type, where the run has 16, 4 and the boundary values.
Assumptions: `EntryAssumption` (the widths divide each other and the arguments are in
the range of their types).

**Runtime.** `HandlesAreOwn` alone is not inductive: that a call of an `Entered` finds an
`Enter` needs that outside of calls there is one exactly if the caller has it
(`entered = bound`), which every way out of a call restores (`LeaveStep`). For
`SuccessMeansDone` all other ways in which the call could have ended are excluded one
by one; what remains is `RunEnds`.

**Only model-checked.** Liveness (`PublishedIsRead`, `NotifiedThreadReturns`,
`TimedParkReturns`, `TimerFallsSilent`, `WaitEnds`, `ConnectionTaken`): fairness is
outside of the prover's reach. Every other property of a passing run is a theorem.

## 5. What is not modelled

- The `register_*` methods of `UringFile` and `Uring`: each passes its arguments
  to one system call, keeps nothing, and nothing in the repository calls them.
- Tables of flags, `Debug` output and the bare system calls of `io-uring-sys`;
  `io-uring-sys`'s types for set-up appear in `Lifetime` as the sizes and offsets they
  carry. The sums of offsets and sizes are usize, and 64 bits wide: they do not wrap.
- `set_non_block`, and the default reactor handle of the reactor crate: `Unpark` and
  `Incoming` take for granted that the write end and the listener do not block,
  `Runtime` models where the handle is set.
- `tokio-uring/examples/echo.rs`: the same loop as `echo-async` in the older API
  and without timeouts.
- How many bytes a read or a write moved. The echo server ignores a short write.
- Operations that complete after the reactor was dropped: their tasks are never
  woken. `Futures` has them (stage `lost`), `Delivery` says what is promised then
  (nothing), and no doc of the repository says more.
- What the loss of a completion does to the future that waits for it (see `Futures`
  above).
- Results of operations are part of `Futures` and not of `Reactor`.
