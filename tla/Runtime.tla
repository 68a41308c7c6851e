------------------------------- MODULE Runtime -------------------------------
(***************************************************************************)
(* tokio-uring/src/lib.rs: runtimes on one thread.  A call that runs the   *)
(* executor puts the handles of its reactor and its timer where the tasks  *)
(* find them and takes them away again on every way out: a result, an      *)
(* error of the event loop, or a panic of a task.  A task may itself try   *)
(* to run a runtime.                                                       *)
(*                                                                         *)
(* External: tokio_current_thread's executor (tick polls the tasks, park   *)
(* is the reactor's, whose error ends the loop), the guard of              *)
(* tokio_timer::with_default and tokio_executor::Enter, of which a thread  *)
(* has at most one.                                                        *)
(***************************************************************************)
EXTENDS Integers

CONSTANTS
  Runtimes,
  MaxTasks,    \* bound: unfinished tasks of a runtime
  NoRuntime

ASSUME RuntimeAssumption == NoRuntime \notin Runtimes /\ MaxTasks \in Nat

VARIABLES
  call,      \* the call that is running: runtime, method, phase, result so far
  current,   \* CURRENT_REACTOR, by its runtime
  timer,     \* the default timer of this thread, by its runtime
  entered,   \* there is an Enter on this thread
  bound,     \* ... it belongs to the caller, for Runtime::enter
  tasks,     \* unfinished tasks of each runtime
  last       \* for the properties: how the last call ended, and why

runtimeVars == <<call, current, timer, entered, bound, tasks, last>>

Methods == {"run", "run_timeout", "block_on_all", "turn"}

NoCall == [rt |-> NoRuntime, method |-> "none", phase |-> "none", ret |-> "none"]

NotYet == [method |-> "none", outcome |-> "none", cause |-> "none"]

RuntimeInit ==
  /\ call = NoCall
  /\ current = NoRuntime
  /\ timer = NoRuntime
  /\ entered = FALSE
  /\ bound = FALSE
  /\ tasks = [r \in Runtimes |-> 0]
  /\ last = NotYet

Running == call # NoCall

------------------------------------------------------------------------------
(* Runtime::spawn, Entered::spawn, or a task spawns another. *)
Spawn(r) ==
  /\ Running => r = call.rt
  /\ tasks[r] < MaxTasks
  /\ tasks' = [tasks EXCEPT ![r] = @ + 1]
  /\ UNCHANGED <<call, current, timer, entered, bound, last>>

(* External: the caller gets an Enter, binds runtimes to it with           *)
(* Runtime::enter and drops it later.                                      *)
BindEnter ==
  /\ ~Running /\ ~entered
  /\ entered' = TRUE
  /\ bound' = TRUE
  /\ UNCHANGED <<call, current, timer, tasks, last>>

UnbindEnter ==
  /\ ~Running /\ bound
  /\ entered' = FALSE
  /\ bound' = FALSE
  /\ UNCHANGED <<call, current, timer, tasks, last>>

(* Entered::with, with_reactor_handle: the handles are set, then the       *)
(* closure runs the executor.                                              *)
With(r, method) ==
  /\ call' = [rt |-> r, method |-> method, ret |-> "ok",
              phase |-> IF method = "block_on_all" THEN "block_on" ELSE "run"]
  /\ current' = r
  /\ timer' = r
  /\ UNCHANGED <<bound, tasks, last>>

(* run, run_timeout, block_on_all, turn of a Runtime need an Enter of      *)
(* their own; those of an Entered use the caller's.                        *)
CallRuntime(r, method) ==
  /\ ~Running /\ ~entered
  /\ With(r, method)
  /\ entered' = TRUE

CallEntered(r, method) ==
  /\ ~Running /\ bound
  /\ With(r, method)
  /\ UNCHANGED entered

(* There is an Enter already, the caller's or that of the runtime whose    *)
(* task makes the call: unwrap() panics.  The caller goes on; a task that  *)
(* lets the panic through is in TaskPanics.                                *)
CallRefused(method) ==
  /\ entered
  /\ last' = [method |-> method, outcome |-> "panic", cause |-> "refused"]
  /\ UNCHANGED <<call, current, timer, entered, bound, tasks>>

------------------------------------------------------------------------------
(* Faulty variant: no guard, CURRENT_REACTOR is reset after the closure. *)
AfterReturn(outcome) == IF outcome = "panic" THEN current ELSE NoRuntime

(* Drop of Reset *)
AfterReset(outcome) == NoRuntime

(* Faulty variant: a call takes the caller's Enter with it. *)
EnterSpent == FALSE

(* The Enter that a Runtime's method made is dropped; an Entered has only  *)
(* borrowed the caller's.                                                  *)
EnterAfter == bound

(* The closure returns or unwinds: the guards Reset and that of the timer, *)
(* and the Enter of a Runtime's method, are dropped either way.            *)
Leave(outcome, cause) ==
  /\ call' = NoCall
  /\ current' = AfterReset(outcome)
  /\ timer' = NoRuntime
  /\ entered' = EnterAfter
  /\ last' = [method |-> call.method, outcome |-> outcome, cause |-> cause]
  /\ UNCHANGED bound

(* A task ends in tick. *)
TaskFinishes ==
  /\ Running /\ tasks[call.rt] > 0
  /\ tasks' = [tasks EXCEPT ![call.rt] = @ - 1]
  /\ UNCHANGED <<call, current, timer, entered, bound, last>>

(* The panic of a task comes out of tick; the task is gone. *)
TaskPanics ==
  /\ Running /\ tasks[call.rt] > 0
  /\ tasks' = [tasks EXCEPT ![call.rt] = @ - 1]
  /\ Leave("panic", "task")

(* Faulty variant: the tasks that are left are not waited for. *)
BlockOnEndsOnly(ret) ==
  /\ call.phase = "block_on"
  /\ Leave(ret, "done")
  /\ UNCHANGED tasks

(* block_on_all, first part: executor.block_on returns the result of the   *)
(* future, or an error of the event loop; the second part follows.         *)
BlockOnEnds(ret) ==
  /\ call.phase = "block_on"
  /\ call' = [call EXCEPT !.phase = "run", !.ret = ret]
  /\ UNCHANGED <<current, timer, entered, bound, tasks, last>>

(* The future of block_on panics. *)
BlockOnPanics ==
  /\ call.phase = "block_on"
  /\ Leave("panic", "task")
  /\ UNCHANGED tasks

(* executor.run, and the second part of block_on_all: no task is left. *)
RunEnds ==
  /\ call.phase = "run" /\ call.method # "turn"
  /\ tasks[call.rt] = 0
  /\ Leave(call.ret, "done")
  /\ UNCHANGED tasks

(* park() fails in the loop of executor.run, run_timeout or turn; only     *)
(* turn parks without tasks.  The second part of block_on_all calls        *)
(* unwrap() on the result.                                                 *)
ParkFails ==
  /\ call.phase = "run"
  /\ tasks[call.rt] > 0 \/ call.method = "turn"
  /\ Leave(IF call.method = "block_on_all" THEN "panic" ELSE "err", "loop")
  /\ UNCHANGED tasks

TimedOut ==
  /\ call.method = "run_timeout" /\ tasks[call.rt] > 0
  /\ Leave("err", "timeout")
  /\ UNCHANGED tasks

TurnEnds ==
  /\ call.method = "turn"
  /\ Leave("ok", "done")
  /\ UNCHANGED tasks

RuntimeNext ==
  \/ \E r \in Runtimes : Spawn(r) \/ \E method \in Methods :
       CallRuntime(r, method) \/ CallEntered(r, method)
  \/ BindEnter \/ UnbindEnter \/ \E method \in Methods : CallRefused(method)
  \/ TaskFinishes \/ TaskPanics \/ BlockOnPanics
  \/ RunEnds \/ ParkFails \/ TimedOut \/ TurnEnds
  \/ \E ret \in {"ok", "err"} : BlockOnEnds(ret)

RuntimeSpec == RuntimeInit /\ [][RuntimeNext]_runtimeVars
------------------------------------------------------------------------------
RuntimeTypeOK ==
  /\ call \in [rt : Runtimes, method : Methods, phase : {"run", "block_on"},
               ret : {"ok", "err"}] \cup {NoCall}
  /\ {current, timer} \subseteq Runtimes \cup {NoRuntime}
  /\ {entered, bound} \subseteq BOOLEAN
  /\ tasks \in [Runtimes -> 0..MaxTasks]
  /\ last \in [method : Methods, outcome : {"ok", "err", "panic"},
               cause : {"task", "done", "loop", "timeout", "refused"}] \cup {NotYet}

(* A task finds the reactor and the timer of the runtime that polls it,    *)
(* and code outside of any runtime finds none, whatever calls failed,      *)
(* panicked or were refused before: an operation never goes to the ring of *)
(* another runtime, which may not be running.                              *)
HandlesAreOwn == current = call.rt /\ timer = call.rt /\ (Running => entered)

(* Inductive: outside of a call there is an Enter only if it is the        *)
(* caller's, which every way out of a call restores, and only block_on_all *)
(* has a first part.                                                       *)
RuntimeIInv ==
  /\ RuntimeTypeOK
  /\ HandlesAreOwn
  /\ Running \/ entered = bound
  /\ call.phase = "block_on" => call.method = "block_on_all"

(* run and block_on_all return success only when every task of the runtime *)
(* has finished, the ones spawned in the last moment included.             *)
SuccessMeansDone ==
  [][call.method \in {"run", "block_on_all"} /\ call' = NoCall /\ last'.outcome = "ok"
       => tasks[call.rt] = 0]_runtimeVars

(* Doc of block_on_all: the outer Result represents possible event loop    *)
(* errors.  That is, an error of the event loop is returned.               *)
LoopErrorIsReturned == last.cause = "loop" => last.outcome = "err"
==============================================================================
