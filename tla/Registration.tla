----------------------------- MODULE Registration -----------------------------
(***************************************************************************)
(* tokio-uring-reactor/src/registration.rs: the record an operation and    *)
(* its future share.  It lives behind an Rc; the future owns one reference *)
(* and the operation another, which is turned into the user_data of a      *)
(* submission and back by the completion.  The operators give the record   *)
(* after a method; strong is the reference count, 0 that the memory is     *)
(* free.                                                                   *)
(***************************************************************************)
EXTENDS Integers

CONSTANTS
  Tasks,     \* what a waker wakes
  Contents,  \* what is boxed in a registration: the buffer and file of a future
  Results,   \* results of operations
  NoTask,    \* CompatWaker::Empty
  NoData,    \* data: None
  NoResult   \* UringResult::default()

ASSUME RegistrationAssumption ==
  /\ NoTask \notin Tasks
  /\ NoData \notin Contents
  /\ NoResult \notin Results

Inner == [strong : Nat, finished : BOOLEAN, result : Results \cup {NoResult},
          waker : Tasks \cup {NoTask}, data : Contents \cup {NoData}]

Freed == [strong |-> 0, finished |-> FALSE, result |-> NoResult,
          waker |-> NoTask, data |-> NoData]

(* Registration::new *)
NewInner(d) == [Freed EXCEPT !.strong = 1, !.data = d]

(* to_raw: one more reference, which into_user_data and from_user_data only *)
(* pass on.                                                                *)
Cloned(i) == [i EXCEPT !.strong = @ + 1]

(* Drop of a Registration or a RawRegistration; the last one frees it. *)
Released(i) == IF i.strong = 1 THEN Freed ELSE [i EXCEPT !.strong = @ - 1]

(* RawRegistration::notify; the waker is taken out and woken. *)
Notified(i, res) ==
  [i EXCEPT !.finished = TRUE, !.result = res, !.waker = NoTask]

(* Faulty variant: the waker of the first poll is kept. *)
TrackedOnce(i, t) == IF i.waker = NoTask THEN [i EXCEPT !.waker = t] ELSE i

(* track, and the NotReady branch of poll and of poll_stream_and_reset: the *)
(* waker of the task that polls now replaces an earlier one.               *)
Tracked(i, t) == [i EXCEPT !.waker = t]

(* poll of a finished registration: the boxed data is moved out. *)
Taken(i) == [i EXCEPT !.data = NoData]

(* Faulty variant: the registration stays finished. *)
ResetNot(i) == i

(* poll_stream_and_reset of a finished registration *)
Reset(i) == [i EXCEPT !.finished = FALSE]

(* abort hands the data out only to the last owner. *)
Abortable(i) == i.strong = 1 /\ i.data # NoData
==============================================================================
