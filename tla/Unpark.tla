------------------------------- MODULE Unpark --------------------------------
(***************************************************************************)
(* tokio-uring-reactor/src/unpark.rs: how any thread gets the reactor      *)
(* thread out of io_uring_enter.  Shared holds two flags and the write end *)
(* of a pipe: unpark() sets pending and writes a byte only if the reactor  *)
(* thread has announced in entered that it may be sleeping.                *)
(*                                                                         *)
(* The atomics are modelled with their orderings.  Read-modify-write and   *)
(* SeqCst operations take effect at once.  The two Relaxed stores in the   *)
(* Drop of ParkEntered only reach the other threads some time later and in *)
(* either order; until then they are in sbuf, the set of flags for which   *)
(* the reactor thread has a FALSE under way.  The reactor thread itself    *)
(* sees its own stores, and a SeqCst store waits for them.                 *)
(***************************************************************************)
EXTENDS Integers

CONSTANTS
  Threads,   \* the threads that hold an Unpark
  PipeSize,  \* bytes the pipe holds (64 KiB on Linux)
  ReadSize   \* bytes clear_event reads at most (16 in the code)

ASSUME UnparkAssumption ==
  /\ PipeSize \in Nat \ {0}
  /\ ReadSize \in Nat \ {0}

VARIABLES
  pending,   \* Shared.pending
  entered,   \* Shared.entered
  sbuf,      \* flags with a Relaxed store of FALSE not yet visible to others
  pipe,      \* bytes in the pipe
  upc        \* where each thread is in unpark()

parkVars == <<pending, entered, sbuf, pipe>>

Flags == {"pending", "entered"}

(* Park::new *)
UnparkInit ==
  /\ pending = FALSE
  /\ entered = FALSE
  /\ sbuf = {}
  /\ pipe = 0
  /\ upc = [t \in Threads |-> "idle"]

UnparkTypeOK ==
  /\ pending \in BOOLEAN
  /\ entered \in BOOLEAN
  /\ sbuf \subseteq Flags
  /\ pipe \in 0..PipeSize
  /\ upc \in [Threads -> {"idle", "swap", "load", "write"}]

------------------------------------------------------------------------------
(* Park, on the reactor thread *)

(* Park::pending *)
PendingSeen == pending /\ "pending" \notin sbuf

EnteredSeen == entered /\ "entered" \notin sbuf

(* First half of Park::enter: entered.store(true, SeqCst). *)
EnterStore ==
  /\ entered' = TRUE
  /\ pending' = PendingSeen
  /\ sbuf' = {}
  /\ UNCHANGED <<pipe, upc>>

(* Faulty variant: pending is not looked at again after entered is set. *)
AllowWaitAlways == TRUE

(* Second half of Park::enter: !pending.load(SeqCst). *)
AllowWait == ~PendingSeen

(* Drop of ParkEntered: entered and, by clear_unpark, pending are set to   *)
(* false with Relaxed stores.                                              *)
DropEntered ==
  /\ sbuf' = Flags
  /\ UNCHANGED <<pending, entered, pipe, upc>>

(* A Relaxed store becomes visible to the other threads. *)
StoreVisible(f) ==
  /\ f \in sbuf
  /\ sbuf' = sbuf \ {f}
  /\ pending' = (pending /\ f # "pending")
  /\ entered' = (entered /\ f # "entered")
  /\ UNCHANGED <<pipe, upc>>

(* clear_event(): the read end of the pipe is blocking, so this step is    *)
(* possible only when there is something to read.                          *)
clear_event ==
  /\ pipe > 0
  /\ pipe' = IF pipe > ReadSize THEN pipe - ReadSize ELSE 0
  /\ UNCHANGED <<pending, entered, sbuf, upc>>

------------------------------------------------------------------------------
(* Unpark::unpark *)

(* One byte is written; the write end is non-blocking, and the result of   *)
(* write is not looked at.                                                 *)
PipeAfterWrite == IF pipe < PipeSize THEN pipe + 1 ELSE pipe

(* pending.swap(true): nothing more to do if it was already pending. *)
UnparkSwap(t) ==
  /\ upc[t] = "swap"
  /\ pending' = TRUE
  /\ upc' = [upc EXCEPT ![t] = IF pending THEN "idle" ELSE "load"]
  /\ UNCHANGED <<entered, sbuf, pipe>>

(* Faulty variant: the flag is set, but no byte is ever written. *)
UnparkLoadSilent(t) ==
  /\ upc[t] = "load"
  /\ upc' = [upc EXCEPT ![t] = "idle"]
  /\ UNCHANGED parkVars

(* entered.load(SeqCst) *)
UnparkLoad(t) ==
  /\ upc[t] = "load"
  /\ upc' = [upc EXCEPT ![t] = IF entered THEN "write" ELSE "idle"]
  /\ UNCHANGED parkVars

UnparkWrite(t) ==
  /\ upc[t] = "write"
  /\ pipe' = PipeAfterWrite
  /\ upc' = [upc EXCEPT ![t] = "idle"]
  /\ UNCHANGED <<pending, entered, sbuf>>

(* The same call made by the reactor thread itself, when a completion      *)
(* notifies a task: one step, because no other step of the reactor thread  *)
(* comes between.  The swap makes its own earlier store to pending visible.*)
UnparkSelf ==
  /\ pending' = TRUE
  /\ sbuf' = sbuf \ {"pending"}
  /\ pipe' = IF ~PendingSeen /\ EnteredSeen THEN PipeAfterWrite ELSE pipe
  /\ UNCHANGED <<entered, upc>>
==============================================================================
