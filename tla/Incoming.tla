------------------------------- MODULE Incoming -------------------------------
(***************************************************************************)
(* tokio-uring-reactor/src/net.rs: the stream of incoming connections, an  *)
(* accept loop on a non-blocking listening socket that sleeps on an        *)
(* AsyncPoll when accept() would block.  blocked remembers that it would.  *)
(* One call of poll is several steps, because connections come in between  *)
(* its system calls; the tasks and the reactor run on the same thread and  *)
(* do not.  A call of accept() that a signal interrupts is repeated and    *)
(* changes nothing.  External: the kernel's queue of connections.          *)
(***************************************************************************)
EXTENDS Futures

CONSTANTS
  Listener,    \* the AsyncPoll of the stream
  Failed,      \* the results that are errors
  MaxBacklog   \* connections the kernel queues

ASSUME IncomingAssumption ==
  /\ Polls = {Listener}
  /\ Failed \subseteq Results
  /\ MaxBacklog \in Nat \ {0}

VARIABLES
  blocked,   \* Incoming.blocked
  backlog,   \* connections queued in the kernel
  ipc        \* where poll is: "out", "accept" or "poll" (of the AsyncPoll)

netVars == <<blocked, backlog, ipc>>
allVars == <<vars, netVars>>

IncomingInit ==
  /\ Init
  /\ blocked = TRUE
  /\ backlog = 0
  /\ ipc = "out"

------------------------------------------------------------------------------
(* TcpListener::incoming: poll first *)
incoming(t, a) ==
  /\ ipc = "out"
  /\ NewPoll(t, Listener, a)
  /\ blocked' = TRUE
  /\ UNCHANGED <<backlog, ipc>>

PollBegin(t) ==
  /\ ipc = "out"
  /\ Polling(t, Listener)
  /\ ipc' = IF blocked THEN "poll" ELSE "accept"
  /\ UNCHANGED <<vars, blocked, backlog>>

(* accept() returns a connection, poll returns it. *)
AcceptOk(t) ==
  /\ ipc = "accept"
  /\ Polling(t, Listener)
  /\ backlog > 0
  /\ backlog' = backlog - 1
  /\ ipc' = "out"
  /\ Resume(t)
  /\ UNCHANGED <<inner, futVars, op, alive, truth, blocked>>

(* Faulty variant: it is not remembered that accept() would block, so that *)
(* the next call accepts again and leaves the poll's result alone.         *)
AcceptWouldBlockForgotten ==
  /\ ipc = "accept"
  /\ backlog = 0
  /\ ipc' = "poll"
  /\ UNCHANGED <<vars, blocked, backlog>>

(* accept() would block: wait for an event. *)
AcceptWouldBlock ==
  /\ ipc = "accept"
  /\ backlog = 0
  /\ blocked' = TRUE
  /\ ipc' = "poll"
  /\ UNCHANGED <<vars, backlog>>

(* Any other error of accept() is returned; blocked stays false. *)
AcceptError(t) ==
  /\ ipc = "accept"
  /\ Polling(t, Listener)
  /\ ipc' = "out"
  /\ Resume(t)
  /\ UNCHANGED <<inner, futVars, op, alive, truth, blocked, backlog>>

(* The AsyncPoll is not ready, now or because it was only just queued. *)
PollSuspends(t) ==
  /\ ipc = "poll"
  /\ PollNotReady(t, Listener) \/ \E o \in Ops : PollQueue(t, Listener, o)
  /\ ipc' = "out"
  /\ UNCHANGED <<blocked, backlog>>

(* The AsyncPoll fails; blocked stays true, so that the next call polls. *)
PollFails(t) ==
  /\ ipc = "poll"
  /\ \/ PollQueueError(t, Listener)
     \/ inner[reg[Listener]].result \in Failed /\ PollReady(t, Listener)
  /\ ipc' = "out"
  /\ UNCHANGED <<blocked, backlog>>

(* Faulty variant: blocked is not reset. *)
PollEventsBlocked(t) ==
  /\ ipc = "poll"
  /\ inner[reg[Listener]].result \notin Failed
  /\ TakeEvents(t, Listener)
  /\ ipc' = "poll"
  /\ UNCHANGED <<taskVars, blocked, backlog>>

(* There are events: try accept() again. *)
PollEvents(t) ==
  /\ ipc = "poll"
  /\ inner[reg[Listener]].result \notin Failed
  /\ TakeEvents(t, Listener)
  /\ blocked' = FALSE
  /\ ipc' = "accept"
  /\ UNCHANGED <<taskVars, backlog>>

(* poll_next is the same loop; these steps do not end it. *)
poll_next(t) == PollBegin(t) \/ AcceptWouldBlock \/ PollEvents(t)

------------------------------------------------------------------------------
(* The reactor is not called from inside of poll. *)
HandleStep(o) == ipc = "out" /\ HandleCompletion(o) /\ UNCHANGED netVars

(* External: the kernel, at any time.  The poll of the listening socket    *)
(* completes when a connection is queued, or with an error.                *)
KernelStep(o) ==
  /\ \/ KernelTakes(o)
     \/ backlog > 0 /\ \E res \in Results \ Failed : KernelCompletes(o, res)
  /\ UNCHANGED netVars

KernelFails(o) ==
  /\ \E res \in Failed : KernelCompletes(o, res)
  /\ UNCHANGED netVars

Connect ==
  /\ backlog < MaxBacklog
  /\ backlog' = backlog + 1
  /\ UNCHANGED <<vars, blocked, ipc>>

(* Another process that has the listening socket accepts. *)
AcceptedElsewhere ==
  /\ backlog > 0
  /\ backlog' = backlog - 1
  /\ UNCHANGED <<vars, blocked, ipc>>

------------------------------------------------------------------------------
IncomingTypeOK ==
  /\ TypeOK
  /\ blocked \in BOOLEAN
  /\ backlog \in 0..MaxBacklog
  /\ ipc \in {"out", "accept", "poll"}
==============================================================================
