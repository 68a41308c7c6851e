--------------------------------- MODULE Echo ---------------------------------
(***************************************************************************)
(* The echo server of echo-async: the task of serve_tcp.rs accepts         *)
(* connections, for each of which a task runs handle_connection of main.rs *)
(* and reads and writes in turn.  Waiting for a connection and reading end *)
(* after a while: Timeout of timeout.rs polls its inner future and then a  *)
(* Delay that it creates when the inner one is first found pending.        *)
(*                                                                         *)
(* The tasks use the futures of Futures and the listener of Incoming, and  *)
(* share one thread, one submission queue and one reactor.  Which address  *)
(* the allocator hands out, and the drop of the reactor, are the subject   *)
(* of Futures.  External: the executor, the timer and the kernel.          *)
(***************************************************************************)
EXTENDS Incoming

CONSTANTS
  Server,       \* the task of serve
  TransferOf,   \* the transfers of each other task, one at a time
  Nothing       \* the result 0: the peer has closed the connection

Connections == Tasks \ {Server}

ASSUME EchoAssumption ==
  /\ Server \in Tasks
  /\ TransferOf \in [Connections -> Transfers]
  /\ \A c, d \in Connections : TransferOf[c] = TransferOf[d] => c = d
  /\ Nothing \in Results \ Failed

VARIABLES
  stage,    \* where each task is
  delay,    \* Timeout.delay of each task: "none", "armed" or "fired"
  running   \* the task the executor polls

echoVars == <<stage, delay, running>>
everything == <<allVars, echoVars>>

Ended == {"closed", "error", "expired"}

FutureOf(t) == IF t = Server THEN Listener ELSE TransferOf[t]

EchoInit ==
  /\ IncomingInit
  /\ stage = [t \in Tasks |-> IF t = Server THEN "start" ELSE "free"]
  /\ delay = [t \in Tasks |-> "none"]
  /\ running = NoTask

------------------------------------------------------------------------------
(* Timeout::poll *)

(* Faulty variant: a new delay is not polled, and nobody waits for it. *)
DelayUnpolled(d) == IF d = "none" THEN "new" ELSE d

(* The delay is created by the first poll that finds inner pending, and    *)
(* polled by it and every later one, which starts the timer.               *)
DelayPolled(d) == IF d = "none" THEN "armed" ELSE d

(* inner is pending: the result is that of the delay. *)
InnerPending(t) ==
  /\ delay' = [delay EXCEPT ![t] = DelayPolled(@)]
  /\ IF delay[t] = "fired"
       THEN stage' = [stage EXCEPT ![t] = "expired"] /\ UNCHANGED running
       ELSE running' = NoTask /\ UNCHANGED stage

(* inner is ready; the task goes on in stage s. *)
InnerReady(t, s) ==
  /\ delay' = [delay EXCEPT ![t] = "none"]
  /\ stage' = [stage EXCEPT ![t] = s]
  /\ UNCHANGED running

------------------------------------------------------------------------------
(* Both kinds of tasks *)

Go(t, s) == stage' = [stage EXCEPT ![t] = s] /\ UNCHANGED <<delay, running>>

At(t, stages) == running = t /\ stage[t] \in stages

(* await! of the future just created *)
StartAwait(t) ==
  /\ At(t, {"serve", "read", "write"})
  /\ Await(t, FutureOf(t))
  /\ UNCHANGED <<netVars, echoVars>>

(* The task is over: what it still owns is dropped. *)
Finish(t) ==
  /\ At(t, Ended)
  /\ Drop(FutureOf(t))
  /\ cur' = [cur EXCEPT ![t] = NoFut]
  /\ delay' = [delay EXCEPT ![t] = "none"]
  /\ running' = NoTask
  /\ UNCHANGED <<ready, netVars, stage>>

------------------------------------------------------------------------------
(* serve *)

Serve(a) ==
  /\ At(Server, {"start"})
  /\ incoming(Server, a)
  /\ Go(Server, "serve")

ServePolls ==
  /\ At(Server, {"serve"})
  /\ poll_next(Server)
  /\ UNCHANGED echoVars

ServePending ==
  /\ At(Server, {"serve"})
  /\ PollSuspends(Server)
  /\ InnerPending(Server)

ServeAccepts ==
  /\ At(Server, {"serve"})
  /\ AcceptOk(Server)
  /\ InnerReady(Server, "accepted")

(* An error of the poll, of a full submission queue too, ends the loop, *)
(* and so does one of accept().                                         *)
ServeFails ==
  /\ At(Server, {"serve"})
  /\ PollFails(Server)
  /\ InnerReady(Server, "error")

ServeAcceptFails ==
  /\ At(Server, {"serve"})
  /\ AcceptError(Server)
  /\ InnerReady(Server, "error")

ServeSpawns(c) ==
  /\ At(Server, {"accepted"})
  /\ stage[c] = "free"
  /\ stage' = [stage EXCEPT ![Server] = "serve", ![c] = "start"]
  /\ UNCHANGED <<allVars, delay, running>>

------------------------------------------------------------------------------
(* handle_connection *)

(* Faulty variant: the write is started and not awaited. *)
StartedForgets(s) == IF s = "start" THEN "read" ELSE "closed"

Started(s) == IF s = "start" THEN "read" ELSE "write"

(* read or write is called, whose future may be one that has failed. *)
StartTransfer(c, a, o) ==
  /\ At(c, {"start", "echo"})
  /\ NewTransfer(c, TransferOf[c], a, o) \/ NewTransferFull(c, TransferOf[c])
  /\ Go(c, Started(stage[c]))
  /\ UNCHANGED netVars

(* Faulty variant: the delay is asked before the read. *)
ReadPendingDelayFirst(c) ==
  /\ At(c, {"read"})
  /\ IF delay[c] = "fired"
       THEN Polling(c, TransferOf[c]) /\ UNCHANGED vars
       ELSE TransferNotReady(c, TransferOf[c])
  /\ InnerPending(c)
  /\ UNCHANGED netVars

ReadPending(c) ==
  /\ At(c, {"read"})
  /\ TransferNotReady(c, TransferOf[c])
  /\ InnerPending(c)
  /\ UNCHANGED netVars

(* A result of 0 ends the connection, an error too. *)
ReadReady(c) ==
  /\ At(c, {"read"})
  /\ TransferReady(c, TransferOf[c])
  /\ LET res == inner[reg[TransferOf[c]]].result IN
       InnerReady(c, IF res \in Failed THEN "error"
                     ELSE IF res = Nothing THEN "closed" ELSE "echo")
  /\ UNCHANGED netVars

(* The write has no timeout. *)
WritePending(c) ==
  /\ At(c, {"write"})
  /\ TransferNotReady(c, TransferOf[c])
  /\ running' = NoTask
  /\ UNCHANGED <<netVars, stage, delay>>

(* The number of bytes written is not looked at. *)
WriteReady(c) ==
  /\ At(c, {"write"})
  /\ TransferReady(c, TransferOf[c])
  /\ Go(c, IF inner[reg[TransferOf[c]]].result \in Failed THEN "error" ELSE "start")
  /\ UNCHANGED netVars

(* The operation could not be queued. *)
StartFailed(c) ==
  /\ At(c, {"read", "write"})
  /\ TransferFailed(c, TransferOf[c])
  /\ InnerReady(c, "error")
  /\ UNCHANGED netVars

(* The future that was awaited is dropped at the end of the statement. *)
EndStatement(c) ==
  /\ At(c, {"start", "echo"})
  /\ DropFuture(c, TransferOf[c])
  /\ UNCHANGED <<netVars, echoVars>>

------------------------------------------------------------------------------
(* External: the executor, one task at a time *)
Run(t) ==
  /\ running = NoTask
  /\ t \in ready
  /\ stage[t] \notin Ended \cup {"free"}
  /\ running' = t
  /\ UNCHANGED <<allVars, stage, delay>>

(* External: the time is over, or the timer fails, and the task is woken. *)
DelayFires(t) ==
  /\ running = NoTask
  /\ delay[t] = "armed"
  /\ delay' = [delay EXCEPT ![t] = "fired"]
  /\ ready' = ready \cup {t}
  /\ UNCHANGED <<inner, futVars, op, alive, cur, truth, netVars, stage, running>>

(* The executor calls the reactor. *)
EchoHandles(o) == running = NoTask /\ HandleStep(o) /\ UNCHANGED echoVars

IsPoll(o) == op[o] # NoOp /\ inner[op[o].addr].data = Listener

(* External: the kernel.  The poll of the listener completes when there is *)
(* a connection, a transfer when the peer pleases, and each with an error. *)
KernelPolls(o) == IsPoll(o) /\ KernelStep(o) /\ UNCHANGED echoVars

KernelTransfers(o) ==
  /\ ~IsPoll(o)
  /\ KernelTakes(o) \/ \E res \in Results \ Failed : KernelCompletes(o, res)
  /\ UNCHANGED <<netVars, echoVars>>

EchoKernelFails(o) == KernelFails(o) /\ UNCHANGED echoVars

(* External: clients, at most one for each task *)
Clients ==
  /\ stage[Server] \notin Ended
  /\ \/ Connect /\ backlog < Cardinality({c \in Connections : stage[c] = "free"})
     \/ AcceptedElsewhere
  /\ UNCHANGED echoVars

ServerStep ==
  \/ \E a \in Addrs : Serve(a)
  \/ ServePolls \/ ServePending \/ ServeAccepts \/ ServeFails
  \/ \E c \in Connections : ServeSpawns(c)

ConnectionStep(c) ==
  \/ \E a \in Addrs, o \in Ops : StartTransfer(c, a, o)
  \/ ReadPending(c) \/ ReadReady(c) \/ WritePending(c) \/ WriteReady(c)
  \/ StartFailed(c) \/ EndStatement(c)

TaskStep(t) ==
  \/ StartAwait(t) \/ Finish(t)
  \/ t = Server /\ ServerStep
  \/ t # Server /\ ConnectionStep(t)

EchoNext ==
  \/ \E t \in Tasks : Run(t) \/ TaskStep(t) \/ DelayFires(t)
  \/ ServeAcceptFails
  \/ \E o \in Ops : EchoHandles(o) \/ KernelPolls(o) \/ KernelTransfers(o) \/ EchoKernelFails(o)
  \/ Clients

EchoSpec == EchoInit /\ [][EchoNext]_everything

(* A running task goes on.  The executor serves its run queue in turn,     *)
(* calls the reactor and turns the timer again and again: strong fairness, *)
(* because none of them can happen while a task runs.  The kernel notices  *)
(* connections; nothing is assumed of transfers, which depend on the peer, *)
(* nor of the server's own delay, so that it cannot stand in for a wakeup. *)
EchoFairness ==
  /\ \A t \in Tasks : WF_everything(TaskStep(t)) /\ SF_everything(Run(t))
  /\ \A c \in Connections : SF_everything(DelayFires(c))
  /\ \A o \in Ops : SF_everything(EchoHandles(o)) /\ WF_everything(KernelPolls(o))

FairEchoSpec == EchoSpec /\ EchoFairness
------------------------------------------------------------------------------
EchoTypeOK ==
  /\ IncomingTypeOK
  /\ stage \in [Tasks -> Ended \cup {"free", "start", "serve", "accepted", "read", "echo", "write"}]
  /\ delay \in [Tasks -> {"none", "armed", "fired"}]
  /\ running \in Tasks \cup {NoTask}

(* An operation nobody waits for any more is left by a timeout alone,      *)
(* which cannot cancel it: a connection that ends otherwise, or goes on,   *)
(* has no operation in the kernel that still uses its buffer.  The task    *)
(* goes from read to write and back only with the buffer in its hands.     *)
LeftByTimeoutOnly ==
  \A o \in Ops : op[o] # NoOp =>
    \E t \in Tasks :
      /\ inner[op[o].addr].data = FutureOf(t)
      /\ op[o].owner = NoFut => stage[t] = "expired"

(* A timeout that races a completion does not win over it: once the        *)
(* reactor has notified a future, its result is taken by the task, and the *)
(* future is not dropped with the result in it.                            *)
NotifiedIsTaken ==
  [][\A f \in Futs :
       reg[f] # NoAddr /\ inner[reg[f]].finished /\ reg'[f] # reg[f]
         => state'[f] = "Closed"]_everything

(* The kernel has completed the operation of f; f has not returned it yet. *)
Completed(f) ==
  \/ \E o \in OpsAt({"cq"}) : op[o].owner = f
  \/ reg[f] # NoAddr /\ inner[reg[f]].finished

(* Nobody waits for ever for a silent peer, also if the kernel never       *)
(* completes the read; and a write, which has no timeout, ends when the    *)
(* kernel has completed it: the waker is called and the task polled again, *)
(* while the others use the thread.                                        *)
WaitEnds ==
  \A c \in Connections :
    /\ stage[c] = "read" ~> stage[c] # "read"
    /\ stage[c] = "write" /\ Completed(TransferOf[c]) ~> stage[c] # "write"

(* A connection is not left in the kernel's queue while the server waits   *)
(* for one, also when it arrives between the accept() that would block and *)
(* the poll that is queued after it, and without the help of the timeout:  *)
(* the server accepts or fails, unless others take the connections.        *)
ConnectionTaken ==
  stage[Server] = "serve" /\ backlog > 0 ~> stage[Server] # "serve" \/ backlog = 0

------------------------------------------------------------------------------
(* The inductive invariant *)

(* A task awaits its own future or none. *)
OwnFutureInv == \A t \in Tasks : cur[t] \in {NoFut, FutureOf(t)}

(* The future of a connection at each place in handle_connection: between  *)
(* two statements it is gone or has returned its result.                   *)
ConnectionInv ==
  \A c \in Connections :
    /\ stage[c] \in {"read", "write"} => state[TransferOf[c]] \in {"Pending", "InitFailed"}
    /\ stage[c] \in {"free", "start", "echo", "closed", "error"} =>
         state[TransferOf[c]] \in {"none", "Closed"}

(* The stream has no poll under way after an error or while it tries       *)
(* accept(), and only polls when accept() would block.                     *)
ListenerInv ==
  /\ stage[Server] \in {"closed", "error"} \/ ipc = "accept" \/ ~blocked => ~active[Listener]
  /\ ipc = "poll" => blocked
  /\ ipc = "accept" => ~blocked

(* A task that runs into its timeout has just found its future pending. *)
TimeoutInv ==
  \A t \in Tasks :
    running = t /\ stage[t] = "expired" /\ reg[FutureOf(t)] # NoAddr =>
      ~inner[reg[FutureOf(t)]].finished

EchoIInv ==
  /\ EchoTypeOK /\ IInv
  /\ OwnFutureInv /\ ConnectionInv /\ ListenerInv /\ TimeoutInv
  /\ LeftByTimeoutOnly
==============================================================================
