----------------------------- MODULE Descriptors -----------------------------
(***************************************************************************)
(* Which file an operation reaches.  An entry of the submission queue has  *)
(* only the number of a file descriptor, which the kernel looks up when it *)
(* takes the entry, possibly long after it was filled; numbers are used    *)
(* again once a file is closed.  The futures of async_read.rs and          *)
(* async_write.rs own the stream, or the half of it that io.rs splits off, *)
(* in the context the operation keeps alive; Incoming of net.rs owns its   *)
(* listener next to an AsyncPoll that has the number alone.                *)
(*                                                                         *)
(* The queues are those of Reactor and the registrations those of Futures. *)
(* External: the table of descriptors, the rest of the process, and the    *)
(* kernel.                                                                 *)
(***************************************************************************)
EXTENDS Integers, FiniteSets

CONSTANTS
  Streams,    \* TcpStreams
  Listeners,  \* TcpListeners
  Other,      \* a file of the rest of the process
  Numbers,    \* bound: numbers of file descriptors
  Ops,        \* bound: operations under way at a time
  NoFile, NoOp

Parts == {"whole", "read", "write"}
Files == Streams \cup Listeners \cup {Other}

OpRecord == [fd : Numbers, file : Streams \cup Listeners, part : Parts \cup {"poll"},
             future : BOOLEAN, stage : {"sq", "kernel", "cq", "finished"},
             found : Files \cup {NoFile}]

ASSUME DescriptorsAssumption ==
  /\ NoFile \notin Files
  /\ Other \notin Streams \cup Listeners
  /\ Streams \cap Listeners = {}
  /\ NoOp \notin OpRecord

VARIABLES
  table,   \* the open file of each number
  part,    \* where a stream and the halves of it are: "none", with a "task",
           \* in the "context" of an operation or in a "failed" future
  strong,  \* references to the stream: 1, or the count of the Rc once split
  active,  \* AsyncPoll.active of each Incoming, FALSE if there is none
  op       \* operations: number and, for the properties, the file meant, the
           \* part in the context, whether the future exists, and the file found

vars == <<table, part, strong, active, op>>

Open(f) == \E n \in Numbers : table[n] = f

Init ==
  /\ table = [n \in Numbers |-> NoFile]
  /\ part = [s \in Streams |-> [p \in Parts |-> "none"]]
  /\ strong = [s \in Streams |-> 0]
  /\ active = [l \in Listeners |-> FALSE]
  /\ op = [o \in Ops |-> NoOp]

as_raw_fd(f) == CHOOSE n \in Numbers : table[n] = f

Closed(f) == [n \in Numbers |-> IF table[n] = f THEN NoFile ELSE table[n]]

(* Drop of a part of a stream: the last reference closes the file. *)
Release(s, p) ==
  /\ part' = [part EXCEPT ![s][p] = "none"]
  /\ strong' = [strong EXCEPT ![s] = @ - 1]
  /\ table' = IF strong[s] = 1 THEN Closed(s) ELSE table

Move(s, p, to) == part' = [part EXCEPT ![s][p] = to] /\ UNCHANGED <<table, strong>>

(* An entry is filled for a file that was open when its number was asked. *)
Submit(o, f, p) ==
  /\ op[o] = NoOp
  /\ op' = [op EXCEPT ![o] = [fd |-> as_raw_fd(f), file |-> f, part |-> p,
                              future |-> TRUE, stage |-> "sq", found |-> NoFile]]

------------------------------------------------------------------------------
(* Streams *)

(* accept() returns a new stream. *)
NewStream(s, n) ==
  /\ ~Open(s) /\ table[n] = NoFile
  /\ table' = [table EXCEPT ![n] = s]
  /\ part' = [part EXCEPT ![s]["whole"] = "task"]
  /\ strong' = [strong EXCEPT ![s] = 1]
  /\ UNCHANGED <<active, op>>

(* Faulty variant: both halves have the same reference. *)
SplitCountOne(s) == strong[s]

(* Faulty variant: the stream is cloned for both halves. *)
SplitCountBoth(s) == strong[s] + 2

SplitCount(s) == strong[s] + 1

split(s) ==
  /\ part[s]["whole"] = "task"
  /\ part' = [part EXCEPT ![s] = [p \in Parts |-> IF p = "whole" THEN "none" ELSE "task"]]
  /\ strong' = [strong EXCEPT ![s] = SplitCount(s)]
  /\ UNCHANGED <<table, active, op>>

DropPart(s, p) ==
  /\ part[s][p] = "task"
  /\ Release(s, p)
  /\ UNCHANGED <<active, op>>

(* read or write: the part moves into the context. *)
Transfer(s, p, o) ==
  /\ part[s][p] = "task"
  /\ Submit(o, s, p)
  /\ Move(s, p, "context")
  /\ UNCHANGED active

(* The operation is not queued: the future has the context, and returns it *)
(* with the error or is dropped.                                           *)
TransferFails(s, p) ==
  /\ part[s][p] = "task"
  /\ Move(s, p, "failed")
  /\ UNCHANGED <<active, op>>

FailedReturns(s, p) ==
  /\ part[s][p] = "failed"
  /\ Move(s, p, "task")
  /\ UNCHANGED <<active, op>>

FailedDropped(s, p) ==
  /\ part[s][p] = "failed"
  /\ Release(s, p)
  /\ UNCHANGED <<active, op>>

(* poll of a finished transfer: the part goes back to the task. *)
TransferReady(o) ==
  /\ op[o] # NoOp /\ op[o].part # "poll"
  /\ op[o].stage = "finished" /\ op[o].future
  /\ op' = [op EXCEPT ![o] = NoOp]
  /\ Move(op[o].file, op[o].part, "task")
  /\ UNCHANGED active

(* Faulty variant: the file is dropped with the future. *)
DropTransferCloses(o) ==
  /\ op[o] # NoOp /\ op[o].part # "poll" /\ op[o].future
  /\ Release(op[o].file, op[o].part)
  /\ op' = [op EXCEPT ![o].future = FALSE]
  /\ UNCHANGED active

(* Drop of a transfer: the context stays with an operation under way. *)
DropTransfer(o) ==
  /\ op[o] # NoOp /\ op[o].part # "poll" /\ op[o].future
  /\ IF op[o].stage = "finished"
       THEN Release(op[o].file, op[o].part) /\ op' = [op EXCEPT ![o] = NoOp]
       ELSE op' = [op EXCEPT ![o].future = FALSE] /\ UNCHANGED <<table, part, strong>>
  /\ UNCHANGED active

------------------------------------------------------------------------------
(* Incoming *)

(* TcpListener::from and incoming *)
incoming(l, n) ==
  /\ ~Open(l) /\ table[n] = NoFile
  /\ table' = [table EXCEPT ![n] = l]
  /\ UNCHANGED <<part, strong, active, op>>

QueuePoll(l, o) ==
  /\ Open(l) /\ ~active[l]
  /\ Submit(o, l, "poll")
  /\ active' = [active EXCEPT ![l] = TRUE]
  /\ UNCHANGED <<table, part, strong>>

PollReady(o) ==
  /\ op[o] # NoOp /\ op[o].part = "poll"
  /\ op[o].stage = "finished" /\ op[o].future
  /\ active' = [active EXCEPT ![op[o].file] = FALSE]
  /\ op' = [op EXCEPT ![o] = NoOp]
  /\ UNCHANGED <<table, part, strong>>

(* The operation of a dropped AsyncPoll; a finished one is gone with it. *)
Orphaned(l) ==
  [o \in Ops |-> IF op[o] = NoOp \/ op[o].file # l \/ ~op[o].future THEN op[o]
                 ELSE IF op[o].stage = "finished" THEN NoOp
                 ELSE [op[o] EXCEPT !.future = FALSE]]

(* Drop of Incoming: the listener is closed, the poll stays queued. *)
DropIncoming(l) ==
  /\ Open(l)
  /\ table' = Closed(l)
  /\ op' = Orphaned(l)
  /\ active' = [active EXCEPT ![l] = FALSE]
  /\ UNCHANGED <<part, strong>>

------------------------------------------------------------------------------
(* Faulty variant: a poll without a future closes the number it has. *)
HandleCompletionCloses(o) ==
  /\ op[o] # NoOp /\ op[o].stage = "cq"
  /\ op' = [op EXCEPT ![o] = IF op[o].future THEN [@ EXCEPT !.stage = "finished"] ELSE NoOp]
  /\ IF op[o].future THEN UNCHANGED <<table, part, strong>>
     ELSE IF op[o].part # "poll" THEN Release(op[o].file, op[o].part)
     ELSE table' = [table EXCEPT ![op[o].fd] = NoFile] /\ UNCHANGED <<part, strong>>
  /\ UNCHANGED active

(* handle_completion: the operation's reference to the registration ends,  *)
(* and with it the context if the future is gone.                          *)
HandleCompletion(o) ==
  /\ op[o] # NoOp /\ op[o].stage = "cq"
  /\ op' = [op EXCEPT ![o] = IF op[o].future THEN [@ EXCEPT !.stage = "finished"] ELSE NoOp]
  /\ IF op[o].future \/ op[o].part = "poll"
       THEN UNCHANGED <<table, part, strong>>
       ELSE Release(op[o].file, op[o].part)
  /\ UNCHANGED active

(* External: the kernel finds the file, or none, and completes at leisure. *)
KernelTakes(o) ==
  /\ op[o] # NoOp /\ op[o].stage = "sq"
  /\ op' = [op EXCEPT ![o].stage = "kernel", ![o].found = table[op[o].fd]]
  /\ UNCHANGED <<table, part, strong, active>>

KernelCompletes(o) ==
  /\ op[o] # NoOp /\ op[o].stage = "kernel"
  /\ op' = [op EXCEPT ![o].stage = "cq"]
  /\ UNCHANGED <<table, part, strong, active>>

(* External: the rest of the process opens and closes a file. *)
OpenOther(n) ==
  /\ ~Open(Other) /\ table[n] = NoFile
  /\ table' = [table EXCEPT ![n] = Other]
  /\ UNCHANGED <<part, strong, active, op>>

CloseOther ==
  /\ Open(Other)
  /\ table' = Closed(Other)
  /\ UNCHANGED <<part, strong, active, op>>

StreamStep(s) ==
  \/ \E n \in Numbers : NewStream(s, n)
  \/ split(s)
  \/ \E p \in Parts :
       \/ DropPart(s, p) \/ TransferFails(s, p) \/ FailedReturns(s, p) \/ FailedDropped(s, p)
       \/ \E o \in Ops : Transfer(s, p, o)

OpStep(o) ==
  \/ TransferReady(o) \/ DropTransfer(o) \/ PollReady(o)
  \/ HandleCompletion(o) \/ KernelTakes(o) \/ KernelCompletes(o)

Next ==
  \/ \E s \in Streams : StreamStep(s)
  \/ \E l \in Listeners, n \in Numbers, o \in Ops : incoming(l, n) \/ QueuePoll(l, o) \/ DropIncoming(l)
  \/ \E o \in Ops : OpStep(o)
  \/ (\E n \in Numbers : OpenOther(n)) \/ CloseOther

Spec == Init /\ [][Next]_vars
------------------------------------------------------------------------------
TypeOK ==
  /\ table \in [Numbers -> Files \cup {NoFile}]
  /\ part \in [Streams -> [Parts -> {"none", "task", "context", "failed"}]]
  /\ strong \in [Streams -> 0..2]
  /\ active \in [Listeners -> BOOLEAN]
  /\ op \in [Ops -> OpRecord \cup {NoOp}]

(* The kernel finds the file an operation was meant for, however late it   *)
(* looks and although numbers are used again: always for a read or write,  *)
(* also one whose future was dropped, because the operation keeps the file *)
(* open, and for a poll as long as its Incoming lives.                     *)
FindsItsFile ==
  \A o \in Ops :
    op[o] # NoOp /\ op[o].stage # "sq" /\ (op[o].future \/ op[o].part # "poll")
      => op[o].found = op[o].file

(* The poll of an Incoming that was dropped may find another file under    *)
(* the number it copied in TcpListener::incoming.                          *)
Stray(o) ==
  /\ op[o] # NoOp /\ op[o].stage # "sq"
  /\ op[o].found \notin {op[o].file, NoFile}

(* An operation that found another file than its own does nothing to it    *)
(* nor to anybody else: whatever becomes of it until handle_completion     *)
(* drops its registration, no file is closed, no part of a stream changes  *)
(* hands, and no Incoming learns of it, not even a new one whose listener  *)
(* has the old number.                                                     *)
StrayChangesNothing ==
  [][\A o \in Ops : Stray(o) /\ op'[o] # op[o] => UNCHANGED <<table, part, strong, active>>]_vars

(* A stream is closed when the last part of it is dropped, neither earlier *)
(* nor later, wherever the halves are: with tasks, in the contexts of      *)
(* operations whose futures may be gone, or in failed futures.             *)
ClosedByLast ==
  \A s \in Streams :
    /\ strong[s] = Cardinality({p \in Parts : part[s][p] # "none"})
    /\ Open(s) <=> strong[s] > 0

------------------------------------------------------------------------------
(* The inductive invariant *)

(* A file has one number. *)
NumberInv ==
  \A m, n \in Numbers : table[m] = table[n] /\ table[m] # NoFile => m = n

(* A stream is whole or has halves, and each part counts. *)
Exists(s, p) == part[s][p] # "none"

PartInv ==
  \A s \in Streams :
    /\ Exists(s, "whole") => ~Exists(s, "read") /\ ~Exists(s, "write") /\ strong[s] = 1
    /\ Exists(s, "read") /\ Exists(s, "write") => strong[s] = 2
    /\ Exists(s, "read") /\ ~Exists(s, "write") => strong[s] = 1
    /\ ~Exists(s, "read") /\ Exists(s, "write") => strong[s] = 1
    /\ (\A p \in Parts : ~Exists(s, p)) => strong[s] = 0
    /\ Open(s) <=> strong[s] > 0

(* A transfer under way has the part it uses for itself, and with it the   *)
(* number that is in its entry.                                            *)
IsTransfer(o) == op[o] # NoOp /\ op[o].part # "poll"

TransferInv ==
  /\ \A o \in Ops : IsTransfer(o) =>
       /\ op[o].file \in Streams
       /\ part[op[o].file][op[o].part] = "context"
       /\ table[op[o].fd] = op[o].file
  /\ \A o, p \in Ops :
       IsTransfer(o) /\ IsTransfer(p) /\ op[o].file = op[p].file /\ op[o].part = op[p].part => o = p

(* A poll whose Incoming lives has the number of its listener. *)
PollInv ==
  \A o \in Ops : op[o] # NoOp /\ op[o].part = "poll" =>
    /\ op[o].file \in Listeners
    /\ op[o].future => table[op[o].fd] = op[o].file

IInv == TypeOK /\ NumberInv /\ PartInv /\ TransferInv /\ PollInv /\ FindsItsFile
==============================================================================
