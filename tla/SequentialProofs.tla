-------------------------- MODULE SequentialProofs --------------------------
(***************************************************************************)
(* The two components that one thread runs on its own: the methods of a    *)
(* runtime, for any number of runtimes and tasks, and the builders of a    *)
(* submission entry, for every width of the integers.                      *)
(***************************************************************************)
EXTENDS Entry, Runtime, TLAPS

------------------------------------------------------------------------------
(* Runtime *)

(* A call of the executor, as opposed to none *)
Calls == [rt : Runtimes, method : Methods, phase : {"run", "block_on"}, ret : {"ok", "err"}]

(* The call that is running, if one is, and what no call looks like *)
LEMMA CallFields ==
  /\ NoCall \notin Calls /\ NoCall.rt = NoRuntime /\ NoCall.phase = "none"
  /\ \A c \in Calls : /\ c.rt \in Runtimes /\ c.rt # NoRuntime
                      /\ c.method \in Methods /\ c.phase \in {"run", "block_on"}
                      /\ c.ret \in {"ok", "err"}
BY RuntimeAssumption DEF Calls, NoCall

LEMMA RuntimeInitial == RuntimeInit => RuntimeIInv
<1> SUFFICES ASSUME RuntimeInit PROVE RuntimeIInv
  OBVIOUS
<1>1. tasks \in [Runtimes -> 0..MaxTasks]
  BY RuntimeAssumption DEF RuntimeInit
<1>2. RuntimeTypeOK
  BY <1>1 DEF RuntimeInit, RuntimeTypeOK
<1>3. HandlesAreOwn /\ ~Running
  BY CallFields DEF RuntimeInit, HandlesAreOwn, Running
<1> QED
  BY <1>2, <1>3, CallFields DEF RuntimeInit, RuntimeIInv

(* Steps that only change how many tasks there are *)
LEMMA TasksStep ==
  ASSUME RuntimeIInv, tasks' \in [Runtimes -> 0..MaxTasks],
         UNCHANGED <<call, current, timer, entered, bound, last>>
  PROVE  RuntimeIInv'
BY DEF RuntimeIInv, RuntimeTypeOK, HandlesAreOwn, Running

(* Every way out of a call restores what was before it. *)
LEMMA LeaveStep ==
  ASSUME RuntimeIInv, Running, NEW outcome \in {"ok", "err", "panic"},
         NEW cause \in {"task", "done", "loop", "timeout", "refused"},
         Leave(outcome, cause), tasks' \in [Runtimes -> 0..MaxTasks]
  PROVE  RuntimeIInv'
<1>1. call.method \in Methods
  BY CallFields DEF RuntimeIInv, RuntimeTypeOK, Running, Calls
<1>2. /\ call' = NoCall /\ current' = NoRuntime /\ timer' = NoRuntime
      /\ entered' = bound /\ bound' = bound /\ bound \in BOOLEAN
  BY DEF Leave, AfterReset, EnterAfter, RuntimeIInv, RuntimeTypeOK
<1>3. last' \in [method : Methods, outcome : {"ok", "err", "panic"},
                 cause : {"task", "done", "loop", "timeout", "refused"}]
  BY <1>1 DEF Leave
<1>4. RuntimeTypeOK'
  BY <1>2, <1>3 DEF RuntimeTypeOK
<1>5. HandlesAreOwn' /\ ~Running'
  BY <1>2, CallFields DEF HandlesAreOwn, Running
<1> QED
  BY <1>2, <1>4, <1>5, CallFields DEF RuntimeIInv

(* A call that is let in finds no other and sets both handles. *)
LEMMA WithStep ==
  ASSUME RuntimeIInv, NEW r \in Runtimes, NEW method \in Methods,
         With(r, method), entered' = TRUE
  PROVE  RuntimeIInv'
<1>1. /\ call' \in Calls /\ call'.rt = r /\ call'.method = method
      /\ call'.phase = "block_on" => method = "block_on_all"
  BY DEF With, Calls
<1>2. call' # NoCall
  BY <1>1, CallFields
<1>3. RuntimeTypeOK'
  BY <1>1 DEF With, RuntimeIInv, RuntimeTypeOK, Calls
<1> QED
  BY <1>1, <1>2, <1>3 DEF With, RuntimeIInv, HandlesAreOwn, Running

LEMMA RuntimeStep == RuntimeIInv /\ [RuntimeNext]_runtimeVars => RuntimeIInv'
<1> SUFFICES ASSUME RuntimeIInv, [RuntimeNext]_runtimeVars PROVE RuntimeIInv'
  OBVIOUS
<1>0. /\ tasks \in [Runtimes -> 0..MaxTasks] /\ MaxTasks \in Nat
      /\ call \in Calls \cup {NoCall} /\ {entered, bound} \subseteq BOOLEAN
  BY RuntimeAssumption DEF RuntimeIInv, RuntimeTypeOK, Calls
<1>a. Running => call.rt \in Runtimes /\ call.ret \in {"ok", "err"}
  BY <1>0, CallFields DEF Running
<1>b. call.phase \in {"run", "block_on"} \/ call.method \in Methods => Running
  BY CallFields DEF Running, NoCall, Methods
<1>1. ASSUME NEW r \in Runtimes, Spawn(r) PROVE RuntimeIInv'
  <2>1. tasks' \in [Runtimes -> 0..MaxTasks]
    BY <1>0, <1>1 DEF Spawn
  <2> QED BY <1>1, <2>1, TasksStep DEF Spawn
<1>2. ASSUME NEW r \in Runtimes, NEW method \in Methods, CallRuntime(r, method)
      PROVE  RuntimeIInv'
  BY <1>2, WithStep DEF CallRuntime
<1>3. ASSUME NEW r \in Runtimes, NEW method \in Methods, CallEntered(r, method)
      PROVE  RuntimeIInv'
  <2>1. entered' = TRUE
    BY <1>0, <1>3 DEF CallEntered, RuntimeIInv
  <2> QED BY <1>3, <2>1, WithStep DEF CallEntered
<1>4. CASE BindEnter \/ UnbindEnter
  BY <1>0, <1>4 DEF BindEnter, UnbindEnter, RuntimeIInv, RuntimeTypeOK, HandlesAreOwn, Running
<1>5. ASSUME NEW method \in Methods, CallRefused(method) PROVE RuntimeIInv'
  BY <1>5 DEF CallRefused, RuntimeIInv, RuntimeTypeOK, HandlesAreOwn, Running
<1>6. ASSUME Running, tasks[call.rt] > 0
      PROVE  [tasks EXCEPT ![call.rt] = @ - 1] \in [Runtimes -> 0..MaxTasks]
  BY <1>0, <1>6, <1>a
<1>7. CASE TaskFinishes
  BY <1>6, <1>7, TasksStep DEF TaskFinishes
<1>8. CASE TaskPanics
  BY <1>6, <1>8, LeaveStep DEF TaskPanics
<1>9. ASSUME NEW ret \in {"ok", "err"}, BlockOnEnds(ret) PROVE RuntimeIInv'
  <2>1. call \in Calls
    BY <1>0, <1>9, CallFields DEF BlockOnEnds
  <2>2. /\ call' \in Calls /\ call'.rt = call.rt /\ call'.phase = "run"
        /\ call' # NoCall /\ call # NoCall
    BY <2>1, <1>9, CallFields DEF BlockOnEnds, Calls
  <2> QED
    BY <2>2, <1>9 DEF BlockOnEnds, RuntimeIInv, RuntimeTypeOK, HandlesAreOwn, Running, Calls
<1>10. CASE BlockOnPanics
  BY <1>0, <1>b, <1>10, LeaveStep DEF BlockOnPanics
<1>11. CASE RunEnds
  BY <1>0, <1>a, <1>b, <1>11, LeaveStep DEF RunEnds
<1>12. CASE ParkFails
  <2> DEFINE outcome == IF call.method = "block_on_all" THEN "panic" ELSE "err"
  <2>1. outcome \in {"ok", "err", "panic"} /\ Running /\ Leave(outcome, "loop")
    BY <1>12, <1>b DEF ParkFails
  <2> HIDE DEF outcome
  <2> QED BY <1>0, <1>12, <2>1, LeaveStep DEF ParkFails
<1>13. CASE TimedOut
  BY <1>0, <1>b, <1>13, LeaveStep DEF TimedOut, Methods
<1>14. CASE TurnEnds
  BY <1>0, <1>b, <1>14, LeaveStep DEF TurnEnds, Methods
<1>15. CASE UNCHANGED runtimeVars
  BY <1>0, <1>15, TasksStep DEF runtimeVars
<1> QED
  BY <1>1, <1>2, <1>3, <1>4, <1>5, <1>7, <1>8, <1>9, <1>10, <1>11, <1>12, <1>13, <1>14, <1>15
     DEF RuntimeNext

(* RuntimeIInv holds in every reachable state, for any number of runtimes  *)
(* on the thread and of tasks in them.                                     *)
THEOREM RuntimeInvariant == RuntimeSpec => []RuntimeIInv
BY RuntimeInitial, RuntimeStep, PTL DEF RuntimeSpec

(* Tasks find the reactor and the timer of the runtime that polls them,    *)
(* and nobody finds a handle after with_reactor_handle has returned or     *)
(* unwound.                                                                *)
THEOREM RuntimeHandlesAreOwn == RuntimeSpec => []HandlesAreOwn
<1>1. RuntimeIInv => HandlesAreOwn
  BY DEF RuntimeIInv
<1> QED
  BY <1>1, RuntimeInvariant, PTL

(* The success of run and block_on_all means that no task is left: of the  *)
(* ways out of a call only RunEnds reports it for them.                    *)
THEOREM RuntimeSuccessMeansDone == RuntimeSpec => SuccessMeansDone
<1> DEFINE Done == call.method \in {"run", "block_on_all"} /\ call' = NoCall
                     /\ last'.outcome = "ok" => tasks[call.rt] = 0
<1>1. RuntimeIInv /\ [RuntimeNext]_runtimeVars => [Done]_runtimeVars
  <2> SUFFICES ASSUME RuntimeIInv, RuntimeNext, call.method \in {"run", "block_on_all"},
                      call' = NoCall, last'.outcome = "ok"
               PROVE  tasks[call.rt] = 0
    BY DEF Done
  <2>1. call \in Calls /\ Running
    BY CallFields DEF RuntimeIInv, RuntimeTypeOK, Calls, NoCall, Running
  <2>2. call' # call
    BY <2>1 DEF Running
  <2>3. ASSUME NEW r \in Runtimes PROVE ~Spawn(r)
    BY <2>2 DEF Spawn
  <2>4. ASSUME NEW r \in Runtimes, NEW method \in Methods
        PROVE  ~CallRuntime(r, method) /\ ~CallEntered(r, method)
    BY <2>1 DEF CallRuntime, CallEntered
  <2>5. ASSUME NEW method \in Methods PROVE ~CallRefused(method)
    BY <2>2 DEF CallRefused
  <2>6. ~BindEnter /\ ~UnbindEnter /\ ~TaskFinishes
    BY <2>2 DEF BindEnter, UnbindEnter, TaskFinishes
  <2>7. ~TaskPanics /\ ~BlockOnPanics
    BY DEF TaskPanics, BlockOnPanics, Leave
  <2>8. ASSUME NEW ret \in {"ok", "err"} PROVE ~BlockOnEnds(ret)
    BY <2>1, CallFields DEF BlockOnEnds, Calls
  <2>9. ~ParkFails
    BY DEF ParkFails, Leave
  <2>10. ~TimedOut /\ ~TurnEnds
    BY DEF TimedOut, TurnEnds
  <2>11. RunEnds
    BY <2>3, <2>4, <2>5, <2>6, <2>7, <2>8, <2>9, <2>10 DEF RuntimeNext
  <2> QED BY <2>11 DEF RunEnds
<1> QED
  BY <1>1, RuntimeInvariant, PTL DEF RuntimeSpec, SuccessMeansDone, Done

------------------------------------------------------------------------------
(* Entry: the conversions *)

(* The constants, one fact at a time *)
LEMMA EntryConstants ==
  /\ U32 \in Nat /\ U32 >= 2 /\ U16 \in Nat /\ U16 > 0 /\ U16 <= U32
  /\ U32 \div 2 \in Nat /\ U32 = 2 * (U32 \div 2)
  /\ Fds \subseteq (-(U32 \div 2))..(U32 \div 2 - 1)
  /\ Indices \subseteq 0..(U32 - 1) /\ Words \subseteq 0..(U32 - 1)
  /\ Halves \subseteq 0..(U16 - 1)
  /\ Offsets \subseteq Nat /\ Pointers \subseteq Nat /\ Lengths \subseteq Nat
  /\ UserData \subseteq Nat /\ Levels \subseteq 0..7
BY EntryAssumption

(* A cast to u32 keeps a value that fits, and never enlarges one. *)
LEMMA AsU32Value ==
  ASSUME NEW n \in Nat
  PROVE  AsU32(n) \in 0..(U32 - 1) /\ AsU32(n) <= n /\ (n < U32 => AsU32(n) = n)
BY EntryConstants DEF AsU32

(* An index comes back unchanged from its way through an i32. *)
LEMMA IndexRoundTrip ==
  ASSUME NEW n \in 0..(U32 - 1)
  PROVE  AsI32(n) \in (-(U32 \div 2))..(U32 \div 2 - 1) /\ AsU32(AsI32(n)) = n
<1>1. n % U32 = n /\ (n - U32) % U32 = n
  BY EntryConstants
<1> QED
  BY <1>1, EntryConstants DEF AsI32, AsU32

(* The opcodes are a numbering of the operations. *)
LEMMA OpcodeRoundTrip ==
  ASSUME NEW i \in 1..8
  PROVE  RawOperation(Operation[i]) \in 0..7 /\ Decode(RawOperation(Operation[i])) = Operation[i]
<1> DEFINE j == CHOOSE k \in 1..8 : Operation[k] = Operation[i]
<1>1. j \in 1..8 /\ Operation[j] = Operation[i]
  OBVIOUS
<1>2. RawOperation(Operation[i]) = j - 1
  BY DEF RawOperation
<1> HIDE DEF j
<1>3. j - 1 \in 0..7 /\ (j - 1) + 1 = j
  BY <1>1
<1> QED
  BY <1>1, <1>2, <1>3 DEF Decode

Names == {"Nop", "Readv", "Writev", "Fsync", "ReadFixed", "WriteFixed", "PollAdd", "PollRemove"}

LEMMA Opcodes ==
  ASSUME NEW o \in Names
  PROVE  /\ RawOperation(o) \in 0..7 /\ Decode(RawOperation(o)) = o
         /\ RawOperation(o) = RawOperation("PollAdd") <=> o = "PollAdd"
<1>1. \E i \in 1..8 : Operation[i] = o
  <2>1. /\ Operation[1] = "Nop" /\ Operation[2] = "Readv" /\ Operation[3] = "Writev"
        /\ Operation[4] = "Fsync" /\ Operation[5] = "ReadFixed" /\ Operation[6] = "WriteFixed"
        /\ Operation[7] = "PollAdd" /\ Operation[8] = "PollRemove"
    BY DEF Operation
  <2> QED BY <2>1 DEF Names
<1>2. RawOperation(o) \in 0..7 /\ Decode(RawOperation(o)) = o
  BY <1>1, OpcodeRoundTrip
<1>3. Decode(RawOperation("PollAdd")) = "PollAdd"
  <2>1. Operation[7] = "PollAdd"
    BY DEF Operation
  <2> QED BY <2>1, OpcodeRoundTrip
<1> QED
  BY <1>2, <1>3

(* A priority is its class and its level; two classes have none. *)
LEMMA PriorityFields ==
  ASSUME NEW q \in Priorities
  PROVE  /\ PriorityClass[q.class] \in 0..3 /\ q.level \in 0..7
         /\ q.class \in {"None", "Realtime", "BestEffort", "Idle"}
         /\ q.class \in {"None", "Idle"} => q.level = 0
         /\ q = [class |-> q.class, level |-> q.level]
<1>1. CASE q \in [class : {"Realtime", "BestEffort"}, level : Levels]
  <2>1. /\ q.class \in {"Realtime", "BestEffort"} /\ q.level \in 0..7
        /\ q = [class |-> q.class, level |-> q.level]
    BY <1>1, EntryConstants
  <2> QED BY <2>1 DEF PriorityClass
<1>2. CASE q = NoPriority \/ q = [class |-> "Idle", level |-> 0]
  BY <1>2 DEF NoPriority, PriorityClass
<1> QED
  BY <1>1, <1>2 DEF Priorities

LEMMA ClassesDiffer ==
  ASSUME NEW c \in {"None", "Realtime", "BestEffort", "Idle"},
         NEW d \in {"None", "Realtime", "BestEffort", "Idle"},
         PriorityClass[c] = PriorityClass[d]
  PROVE  c = d
BY DEF PriorityClass

(* Class and level do not share bits. *)
LEMMA ClassAndLevel ==
  ASSUME NEW c \in 0..3, NEW l \in 0..7
  PROVE  /\ c * 8192 + l \in Int /\ c * 8192 + l >= 0 /\ c * 8192 + l < 65536
         /\ (c * 8192 + l) \div 8192 = c /\ (c * 8192 + l) % 256 = l
<1>1. c * 8192 + l \in Int /\ c * 8192 + l >= 0 /\ c * 8192 + l < 65536
  OBVIOUS
<1>2. (c * 8192 + l) \div 8192 = c
  OBVIOUS
<1>3. (c * 8192 + l) % 256 = l
  OBVIOUS
<1> QED
  BY <1>1, <1>2, <1>3

(* A priority is decoded to itself and to nothing else. *)
LEMMA PriorityRoundTrip ==
  ASSUME NEW p \in Priorities
  PROVE  /\ EncodedIoPriority(p) \in 0..(2^16 - 1)
         /\ TryFromPriority(EncodedIoPriority(p)) = {p}
<1> DEFINE c == PriorityClass[p.class]
           e == EncodedIoPriority(p)
<1>1. 2^13 = 8192 /\ 2^8 = 256 /\ 2^16 = 65536
  OBVIOUS
<1>2. c \in 0..3 /\ p.level \in 0..7
  BY PriorityFields
<1>3. e = c * 8192 + p.level
  BY <1>1, <1>2 DEF EncodedIoPriority
<1>4. c = PriorityClass[p.class]
  OBVIOUS
<1>5. e = EncodedIoPriority(p)
  OBVIOUS
<1> HIDE DEF c, e
<1>6. e \in Int /\ e >= 0 /\ e < 65536 /\ e \div 8192 = c /\ e % 256 = p.level
  BY <1>2, <1>3, ClassAndLevel
<1>7. \A q : q \in TryFromPriority(e) <=>
               /\ q \in Priorities /\ PriorityClass[q.class] = c
               /\ q.class \in {"Realtime", "BestEffort"} => q.level = p.level
  BY <1>1, <1>6 DEF TryFromPriority
<1>8. p \in TryFromPriority(e)
  BY <1>7, <1>4
<1>9. ASSUME NEW q \in TryFromPriority(e) PROVE q = p
  <2>1. /\ q \in Priorities /\ PriorityClass[q.class] = c
        /\ q.class \in {"Realtime", "BestEffort"} => q.level = p.level
    BY <1>7
  <2>2. q.class = p.class
    BY <2>1, <1>4, PriorityFields, ClassesDiffer
  <2>3. q.level = p.level
    BY <2>1, <2>2, PriorityFields
  <2> QED BY <2>1, <2>2, <2>3, PriorityFields
<1>10. TryFromPriority(e) = {p}
  BY <1>8, <1>9
<1>11. EncodedIoPriority(p) \in 0..(2^16 - 1)
  BY <1>6, <1>5
<1> QED
  BY <1>10, <1>11, <1>5, Zenon

(* The kernel finds the flags of a poll in its half of the union, whatever *)
(* the other half holds.                                                   *)
LEMMA PollFlagsRead ==
  ASSUME NEW flags \in 0..(U16 - 1), NEW hi \in 0..(U32 \div U16 - 1)
  PROVE  /\ FromPollFlags(flags, hi) \in 0..(U32 - 1)
         /\ FromPollFlags(flags, hi) % U16 = flags
<1> DEFINE q == U32 \div U16
           w == FromPollFlags(flags, hi)
<1>1. U32 = U16 * q /\ q \in Nat
  BY EntryAssumption
<1>2. w = U16 * hi + flags /\ w \in Nat /\ hi \in Nat /\ flags \in Nat
  BY EntryConstants DEF FromPollFlags
<1> HIDE DEF q, w
<1>3. U16 * hi <= U16 * q - U16
  <2>1. hi <= q - 1
    BY DEF q
  <2>2. U16 * hi <= U16 * (q - 1)
    BY <2>1, <1>1, <1>2, EntryConstants
  <2> QED BY <2>2, <1>1, EntryConstants
<1>4. w \in 0..(U32 - 1)
  BY <1>1, <1>2, <1>3, EntryConstants
<1>5. w % U16 = flags
  BY <1>2, EntryConstants
<1> QED
  BY <1>4, <1>5 DEF w

------------------------------------------------------------------------------
(* Entry: the builders *)

(* What the fields of a request can be; NoFile is for operations without. *)
Files == FileDescriptors \cup {NoFile}

FieldsOf(r) ==
  /\ r.op \in Names /\ r.prio \in Priorities /\ r.file \in Files
  /\ r.off \in Nat /\ r.addr \in Nat /\ r.len \in Nat
  /\ r.flags \in 0..(U32 - 1) /\ r.buf \in 0..(U16 - 1)

LEMMA NoPriorityIn == NoPriority \in Priorities
BY DEF Priorities

(* The small sets are within the ranges of the fields. *)
LEMMA Ranges ==
  /\ Halves \subseteq 0..(U16 - 1) /\ Halves \subseteq 0..(U32 - 1) /\ 0 \in 0..(U16 - 1)
  /\ 0 \in 0..(U32 - 1) /\ 1 \in 0..(U32 - 1) /\ Words \subseteq 0..(U32 - 1) /\ Words \subseteq Nat
  /\ Offsets \subseteq Nat /\ UserData \subseteq Nat /\ \A w \in Words : w < U32
  /\ FileDescriptors \subseteq Files /\ NoFile \in Files
BY EntryConstants DEF Files

LEMMA VectorFields ==
  ASSUME NEW r \in VectorRequests
  PROVE  FieldsOf(r) /\ r.op # "PollAdd" /\ r.buf = 0
<1>1. /\ r.op \in {"Readv", "Writev"} /\ r.prio \in Priorities /\ r.file \in FileDescriptors
      /\ r.off \in Offsets /\ r.addr \in Pointers /\ r.len \in Lengths /\ r.flags \in Words
      /\ r.buf = 0
  BY DEF VectorRequests, Request
<1> QED
  BY <1>1, EntryConstants, Ranges DEF FieldsOf, Names

LEMMA FixedFields ==
  ASSUME NEW r \in FixedRequests
  PROVE  FieldsOf(r) /\ r.op # "PollAdd"
<1>1. /\ r.op \in {"ReadFixed", "WriteFixed"} /\ r.prio \in Priorities
      /\ r.file \in FileDescriptors /\ r.off \in Offsets /\ r.addr \in Pointers
      /\ r.len \in Lengths /\ r.flags \in Words /\ r.buf \in Halves
  BY DEF FixedRequests, Request
<1> QED
  BY <1>1, EntryConstants, Ranges DEF FieldsOf, Names

LEMMA FsyncFields ==
  ASSUME NEW r \in FsyncRequests
  PROVE  /\ FieldsOf(r) /\ r.op = "Fsync" /\ r.prio = NoPriority
         /\ r.addr = 0 /\ r.len < U32 /\ r.buf = 0
<1>1. /\ r.op = "Fsync" /\ r.prio = NoPriority /\ r.file \in FileDescriptors
      /\ r.off \in Offsets /\ r.addr = 0 /\ r.len \in Words /\ r.flags \in {0, 1}
      /\ r.buf = 0
  BY DEF FsyncRequests, Request
<1>2. r.prio \in Priorities
  BY <1>1, NoPriorityIn, Zenon
<1>3. r.op \in Names /\ r.file \in Files
  BY <1>1, Ranges DEF Names
<1>4. r.off \in Nat /\ r.addr \in Nat /\ r.len \in Nat
  <2>1. 0 \in Nat
    OBVIOUS
  <2> QED BY <1>1, <2>1, Ranges, Zenon
<1>5. r.flags \in 0..(U32 - 1) /\ r.buf \in 0..(U16 - 1)
  BY <1>1, Ranges
<1>6. FieldsOf(r)
  BY <1>2, <1>3, <1>4, <1>5 DEF FieldsOf
<1> QED
  BY <1>1, <1>6, Ranges

LEMMA PollFields ==
  ASSUME NEW r \in PollRequests
  PROVE  /\ FieldsOf(r) /\ r.op = "PollAdd" /\ r.prio = NoPriority /\ r.off = 0
         /\ r.addr = 0 /\ r.len = 0 /\ r.flags \in 0..(U16 - 1) /\ r.buf = 0
<1>1. /\ r.op = "PollAdd" /\ r.prio = NoPriority /\ r.file \in FileDescriptors
      /\ r.off = 0 /\ r.addr = 0 /\ r.len = 0 /\ r.flags \in Halves
      /\ r.buf = 0
  BY DEF PollRequests, Request
<1>2. r.prio \in Priorities
  BY <1>1, NoPriorityIn, Zenon
<1>3. r.op \in Names /\ r.file \in Files
  BY <1>1, Ranges DEF Names
<1>4. r.off \in Nat /\ r.addr \in Nat /\ r.len \in Nat
  <2>1. 0 \in Nat
    OBVIOUS
  <2> QED BY <1>1, <2>1, Ranges, Zenon
<1>5. r.flags \in 0..(U32 - 1) /\ r.buf \in 0..(U16 - 1)
  BY <1>1, Ranges
<1>6. FieldsOf(r)
  BY <1>2, <1>3, <1>4, <1>5 DEF FieldsOf
<1> QED
  BY <1>1, <1>6, Ranges

LEMMA RemoveFields ==
  ASSUME NEW r \in RemoveRequests
  PROVE  /\ FieldsOf(r) /\ r.op = "PollRemove" /\ r.prio = NoPriority /\ r.file = NoFile
         /\ r.off = 0 /\ r.len = 0 /\ r.flags = 0 /\ r.buf = 0
<1>1. /\ r.op = "PollRemove" /\ r.prio = NoPriority /\ r.file = NoFile
      /\ r.off = 0 /\ r.addr \in UserData /\ r.len = 0 /\ r.flags = 0
      /\ r.buf = 0
  BY DEF RemoveRequests, Request
<1>2. r.prio \in Priorities
  BY <1>1, NoPriorityIn, Zenon
<1>3. r.op \in Names /\ r.file \in Files
  BY <1>1, Ranges DEF Names
<1>4. r.off \in Nat /\ r.addr \in Nat /\ r.len \in Nat
  <2>1. 0 \in Nat
    OBVIOUS
  <2> QED BY <1>1, <2>1, Ranges, Zenon
<1>5. r.flags \in 0..(U32 - 1) /\ r.buf \in 0..(U16 - 1)
  BY <1>1, Ranges
<1>6. FieldsOf(r)
  BY <1>2, <1>3, <1>4, <1>5 DEF FieldsOf
<1> QED
  BY <1>1, <1>6, Ranges

(* What a file is, field by field, and what becomes of it in an entry *)
LEMMA FileFields ==
  ASSUME NEW f \in Files
  PROVE  /\ f.fixed \in BOOLEAN /\ f = [fixed |-> f.fixed, n |-> f.n]
         /\ f.fixed => f.n \in 0..(U32 - 1)
         /\ ~f.fixed => f.n \in (-(U32 \div 2))..(U32 \div 2 - 1)
<1>1. CASE f \in [fixed : {FALSE}, n : Fds]
  BY <1>1, EntryConstants
<1>2. CASE f \in [fixed : {TRUE}, n : Indices]
  BY <1>2, EntryConstants
<1>3. CASE f = NoFile
  <2>1. f.fixed = FALSE /\ f.n = 0 /\ f = [fixed |-> f.fixed, n |-> f.n]
    BY <1>3 DEF NoFile
  <2>2. 0 \in (-(U32 \div 2))..(U32 \div 2 - 1)
    BY EntryConstants
  <2> QED BY <2>1, <2>2, Zenon
<1> QED
  BY <1>1, <1>2, <1>3 DEF Files, FileDescriptors

(* The descriptor or index as the entry has it *)
FdOf(f) == IF f.fixed THEN AsI32(f.n) ELSE f.n

LEMMA FdRead ==
  ASSUME NEW f \in Files
  PROVE  /\ FdOf(f) \in (-(U32 \div 2))..(U32 \div 2 - 1)
         /\ f = [fixed |-> f.fixed, n |-> IF f.fixed THEN AsU32(FdOf(f)) ELSE FdOf(f)]
<1>1. CASE f.fixed
  <2>1. f.n \in 0..(U32 - 1) /\ FdOf(f) = AsI32(f.n)
    BY <1>1, FileFields DEF FdOf
  <2>2. FdOf(f) \in (-(U32 \div 2))..(U32 \div 2 - 1) /\ AsU32(FdOf(f)) = f.n
    BY <2>1, IndexRoundTrip, Zenon
  <2>3. f = [fixed |-> f.fixed, n |-> f.n]
    BY FileFields
  <2> QED BY <1>1, <2>2, <2>3
<1>2. CASE ~f.fixed
  <2>1. FdOf(f) = f.n /\ f = [fixed |-> f.fixed, n |-> f.n]
        /\ f.n \in (-(U32 \div 2))..(U32 \div 2 - 1)
    BY <1>2, FileFields DEF FdOf
  <2> QED BY <1>2, <2>1
<1>3. f.fixed \in BOOLEAN
  BY FileFields
<1> QED
  BY <1>1, <1>2, <1>3

(* The flags as the kernel takes them *)
FlagsRead(o, flags) == IF o = "PollAdd" THEN flags % U16 ELSE flags

(* Entry e is a rendering of request r. *)
Fits(e, r) ==
  /\ e \in SubmissionEntry
  /\ e.opcode = RawOperation(r.op) /\ e.fixed_file = r.file.fixed /\ e.fd = FdOf(r.file)
  /\ e.ioprio = EncodedIoPriority(r.prio)
  /\ e.off = r.off /\ e.addr = r.addr /\ e.buf_index = r.buf /\ e.len = AsU32(r.len)
  /\ FlagsRead(r.op, e.op_flags) = r.flags

(* The fields that all builders set alike *)
LEMMA WithFileFields ==
  ASSUME NEW e \in SubmissionEntry, NEW o \in Names, NEW f \in Files
  PROVE  /\ WithFile(e, o, f) \in SubmissionEntry
         /\ WithFile(e, o, f).opcode = RawOperation(o)
         /\ WithFile(e, o, f).fixed_file = f.fixed
         /\ WithFile(e, o, f).fd = FdOf(f)
         /\ WithFile(e, o, f).user_data = e.user_data
<1>1. /\ RawOperation(o) \in 0..7 /\ f.fixed \in BOOLEAN
      /\ FdOf(f) \in (-(U32 \div 2))..(U32 \div 2 - 1)
  BY Opcodes, FileFields, FdRead
<1>2. WithFile(e, o, f) =
        [e EXCEPT !.opcode = RawOperation(o), !.fixed_file = f.fixed, !.fd = FdOf(f)]
  BY DEF WithFile, FdOf
<1> QED
  BY <1>1, <1>2 DEF SubmissionEntry

(* What every builder comes down to, with the flags as it stores them *)
Written(e, r, flags) ==
  [WithFile(e, r.op, r.file) EXCEPT
     !.ioprio = EncodedIoPriority(r.prio), !.off = r.off, !.addr = r.addr,
     !.len = AsU32(r.len), !.op_flags = flags, !.buf_index = r.buf]

(* An entry that a builder has gone over renders the request, whatever it  *)
(* was before, and keeps its user_data.                                    *)
LEMMA Rendered ==
  ASSUME NEW e0 \in SubmissionEntry, NEW r, FieldsOf(r), NEW flags \in 0..(U32 - 1),
         FlagsRead(r.op, flags) = r.flags
  PROVE  /\ Fits(Written(e0, r, flags), r)
         /\ Written(e0, r, flags).user_data = e0.user_data
<1> DEFINE w == WithFile(e0, r.op, r.file)
           e == Written(e0, r, flags)
<1>1. /\ w \in SubmissionEntry /\ w.opcode = RawOperation(r.op) /\ w.fixed_file = r.file.fixed
      /\ w.fd = FdOf(r.file) /\ w.user_data = e0.user_data
  BY WithFileFields DEF FieldsOf
<1>2. /\ EncodedIoPriority(r.prio) \in 0..(2^16 - 1) /\ AsU32(r.len) \in 0..(U32 - 1)
      /\ r.off \in Nat /\ r.addr \in Nat /\ r.buf \in 0..(U16 - 1)
  BY PriorityRoundTrip, AsU32Value DEF FieldsOf
<1>3. e = [w EXCEPT !.ioprio = EncodedIoPriority(r.prio), !.off = r.off, !.addr = r.addr,
                    !.len = AsU32(r.len), !.op_flags = flags, !.buf_index = r.buf]
  BY DEF Written
<1> HIDE DEF w, e
<1>4. /\ e \in SubmissionEntry
      /\ e.opcode = w.opcode /\ e.fixed_file = w.fixed_file /\ e.fd = w.fd
      /\ e.user_data = w.user_data
      /\ e.ioprio = EncodedIoPriority(r.prio) /\ e.off = r.off /\ e.addr = r.addr
      /\ e.len = AsU32(r.len) /\ e.op_flags = flags /\ e.buf_index = r.buf
  BY <1>1, <1>2, <1>3 DEF SubmissionEntry
<1>5. FlagsRead(r.op, e.op_flags) = r.flags
  BY <1>4, Zenon
<1> QED
  BY <1>1, <1>4, <1>5, Zenon DEF Fits, e

(* Values that the builders write as constants *)
LEMMA Zeros == EncodedIoPriority(NoPriority) = 0 /\ AsU32(0) = 0
BY EntryConstants DEF EncodedIoPriority, NoPriority, PriorityClass, AsU32

LEMMA VectorFits ==
  ASSUME NEW e \in SubmissionEntry, NEW r \in VectorRequests
  PROVE  Fits(iov(e, r), r) /\ iov(e, r).user_data = e.user_data
<1>1. FieldsOf(r) /\ r.op # "PollAdd" /\ r.buf = 0 /\ r.flags \in 0..(U32 - 1)
  BY VectorFields DEF FieldsOf
<1>2. iov(e, r) = Written(e, r, r.flags)
  BY <1>1, Zenon DEF iov, Written
<1>3. FlagsRead(r.op, r.flags) = r.flags
  BY <1>1 DEF FlagsRead
<1> QED
  BY <1>1, <1>2, <1>3, Rendered

LEMMA FixedFits ==
  ASSUME NEW e \in SubmissionEntry, NEW r \in FixedRequests
  PROVE  Fits(io_fixed(e, r), r) /\ io_fixed(e, r).user_data = e.user_data
<1>1. FieldsOf(r) /\ r.op # "PollAdd" /\ r.flags \in 0..(U32 - 1)
  BY FixedFields DEF FieldsOf
<1> DEFINE w == WithFile(e, r.op, r.file)
<1>2. io_fixed(e, r) = Written(e, r, r.flags)
  <2>1. w \in SubmissionEntry
    BY <1>1, WithFileFields DEF FieldsOf
  <2>2. io_fixed(e, r) =
          [[w EXCEPT !.ioprio = EncodedIoPriority(r.prio), !.off = r.off, !.addr = r.addr,
                     !.len = AsU32(r.len), !.op_flags = r.flags, !.buf_index = 0]
             EXCEPT !.buf_index = r.buf]
    BY DEF io_fixed, iov
  <2>3. Written(e, r, r.flags) =
          [w EXCEPT !.ioprio = EncodedIoPriority(r.prio), !.off = r.off, !.addr = r.addr,
                    !.len = AsU32(r.len), !.op_flags = r.flags, !.buf_index = r.buf]
    BY DEF Written
  <2> HIDE DEF w
  <2> QED BY <2>1, <2>2, <2>3 DEF SubmissionEntry
<1>3. FlagsRead(r.op, r.flags) = r.flags
  BY <1>1 DEF FlagsRead
<1> QED
  BY <1>1, <1>2, <1>3, Rendered

LEMMA FsyncFits ==
  ASSUME NEW e \in SubmissionEntry, NEW r \in FsyncRequests
  PROVE  Fits(fsync(e, r), r) /\ fsync(e, r).user_data = e.user_data
<1>1. /\ FieldsOf(r) /\ r.op = "Fsync" /\ r.prio = NoPriority /\ r.addr = 0 /\ r.buf = 0
      /\ r.flags \in 0..(U32 - 1) /\ r.len \in Nat /\ r.len < U32
  BY FsyncFields DEF FieldsOf
<1>2. AsU32(r.len) = r.len /\ EncodedIoPriority(r.prio) = 0
  BY <1>1, AsU32Value, Zeros
<1>3. fsync(e, r) = Written(e, r, r.flags)
  BY <1>1, <1>2, Zenon DEF fsync, Written
<1>4. FlagsRead(r.op, r.flags) = r.flags
  BY <1>1 DEF FlagsRead
<1> QED
  BY <1>1, <1>3, <1>4, Rendered

LEMMA PollFits ==
  ASSUME NEW e \in SubmissionEntry, NEW r \in PollRequests, NEW hi \in 0..(U32 \div U16 - 1)
  PROVE  Fits(poll_add(e, r, hi), r) /\ poll_add(e, r, hi).user_data = e.user_data
<1>1. /\ FieldsOf(r) /\ r.op = "PollAdd" /\ r.prio = NoPriority /\ r.off = 0 /\ r.addr = 0
      /\ r.len = 0 /\ r.buf = 0 /\ r.flags \in 0..(U16 - 1)
  BY PollFields
<1>2. AsU32(r.len) = 0 /\ EncodedIoPriority(r.prio) = 0
  BY <1>1, Zeros
<1> DEFINE flags == FromPollFlags(r.flags, hi)
<1>3. flags \in 0..(U32 - 1) /\ flags % U16 = r.flags
  BY <1>1, PollFlagsRead
<1>4. poll_add(e, r, hi) = Written(e, r, flags)
  BY <1>1, <1>2, Zenon DEF poll_add, Written
<1> HIDE DEF flags
<1>5. FlagsRead(r.op, flags) = r.flags
  BY <1>1, <1>3 DEF FlagsRead
<1> QED
  BY <1>1, <1>3, <1>4, <1>5, Rendered

LEMMA RemoveFits ==
  ASSUME NEW e \in SubmissionEntry, NEW r \in RemoveRequests
  PROVE  Fits(poll_remove(e, r), r) /\ poll_remove(e, r).user_data = e.user_data
<1>1. /\ FieldsOf(r) /\ r.op = "PollRemove" /\ r.prio = NoPriority /\ r.file = NoFile /\ r.off = 0
      /\ r.len = 0 /\ r.flags = 0 /\ r.buf = 0 /\ r.flags \in 0..(U32 - 1)
  BY RemoveFields DEF FieldsOf
<1>2. AsU32(r.len) = 0 /\ EncodedIoPriority(r.prio) = 0
  BY <1>1, Zeros
<1>3. poll_remove(e, r) = Written(e, r, r.flags)
  BY <1>1, <1>2, Zenon DEF poll_remove, Written
<1>4. FlagsRead(r.op, r.flags) = r.flags
  BY <1>1 DEF FlagsRead
<1> QED
  BY <1>1, <1>3, <1>4, Rendered

------------------------------------------------------------------------------
(* Entry: the invariant *)

LEMMA NoRequestFields ==
  /\ FieldsOf(NoRequest) /\ NoRequest.op = "Nop" /\ NoRequest.prio = NoPriority
  /\ NoRequest.file = NoFile /\ NoRequest.off = 0 /\ NoRequest.addr = 0 /\ NoRequest.len = 0
  /\ NoRequest.flags = 0 /\ NoRequest.buf = 0
<1>1. /\ NoRequest.op = "Nop" /\ NoRequest.prio = NoPriority /\ NoRequest.file = NoFile
      /\ NoRequest.off = 0 /\ NoRequest.addr = 0 /\ NoRequest.len = 0
      /\ NoRequest.flags = 0 /\ NoRequest.buf = 0
  BY DEF NoRequest
<1>2. "Nop" \in Names /\ 0 \in Nat
  BY DEF Names
<1> QED
  BY <1>1, <1>2, NoPriorityIn, Ranges, Zenon DEF FieldsOf

LEMMA AskedFields ==
  ASSUME NEW r \in Requests
  PROVE  FieldsOf(r)
BY VectorFields, FixedFields, FsyncFields, PollFields, RemoveFields, NoRequestFields DEF Requests

(* The kernel reads from a rendering what was rendered. *)
Filled == Fits(entry, asked) /\ FieldsOf(asked) /\ entry.user_data = tag

LEMMA FilledHolds == Filled => HoldsRequest
<1> SUFFICES ASSUME Filled PROVE HoldsRequest
  OBVIOUS
<1> USE DEF Filled
<1>1. /\ entry.opcode = RawOperation(asked.op) /\ entry.fixed_file = asked.file.fixed
      /\ entry.fd = FdOf(asked.file) /\ entry.ioprio = EncodedIoPriority(asked.prio)
      /\ entry.off = asked.off /\ entry.addr = asked.addr /\ entry.buf_index = asked.buf
      /\ entry.len = AsU32(asked.len) /\ FlagsRead(asked.op, entry.op_flags) = asked.flags
  BY Zenon DEF Fits
<1>2. asked.op \in Names /\ asked.prio \in Priorities /\ asked.file \in Files /\ asked.len \in Nat
  BY Zenon DEF FieldsOf
<1>3. Decode(entry.opcode) = asked.op
  BY <1>1, <1>2, Opcodes
<1>4. [fixed |-> entry.fixed_file,
       n |-> IF entry.fixed_file THEN AsU32(entry.fd) ELSE entry.fd] = asked.file
  BY <1>1, <1>2, FdRead, Zenon
<1>5. (IF entry.opcode = RawOperation("PollAdd") THEN entry.op_flags % U16
                                                 ELSE entry.op_flags) = asked.flags
  <2>1. entry.opcode = RawOperation("PollAdd") <=> asked.op = "PollAdd"
    BY <1>1, <1>2, Opcodes
  <2> QED BY <1>1, <2>1 DEF FlagsRead
<1>6. ASSUME NEW k \in DOMAIN KernelReads PROVE KernelReads[k] = asked[k]
  BY <1>1, <1>3, <1>4, <1>5 DEF KernelReads
<1>7. TryFromPriority(entry.ioprio) = {asked.prio}
  BY <1>1, <1>2, PriorityRoundTrip
<1>8. entry.len <= asked.len /\ (asked.len < U32 => entry.len = asked.len)
  BY <1>1, <1>2, AsU32Value
<1> QED
  BY <1>6, <1>7, <1>8, Zenon DEF HoldsRequest

LEMMA FilledHoldsNext == Filled' => HoldsRequest'
BY FilledHolds, PTL

LEMMA ZeroedFits == Fits(Zeroed, NoRequest) /\ Zeroed.user_data = 0
<1>1. Zeroed \in SubmissionEntry
  <2>1. /\ 0 \in 0..7 /\ 0 \in 0..(2^16 - 1) /\ 0 \in (-(U32 \div 2))..(U32 \div 2 - 1)
        /\ 0 \in 0..(U32 - 1) /\ 0 \in 0..(U16 - 1) /\ 0 \in Nat
    BY EntryConstants
  <2> QED BY <2>1 DEF Zeroed, SubmissionEntry
<1>2. /\ Zeroed.opcode = 0 /\ Zeroed.fixed_file = FALSE /\ Zeroed.fd = 0 /\ Zeroed.ioprio = 0
      /\ Zeroed.off = 0 /\ Zeroed.addr = 0 /\ Zeroed.buf_index = 0 /\ Zeroed.len = 0
      /\ Zeroed.op_flags = 0 /\ Zeroed.user_data = 0
  BY DEF Zeroed
<1>3. RawOperation("Nop") = 0
  <2>1. RawOperation("Nop") \in 0..7 /\ Decode(RawOperation("Nop")) = "Nop"
    BY Opcodes DEF Names
  <2> QED BY <2>1 DEF Decode, Operation
<1>4. NoFile.fixed = FALSE /\ FdOf(NoFile) = 0
  BY DEF NoFile, FdOf
<1>5. FlagsRead("Nop", 0) = 0
  BY DEF FlagsRead
<1> QED
  BY <1>1, <1>2, <1>3, <1>4, <1>5, Zeros, NoRequestFields DEF Fits

LEMMA EntryInitial == Init => EntryIInv
<1> SUFFICES ASSUME Init PROVE EntryIInv
  OBVIOUS
<1>1. Filled
  BY ZeroedFits, NoRequestFields, Zenon DEF Init, Filled
<1>2. entry \in SubmissionEntry
  BY ZeroedFits, Zenon DEF Init, Fits
<1> QED
  BY <1>1, <1>2, FilledHolds DEF Init, EntryIInv, TypeOK, Requests

(* A builder is called. *)
LEMMA BuildStep ==
  ASSUME EntryIInv, NEW r \in Requests, NEW e, Build(r, e), Fits(e, r),
         e.user_data = entry.user_data
  PROVE  EntryIInv'
<1>1. entry' = e /\ asked' = r /\ tag' = tag /\ phase' = phase
  BY DEF Build
<1>2. entry.user_data = tag /\ FieldsOf(r)
  BY AskedFields DEF EntryIInv, HoldsRequest
<1>3. Filled'
  BY <1>1, <1>2, Zenon DEF Filled
<1>4. e \in SubmissionEntry
  BY Zenon DEF Fits
<1> QED
  BY <1>1, <1>3, <1>4, FilledHoldsNext DEF EntryIInv, TypeOK

(* user_data is none of the fields of a request. *)
LEMMA UserDataStep ==
  ASSUME EntryIInv, NEW u \in UserData, SetUserData(u)
  PROVE  EntryIInv'
<1>1. /\ entry' \in SubmissionEntry /\ entry'.user_data = u
      /\ entry'.opcode = entry.opcode /\ entry'.fixed_file = entry.fixed_file
      /\ entry'.fd = entry.fd /\ entry'.ioprio = entry.ioprio /\ entry'.off = entry.off
      /\ entry'.addr = entry.addr /\ entry'.len = entry.len
      /\ entry'.op_flags = entry.op_flags /\ entry'.buf_index = entry.buf_index
  BY EntryConstants DEF EntryIInv, TypeOK, SetUserData, SubmissionEntry
<1>2. asked' = asked /\ phase' = phase /\ tag' = u
  BY DEF SetUserData
<1>3. KernelReads' = KernelReads
  BY <1>1 DEF KernelReads
<1>4. HoldsRequest'
  BY <1>1, <1>2, <1>3 DEF EntryIInv, HoldsRequest
<1> QED
  BY <1>1, <1>2, <1>4 DEF EntryIInv, TypeOK

LEMMA EntryStep == EntryIInv /\ [Next]_vars => EntryIInv'
<1> SUFFICES ASSUME EntryIInv, [Next]_vars PROVE EntryIInv'
  OBVIOUS
<1>0. entry \in SubmissionEntry
  BY DEF EntryIInv, TypeOK
<1>a. /\ VectorRequests \subseteq Requests /\ FixedRequests \subseteq Requests
      /\ FsyncRequests \subseteq Requests /\ PollRequests \subseteq Requests
      /\ RemoveRequests \subseteq Requests /\ NoRequest \in Requests
  BY DEF Requests
<1>1. CASE BeginFill
  <2>1. Filled'
    BY <1>1, ZeroedFits, NoRequestFields, Zenon DEF BeginFill, Filled
  <2>2. Zeroed \in SubmissionEntry
    BY ZeroedFits, Zenon DEF Fits
  <2> QED BY <1>1, <1>a, <2>1, <2>2, FilledHoldsNext DEF BeginFill, EntryIInv, TypeOK
<1>2. ASSUME NEW r \in VectorRequests, Build(r, iov(entry, r)) PROVE EntryIInv'
  BY <1>0, <1>2, <1>a, VectorFits, BuildStep
<1>3. ASSUME NEW r \in FixedRequests, Build(r, io_fixed(entry, r)) PROVE EntryIInv'
  BY <1>0, <1>3, <1>a, FixedFits, BuildStep
<1>4. ASSUME NEW r \in FsyncRequests, Build(r, fsync(entry, r)) PROVE EntryIInv'
  BY <1>0, <1>4, <1>a, FsyncFits, BuildStep
<1>5. ASSUME NEW r \in PollRequests, NEW hi \in 0..(U32 \div U16 - 1),
             Build(r, poll_add(entry, r, hi))
      PROVE  EntryIInv'
  BY <1>0, <1>5, <1>a, PollFits, BuildStep
<1>6. ASSUME NEW r \in RemoveRequests, Build(r, poll_remove(entry, r)) PROVE EntryIInv'
  BY <1>0, <1>6, <1>a, RemoveFits, BuildStep
<1>7. CASE CallBuilder
  BY <1>2, <1>3, <1>4, <1>5, <1>6, <1>7 DEF CallBuilder
<1>8. ASSUME NEW u \in UserData, SetUserData(u) PROVE EntryIInv'
  BY <1>8, UserDataStep
<1>9. ASSUME phase' \in {"free", "filling", "queued"}, UNCHANGED <<entry, asked, tag>>
      PROVE  EntryIInv'
  BY <1>9 DEF EntryIInv, TypeOK, HoldsRequest, KernelReads
<1>10. ASSUME NEW ok \in BOOLEAN, EndFill(ok) PROVE EntryIInv'
  BY <1>9, <1>10 DEF EndFill
<1>11. CASE KernelTakes
  BY <1>9, <1>11 DEF KernelTakes
<1>12. CASE UNCHANGED vars
  BY <1>9, <1>12 DEF vars, EntryIInv, TypeOK
<1> QED
  BY <1>1, <1>7, <1>8, <1>10, <1>11, <1>12 DEF Next

(* The place of the ring holds the last request in every reachable state,  *)
(* for every width of the integers and every set of arguments in range.    *)
THEOREM EntryInvariant == Spec => []EntryIInv
BY EntryInitial, EntryStep, PTL DEF Spec

(* What the kernel reads is what the last builder was asked for: nothing   *)
(* that an earlier operation left in the place, and nothing that a cast, a *)
(* shift or the half-written union of flags has changed.                   *)
THEOREM EntryKernelReadsRequest == Spec => []KernelReadsRequest
<1>1. EntryIInv => KernelReadsRequest
  BY DEF EntryIInv, KernelReadsRequest
<1> QED
  BY <1>1, EntryInvariant, PTL
==============================================================================
