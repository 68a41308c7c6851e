-------------------------- MODULE DescriptorsProofs --------------------------
(***************************************************************************)
(* IInv of Descriptors is inductive, for any number of streams, listeners, *)
(* descriptors and operations: an operation keeps the file it is meant for *)
(* open, and a stream is closed by its last part.                          *)
(***************************************************************************)
EXTENDS Descriptors, FiniteSetTheorems, TLAPS

(* The part p of stream s changes, and nothing else of part. *)
OnlyPart(s, p, to) ==
  /\ part' \in [Streams -> [Parts -> {"none", "task", "context", "failed"}]]
  /\ part'[s][p] = to
  /\ \A r \in Streams, q \in Parts : ~(r = s /\ q = p) => part'[r][q] = part[r][q]

LEMMA OnePart ==
  ASSUME TypeOK, NEW s \in Streams, NEW p \in Parts,
         NEW to \in {"none", "task", "context", "failed"},
         part' = [part EXCEPT ![s][p] = to]
  PROVE  OnlyPart(s, p, to)
<1>1. part' = [part EXCEPT ![s] = [part[s] EXCEPT ![p] = to]]
  OBVIOUS
<1>2. part[s] \in [Parts -> {"none", "task", "context", "failed"}]
  BY DEF TypeOK
<1>3. /\ [part[s] EXCEPT ![p] = to] \in [Parts -> {"none", "task", "context", "failed"}]
      /\ [part[s] EXCEPT ![p] = to][p] = to
      /\ \A q \in Parts \ {p} : [part[s] EXCEPT ![p] = to][q] = part[s][q]
  BY <1>2
<1>4. /\ part' \in [Streams -> [Parts -> {"none", "task", "context", "failed"}]]
      /\ part'[s] = [part[s] EXCEPT ![p] = to]
      /\ \A r \in Streams \ {s} : part'[r] = part[r]
  BY <1>1, <1>3 DEF TypeOK
<1>5. QED
  BY <1>3, <1>4 DEF OnlyPart

(* A part goes from one place to another: the stream stays as it is. *)
LEMMA MoveEffect ==
  ASSUME IInv, NEW s \in Streams, NEW p \in Parts, Exists(s, p),
         NEW to \in {"task", "context", "failed"}, Move(s, p, to)
  PROVE  OnlyPart(s, p, to) /\ PartInv' /\ UNCHANGED <<table, strong>>
<1>1. OnlyPart(s, p, to)
  BY OnePart DEF IInv, Move
<1>2. \A r \in Streams, q \in Parts : Exists(r, q)' <=> Exists(r, q)
  BY <1>1 DEF OnlyPart, Exists
<1>3. UNCHANGED <<table, strong>>
  BY DEF Move
<1>4. PartInv'
  BY <1>2, <1>3 DEF IInv, PartInv, Open, Parts
<1>5. QED
  BY <1>1, <1>3, <1>4

(* A part is dropped: the last one closes the file, another one does not.  *)
LEMMA ReleaseEffect ==
  ASSUME IInv, NEW s \in Streams, NEW p \in Parts, Exists(s, p), Release(s, p)
  PROVE  /\ OnlyPart(s, p, "none") /\ PartInv' /\ NumberInv'
         /\ table' \in [Numbers -> Files \cup {NoFile}]
         /\ strong' \in [Streams -> 0..2]
         /\ \A n \in Numbers : table[n] # s => table'[n] = table[n]
         /\ \A q \in Parts \ {p} : Exists(s, q) => table' = table
<1> USE DescriptorsAssumption
<1>inv. TypeOK /\ NumberInv /\ PartInv
  BY DEF IInv
<1>1. OnlyPart(s, p, "none")
  BY <1>inv, OnePart DEF Release
<1>2. /\ \A r \in Streams, q \in Parts : ~(r = s /\ q = p) => (Exists(r, q)' <=> Exists(r, q))
      /\ ~Exists(s, p)'
  BY <1>1 DEF OnlyPart, Exists
<1>3. /\ strong[s] \in {1, 2}
      /\ strong[s] = 1 <=> \A q \in Parts \ {p} : ~Exists(s, q)
      /\ strong[s] = 2 => p \in {"read", "write"} /\ Exists(s, "read") /\ Exists(s, "write") /\ ~Exists(s, "whole")
  BY <1>inv DEF PartInv, Parts
<1>4. /\ strong' \in [Streams -> 0..2] /\ strong'[s] = strong[s] - 1
      /\ \A r \in Streams \ {s} : strong'[r] = strong[r]
  BY <1>inv, <1>3 DEF TypeOK, Release
<1>5. CASE strong[s] = 1
  <2>1. table' = [n \in Numbers |-> IF table[n] = s THEN NoFile ELSE table[n]]
    BY <1>5 DEF Release, Closed
  <2>2. /\ table' \in [Numbers -> Files \cup {NoFile}]
        /\ \A n \in Numbers : table[n] # s => table'[n] = table[n]
        /\ \A n \in Numbers : table'[n] # s
    BY <1>inv, <2>1 DEF TypeOK, Files
  <2>3. NumberInv'
    BY <1>inv, <2>1 DEF NumberInv
  <2>4. ~Open(s)' /\ \A r \in Streams \ {s} : Open(r)' <=> Open(r)
    BY <2>1, <2>2 DEF Open, Files
  <2>5. \A q \in Parts : ~Exists(s, q)'
    BY <1>2, <1>3, <1>5
  <2>6. PartInv'
    <3>1. ASSUME NEW r \in Streams, r # s
          PROVE  \A q \in Parts : Exists(r, q)' <=> Exists(r, q)
      BY <1>2, <3>1
    <3>2. QED
      BY <1>inv, <1>4, <1>5, <2>4, <2>5, <3>1 DEF PartInv, Parts
  <2>7. QED
    BY <1>1, <1>3, <1>4, <1>5, <2>2, <2>3, <2>6
<1>6. CASE strong[s] = 2
  <2>1. table' = table
    BY <1>6 DEF Release
  <2>2. NumberInv'
    BY <1>inv, <2>1 DEF NumberInv
  <2>3. PartInv'
    <3>1. ASSUME NEW r \in Streams, r # s
          PROVE  \A q \in Parts : Exists(r, q)' <=> Exists(r, q)
      BY <1>2, <3>1
    <3>2. Open(s) /\ \A r \in Streams : Open(r)' <=> Open(r)
      BY <1>inv, <1>6, <2>1 DEF Open, PartInv
    <3>3. /\ ~Exists(s, "whole")' /\ (Exists(s, "read")' <=> p # "read")
          /\ (Exists(s, "write")' <=> p # "write")
      BY <1>2, <1>3, <1>6 DEF Parts
    <3>4. QED
      BY <1>inv, <1>3, <1>4, <1>6, <3>1, <3>2, <3>3 DEF PartInv, Parts
  <2>4. QED
    BY <1>inv, <1>1, <1>4, <2>1, <2>2, <2>3 DEF TypeOK
<1>7. QED
  BY <1>3, <1>5, <1>6

------------------------------------------------------------------------------
(* A part that no operation uses is moved. *)
LEMMA MoveStep ==
  ASSUME IInv, NEW s \in Streams, NEW p \in Parts, part[s][p] \in {"task", "failed"},
         NEW to \in {"task", "failed"}, Move(s, p, to), UNCHANGED <<active, op>>
  PROVE  IInv'
<1> USE DescriptorsAssumption
<1>inv. TypeOK /\ NumberInv /\ PartInv /\ TransferInv /\ PollInv /\ FindsItsFile
  BY DEF IInv
<1>1. OnlyPart(s, p, to) /\ PartInv' /\ UNCHANGED <<table, strong>>
  BY MoveEffect DEF Exists
<1>2. TypeOK' /\ NumberInv' /\ PollInv' /\ FindsItsFile'
  BY <1>inv, <1>1 DEF TypeOK, NumberInv, PollInv, FindsItsFile, OnlyPart
<1>3. TransferInv'
  BY <1>inv, <1>1 DEF TransferInv, IsTransfer, OnlyPart, TypeOK, OpRecord
<1>4. QED
  BY <1>1, <1>2, <1>3 DEF IInv

(* ... or dropped. *)
LEMMA ReleaseStep ==
  ASSUME IInv, NEW s \in Streams, NEW p \in Parts, part[s][p] \in {"task", "failed"},
         Release(s, p), UNCHANGED <<active, op>>
  PROVE  IInv'
<1> USE DescriptorsAssumption
<1>inv. TypeOK /\ NumberInv /\ PartInv /\ TransferInv /\ PollInv /\ FindsItsFile
  BY DEF IInv
<1>1. /\ OnlyPart(s, p, "none") /\ PartInv' /\ NumberInv'
      /\ table' \in [Numbers -> Files \cup {NoFile}]
      /\ strong' \in [Streams -> 0..2]
      /\ \A n \in Numbers : table[n] # s => table'[n] = table[n]
      /\ \A q \in Parts \ {p} : Exists(s, q) => table' = table
  BY ReleaseEffect DEF Exists
<1>2. TypeOK' /\ FindsItsFile'
  BY <1>inv, <1>1 DEF TypeOK, FindsItsFile, OnlyPart
<1>3. PollInv'
  BY <1>inv, <1>1 DEF PollInv, TypeOK, OpRecord
<1>4. TransferInv'
  <2>1. ASSUME NEW o \in Ops, IsTransfer(o)
        PROVE  /\ part'[op[o].file][op[o].part] = "context"
               /\ table'[op[o].fd] = op[o].file
    <3>1. /\ op[o].file \in Streams /\ op[o].part \in Parts /\ op[o].fd \in Numbers
          /\ part[op[o].file][op[o].part] = "context" /\ table[op[o].fd] = op[o].file
      BY <1>inv, <2>1 DEF TransferInv, IsTransfer, TypeOK, OpRecord
    <3>2. ~(op[o].file = s /\ op[o].part = p)
      BY <3>1
    <3>3. QED
      BY <1>1, <3>1, <3>2 DEF OnlyPart, Exists
  <2>2. QED
    BY <1>inv, <2>1 DEF TransferInv, IsTransfer
<1>5. QED
  BY <1>1, <1>2, <1>3, <1>4 DEF IInv

(* A number that is free is given to a file that has none. *)
LEMMA OpenEffect ==
  ASSUME IInv, NEW f \in Files, NEW n \in Numbers, ~Open(f), table[n] = NoFile,
         table' = [table EXCEPT ![n] = f]
  PROVE  /\ table' \in [Numbers -> Files \cup {NoFile}] /\ NumberInv'
         /\ Open(f)' /\ \A g \in Files \ {f} : Open(g)' <=> Open(g)
         /\ \A m \in Numbers : table[m] # NoFile => table'[m] = table[m]
<1> USE DescriptorsAssumption
<1>1. TypeOK /\ NumberInv
  BY DEF IInv
<1>2. /\ table' \in [Numbers -> Files \cup {NoFile}] /\ table'[n] = f
      /\ \A m \in Numbers \ {n} : table'[m] = table[m]
  BY <1>1 DEF TypeOK
<1>3. NumberInv'
  BY <1>1, <1>2 DEF NumberInv, Open
<1>4. Open(f)' /\ \A g \in Files \ {f} : Open(g)' <=> Open(g)
  BY <1>2 DEF Open
<1>5. QED
  BY <1>2, <1>3, <1>4

(* Operations do not notice that a number is given out. *)
LEMMA OpenKeepsOps ==
  ASSUME IInv, UNCHANGED <<active, op>>,
         \A m \in Numbers : table[m] # NoFile => table'[m] = table[m],
         \A s \in Streams, p \in Parts : part[s][p] = "context" => part'[s][p] = "context"
  PROVE  TransferInv' /\ PollInv' /\ FindsItsFile'
<1> USE DescriptorsAssumption
<1>inv. TypeOK /\ NumberInv /\ PartInv /\ TransferInv /\ PollInv /\ FindsItsFile
  BY DEF IInv
<1>1. FindsItsFile'
  BY <1>inv DEF FindsItsFile
<1>2. ASSUME NEW o \in Ops, op[o] # NoOp
      PROVE  /\ op[o].fd \in Numbers /\ op[o].file # NoFile
             /\ op[o].part # "poll" => op[o].part \in Parts
  BY <1>inv, <1>2 DEF TypeOK, OpRecord, Files
<1>3. TransferInv' /\ PollInv'
  BY <1>inv, <1>2 DEF TransferInv, IsTransfer, PollInv
<1>4. QED
  BY <1>1, <1>3

LEMMA NewStreamStep ==
  ASSUME IInv, NEW s \in Streams, NEW n \in Numbers, NewStream(s, n)
  PROVE  IInv'
<1> USE DescriptorsAssumption
<1>inv. TypeOK /\ NumberInv /\ PartInv /\ TransferInv /\ PollInv /\ FindsItsFile
  BY DEF IInv
<1>1. /\ s \in Files /\ ~Open(s) /\ table[n] = NoFile /\ table' = [table EXCEPT ![n] = s]
      /\ part' = [part EXCEPT ![s]["whole"] = "task"]
      /\ strong' = [strong EXCEPT ![s] = 1] /\ UNCHANGED <<active, op>>
  BY DEF NewStream, Files
<1>2. /\ table' \in [Numbers -> Files \cup {NoFile}] /\ NumberInv'
      /\ Open(s)' /\ \A g \in Files \ {s} : Open(g)' <=> Open(g)
      /\ \A m \in Numbers : table[m] # NoFile => table'[m] = table[m]
  BY <1>1, OpenEffect
<1>3. OnlyPart(s, "whole", "task")
  BY <1>inv, <1>1, OnePart DEF Parts
<1>4. \A p \in Parts : ~Exists(s, p)
  BY <1>inv, <1>1 DEF PartInv, TypeOK, Parts
<1>5. /\ strong' \in [Streams -> 0..2] /\ strong'[s] = 1
      /\ \A r \in Streams \ {s} : strong'[r] = strong[r]
  BY <1>inv, <1>1 DEF TypeOK
<1>6. TypeOK'
  BY <1>inv, <1>1, <1>2, <1>3, <1>5 DEF TypeOK, OnlyPart
<1>7. PartInv'
  <2>1. ASSUME NEW r \in Streams, r # s
        PROVE  \A q \in Parts : Exists(r, q)' <=> Exists(r, q)
    BY <1>3, <2>1 DEF OnlyPart, Exists
  <2>2. Exists(s, "whole")' /\ ~Exists(s, "read")' /\ ~Exists(s, "write")'
    BY <1>3, <1>4 DEF OnlyPart, Exists, Parts
  <2>3. \A r \in Streams \ {s} : Open(r)' <=> Open(r)
    BY <1>2 DEF Files
  <2>4. QED
    BY <1>inv, <1>2, <1>5, <2>1, <2>2, <2>3 DEF PartInv, Parts
<1>8. \A r \in Streams, p \in Parts : part[r][p] = "context" => part'[r][p] = "context"
  BY <1>3, <1>4 DEF OnlyPart, Exists
<1>9. QED
  BY <1>1, <1>2, <1>6, <1>7, <1>8, OpenKeepsOps DEF IInv

LEMMA SplitStep ==
  ASSUME IInv, NEW s \in Streams, split(s)
  PROVE  IInv'
<1> USE DescriptorsAssumption
<1>inv. TypeOK /\ NumberInv /\ PartInv /\ TransferInv /\ PollInv /\ FindsItsFile
  BY DEF IInv
<1>1. /\ part[s]["whole"] = "task" /\ UNCHANGED <<table, active, op>>
      /\ part' = [part EXCEPT ![s] = [p \in Parts |-> IF p = "whole" THEN "none" ELSE "task"]]
      /\ strong' = [strong EXCEPT ![s] = strong[s] + 1]
  BY DEF split, SplitCount
<1>2. /\ strong[s] = 1 /\ ~Exists(s, "read") /\ ~Exists(s, "write")
  BY <1>inv, <1>1 DEF PartInv, Exists
<1>3. /\ strong' \in [Streams -> 0..2] /\ strong'[s] = 2
      /\ \A r \in Streams \ {s} : strong'[r] = strong[r]
  BY <1>inv, <1>1, <1>2 DEF TypeOK
<1>4. /\ part' \in [Streams -> [Parts -> {"none", "task", "context", "failed"}]]
      /\ \A r \in Streams \ {s} : part'[r] = part[r]
      /\ part'[s]["whole"] = "none" /\ part'[s]["read"] = "task" /\ part'[s]["write"] = "task"
  BY <1>inv, <1>1 DEF TypeOK, Parts
<1>5. TypeOK'
  BY <1>inv, <1>1, <1>3, <1>4 DEF TypeOK
<1>6. NumberInv'
  BY <1>inv, <1>1 DEF NumberInv
<1>7. PartInv'
  BY <1>inv, <1>1, <1>2, <1>3, <1>4 DEF PartInv, Exists, Open, Parts
<1>8. \A r \in Streams, p \in Parts : part[r][p] = "context" => part'[r][p] = "context"
  BY <1>1, <1>2, <1>4 DEF Exists, Parts
<1>9. TransferInv' /\ PollInv' /\ FindsItsFile'
  BY <1>1, <1>8, OpenKeepsOps
<1>10. QED
  BY <1>5, <1>6, <1>7, <1>9 DEF IInv

(* The number in an entry is that of the file, which is open. *)
LEMMA SubmitEffect ==
  ASSUME IInv, NEW f \in Streams \cup Listeners, NEW o \in Ops, NEW p \in Parts \cup {"poll"},
         Open(f), Submit(o, f, p)
  PROVE  /\ op[o] = NoOp /\ op' \in [Ops -> OpRecord \cup {NoOp}]
         /\ op'[o] # NoOp /\ op'[o].file = f /\ op'[o].part = p /\ op'[o].future /\ op'[o].stage = "sq"
         /\ op'[o].fd \in Numbers /\ table[op'[o].fd] = f
         /\ \A r \in Ops \ {o} : op'[r] = op[r]
<1> USE DescriptorsAssumption
<1> DEFINE n == as_raw_fd(f)
           e == [fd |-> n, file |-> f, part |-> p, future |-> TRUE, stage |-> "sq", found |-> NoFile]
<1>1. n \in Numbers /\ table[n] = f
  BY DEF Open, as_raw_fd
<1>2. op[o] = NoOp /\ op' = [op EXCEPT ![o] = e]
  BY DEF Submit
<1> HIDE DEF n
<1>3. e \in OpRecord /\ e.file = f /\ e.part = p /\ e.future /\ e.stage = "sq" /\ e.fd = n
  BY <1>1 DEF OpRecord
<1> HIDE DEF e
<1>4. op' \in [Ops -> OpRecord \cup {NoOp}] /\ op'[o] = e /\ \A r \in Ops \ {o} : op'[r] = op[r]
  BY <1>2, <1>3 DEF IInv, TypeOK
<1>5. QED
  BY <1>1, <1>2, <1>3, <1>4

LEMMA TransferStep ==
  ASSUME IInv, NEW s \in Streams, NEW p \in Parts, NEW o \in Ops, Transfer(s, p, o)
  PROVE  IInv'
<1> USE DescriptorsAssumption
<1>inv. TypeOK /\ NumberInv /\ PartInv /\ TransferInv /\ PollInv /\ FindsItsFile
  BY DEF IInv
<1>1. part[s][p] = "task" /\ Submit(o, s, p) /\ Move(s, p, "context") /\ UNCHANGED active
  BY DEF Transfer
<1>2. OnlyPart(s, p, "context") /\ PartInv' /\ UNCHANGED <<table, strong>>
  BY <1>1, MoveEffect DEF Exists
<1>3. Open(s)
  BY <1>inv, <1>1 DEF PartInv, Exists, Parts
<1>4. /\ op[o] = NoOp /\ op' \in [Ops -> OpRecord \cup {NoOp}]
      /\ op'[o] # NoOp /\ op'[o].file = s /\ op'[o].part = p /\ op'[o].future /\ op'[o].stage = "sq"
      /\ op'[o].fd \in Numbers /\ table[op'[o].fd] = s
      /\ \A r \in Ops \ {o} : op'[r] = op[r]
  BY <1>1, <1>3, SubmitEffect
<1>5. TypeOK' /\ NumberInv'
  BY <1>inv, <1>1, <1>2, <1>4 DEF TypeOK, NumberInv, OnlyPart
<1>6. p # "poll"
  BY DEF Parts
<1>7. PollInv' /\ FindsItsFile'
  BY <1>inv, <1>2, <1>4, <1>6 DEF PollInv, FindsItsFile
<1>8. TransferInv'
  <2>1. ASSUME NEW r \in Ops, r # o, IsTransfer(r)
        PROVE  /\ op[r].file \in Streams /\ op[r].part \in Parts
               /\ ~(op[r].file = s /\ op[r].part = p)
               /\ part'[op[r].file][op[r].part] = "context"
    BY <1>inv, <1>1, <1>2, <2>1 DEF TransferInv, IsTransfer, TypeOK, OpRecord, OnlyPart
  <2>2. QED
    BY <1>inv, <1>2, <1>4, <1>6, <2>1 DEF TransferInv, IsTransfer, OnlyPart
<1>9. QED
  BY <1>2, <1>5, <1>7, <1>8 DEF IInv

(* Steps of operations that leave files and parts alone: an operation goes *)
(* on, loses its future, or, if it is a poll, ends.                        *)
LEMMA OpsStep ==
  ASSUME IInv, UNCHANGED <<table, part, strong>>, active' \in [Listeners -> BOOLEAN],
         op' \in [Ops -> OpRecord \cup {NoOp}],
         \A o \in Ops : op'[o] # NoOp =>
           /\ op[o] # NoOp /\ op'[o].fd = op[o].fd /\ op'[o].file = op[o].file
           /\ op'[o].part = op[o].part /\ (op'[o].future => op[o].future)
           /\ op'[o].stage = "sq" => op[o].stage = "sq",
         FindsItsFile'
  PROVE  IInv'
<1> USE DescriptorsAssumption
<1>inv. TypeOK /\ NumberInv /\ PartInv /\ TransferInv /\ PollInv /\ FindsItsFile
  BY DEF IInv
<1>1. TypeOK' /\ NumberInv' /\ PartInv'
  BY <1>inv DEF TypeOK, NumberInv, PartInv, Exists, Open
<1>2. \A o \in Ops : IsTransfer(o)' => IsTransfer(o)
  BY DEF IsTransfer
<1>3. TransferInv' /\ PollInv'
  BY <1>inv, <1>2 DEF TransferInv, IsTransfer, PollInv
<1>4. QED
  BY <1>1, <1>3 DEF IInv

(* A transfer ends, and its part goes back to the task or is dropped. *)
LEMMA TransferEnds ==
  ASSUME IInv, NEW o \in Ops, IsTransfer(o), op' = [op EXCEPT ![o] = NoOp], UNCHANGED active,
         Move(op[o].file, op[o].part, "task") \/ Release(op[o].file, op[o].part)
  PROVE  IInv'
<1> USE DescriptorsAssumption
<1>inv. TypeOK /\ NumberInv /\ PartInv /\ TransferInv /\ PollInv /\ FindsItsFile
  BY DEF IInv
<1> DEFINE s == op[o].file
           p == op[o].part
<1>1. s \in Streams /\ p \in Parts /\ part[s][p] = "context" /\ Exists(s, p)
  BY <1>inv DEF TransferInv, IsTransfer, TypeOK, OpRecord, Exists
<1>2. op' \in [Ops -> OpRecord \cup {NoOp}] /\ op'[o] = NoOp /\ \A r \in Ops \ {o} : op'[r] = op[r]
  BY <1>inv DEF TypeOK
<1>3. ASSUME NEW r \in Ops, r # o, IsTransfer(r)
      PROVE  /\ op[r].file \in Streams /\ op[r].part \in Parts /\ op[r].fd \in Numbers
             /\ ~(op[r].file = s /\ op[r].part = p)
             /\ part[op[r].file][op[r].part] = "context"
             /\ table[op[r].fd] = op[r].file
  BY <1>inv, <1>3 DEF TransferInv, IsTransfer, TypeOK, OpRecord
<1>4. FindsItsFile'
  BY <1>inv, <1>2 DEF FindsItsFile
<1> HIDE DEF s, p
<1>5. CASE Move(s, p, "task")
  <2>1. OnlyPart(s, p, "task") /\ PartInv' /\ UNCHANGED <<table, strong>>
    BY <1>1, <1>5, MoveEffect
  <2>2. TypeOK' /\ NumberInv' /\ PollInv'
    BY <1>inv, <1>2, <2>1 DEF TypeOK, NumberInv, PollInv, OnlyPart
  <2>3. TransferInv'
    BY <1>inv, <1>2, <1>3, <2>1 DEF TransferInv, IsTransfer, OnlyPart
  <2>4. QED
    BY <1>4, <2>1, <2>2, <2>3 DEF IInv
<1>6. CASE Release(s, p)
  <2>1. /\ OnlyPart(s, p, "none") /\ PartInv' /\ NumberInv'
        /\ table' \in [Numbers -> Files \cup {NoFile}]
        /\ strong' \in [Streams -> 0..2]
        /\ \A n \in Numbers : table[n] # s => table'[n] = table[n]
        /\ \A q \in Parts \ {p} : Exists(s, q) => table' = table
    BY <1>1, <1>6, ReleaseEffect
  <2>2. TypeOK'
    BY <1>inv, <1>2, <2>1 DEF TypeOK, OnlyPart
  <2>3. PollInv'
    BY <1>inv, <1>1, <1>2, <2>1 DEF PollInv, TypeOK, OpRecord
  <2>4. ASSUME NEW r \in Ops, r # o, IsTransfer(r)
        PROVE  /\ part'[op[r].file][op[r].part] = "context"
               /\ table'[op[r].fd] = op[r].file
    BY <1>3, <2>1, <2>4 DEF OnlyPart, Exists
  <2>5. TransferInv'
    BY <1>inv, <1>2, <1>3, <2>4 DEF TransferInv, IsTransfer
  <2>6. QED
    BY <1>4, <2>1, <2>2, <2>3, <2>5 DEF IInv
<1>7. QED
  BY <1>5, <1>6 DEF s, p

(* One operation goes on or loses its future. *)
LEMMA OpGoesOn ==
  ASSUME IInv, UNCHANGED <<table, part, strong, active>>, NEW o \in Ops, op[o] # NoOp,
         NEW e \in OpRecord, op' = [op EXCEPT ![o] = e],
         e.fd = op[o].fd, e.file = op[o].file, e.part = op[o].part,
         e.future => op[o].future, e.stage # "sq" \/ op[o].stage = "sq",
         e.stage # "sq" /\ (e.future \/ e.part # "poll") => e.found = e.file
  PROVE  IInv'
<1> USE DescriptorsAssumption
<1>inv. TypeOK /\ NumberInv /\ PartInv /\ TransferInv /\ PollInv /\ FindsItsFile
  BY DEF IInv
<1>1. /\ op' \in [Ops -> OpRecord \cup {NoOp}] /\ op'[o] = e
      /\ \A r \in Ops \ {o} : op'[r] = op[r]
  BY <1>inv DEF TypeOK
<1>2. FindsItsFile'
  BY <1>inv, <1>1 DEF FindsItsFile
<1>3. active' \in [Listeners -> BOOLEAN]
  BY <1>inv DEF TypeOK
<1>4. \A r \in Ops : op'[r] # NoOp =>
           /\ op[r] # NoOp /\ op'[r].fd = op[r].fd /\ op'[r].file = op[r].file
           /\ op'[r].part = op[r].part /\ (op'[r].future => op[r].future)
           /\ op'[r].stage = "sq" => op[r].stage = "sq"
  BY <1>1
<1>5. QED
  BY <1>1, <1>2, <1>3, <1>4, OpsStep

LEMMA DropTransferStep ==
  ASSUME IInv, NEW o \in Ops, DropTransfer(o)
  PROVE  IInv'
<1> USE DescriptorsAssumption
<1>inv. TypeOK /\ NumberInv /\ PartInv /\ TransferInv /\ PollInv /\ FindsItsFile
  BY DEF IInv
<1>1. op[o] # NoOp /\ op[o].part # "poll" /\ op[o].future /\ UNCHANGED active /\ op[o] \in OpRecord
  BY <1>inv DEF DropTransfer, TypeOK
<1>2. CASE op[o].stage = "finished"
  BY <1>1, <1>2, TransferEnds DEF DropTransfer, IsTransfer
<1>3. CASE op[o].stage # "finished"
  <2> DEFINE e == [op[o] EXCEPT !.future = FALSE]
  <2>1. op' = [op EXCEPT ![o] = e] /\ UNCHANGED <<table, part, strong>>
    BY <1>3 DEF DropTransfer
  <2>2. /\ e \in OpRecord /\ e.fd = op[o].fd /\ e.file = op[o].file /\ e.part = op[o].part
        /\ ~e.future /\ e.stage = op[o].stage /\ e.found = op[o].found
    BY <1>1 DEF OpRecord
  <2>3. op[o].stage # "sq" => op[o].found = op[o].file
    BY <1>inv, <1>1 DEF FindsItsFile
  <2> HIDE DEF e
  <2>4. QED
    BY <1>1, <2>1, <2>2, <2>3, OpGoesOn
<1>4. QED
  BY <1>2, <1>3

LEMMA HandleCompletionStep ==
  ASSUME IInv, NEW o \in Ops, HandleCompletion(o)
  PROVE  IInv'
<1> USE DescriptorsAssumption
<1>inv. TypeOK /\ NumberInv /\ PartInv /\ TransferInv /\ PollInv /\ FindsItsFile
  BY DEF IInv
<1>1. op[o] # NoOp /\ op[o].stage = "cq" /\ UNCHANGED active /\ op[o] \in OpRecord
  BY <1>inv DEF HandleCompletion, TypeOK
<1>2. CASE op[o].future
  <2> DEFINE e == [op[o] EXCEPT !.stage = "finished"]
  <2>1. op' = [op EXCEPT ![o] = e] /\ UNCHANGED <<table, part, strong>>
    BY <1>2 DEF HandleCompletion
  <2>2. /\ e \in OpRecord /\ e.fd = op[o].fd /\ e.file = op[o].file /\ e.part = op[o].part
        /\ e.future = op[o].future /\ e.stage = "finished" /\ e.found = op[o].found
    BY <1>1 DEF OpRecord
  <2>3. op[o].found = op[o].file
    BY <1>inv, <1>1, <1>2 DEF FindsItsFile
  <2> HIDE DEF e
  <2>4. QED
    BY <1>1, <1>2, <2>1, <2>2, <2>3, OpGoesOn
<1>3. CASE ~op[o].future /\ op[o].part = "poll"
  <2>1. op' = [op EXCEPT ![o] = NoOp] /\ UNCHANGED <<table, part, strong>>
    BY <1>3 DEF HandleCompletion
  <2>2. /\ op' \in [Ops -> OpRecord \cup {NoOp}] /\ op'[o] = NoOp
        /\ \A r \in Ops \ {o} : op'[r] = op[r]
    BY <1>inv, <2>1 DEF TypeOK
  <2>3. FindsItsFile' /\ active' \in [Listeners -> BOOLEAN]
    BY <1>inv, <1>1, <2>2 DEF FindsItsFile, TypeOK
  <2>4. QED
    BY <2>1, <2>2, <2>3, OpsStep
<1>4. CASE ~op[o].future /\ op[o].part # "poll"
  <2>1. op' = [op EXCEPT ![o] = NoOp] /\ Release(op[o].file, op[o].part)
    BY <1>4 DEF HandleCompletion
  <2>2. QED
    BY <1>1, <1>4, <2>1, TransferEnds DEF IsTransfer
<1>5. QED
  BY <1>2, <1>3, <1>4

(* The kernel looks the number up: it is still that of the file. *)
LEMMA KernelTakesStep ==
  ASSUME IInv, NEW o \in Ops, KernelTakes(o)
  PROVE  IInv'
<1> USE DescriptorsAssumption
<1>inv. TypeOK /\ NumberInv /\ PartInv /\ TransferInv /\ PollInv /\ FindsItsFile
  BY DEF IInv
<1>1. op[o] # NoOp /\ op[o].stage = "sq" /\ op[o] \in OpRecord /\ UNCHANGED <<table, part, strong, active>>
  BY <1>inv DEF KernelTakes, TypeOK
<1> DEFINE e == [op[o] EXCEPT !.stage = "kernel", !.found = table[op[o].fd]]
<1>2. op' = [op EXCEPT ![o] = e]
  BY DEF KernelTakes
<1>3. table[op[o].fd] \in Files \cup {NoFile}
  BY <1>inv, <1>1 DEF TypeOK, OpRecord
<1>4. /\ e \in OpRecord /\ e.fd = op[o].fd /\ e.file = op[o].file /\ e.part = op[o].part
      /\ e.future = op[o].future /\ e.stage = "kernel" /\ e.found = table[op[o].fd]
  BY <1>1, <1>3 DEF OpRecord
<1>5. op[o].future \/ op[o].part # "poll" => table[op[o].fd] = op[o].file
  BY <1>inv, <1>1 DEF TransferInv, IsTransfer, PollInv
<1> HIDE DEF e
<1>6. QED
  BY <1>1, <1>2, <1>4, <1>5, OpGoesOn

LEMMA KernelCompletesStep ==
  ASSUME IInv, NEW o \in Ops, KernelCompletes(o)
  PROVE  IInv'
<1> USE DescriptorsAssumption
<1>inv. TypeOK /\ NumberInv /\ PartInv /\ TransferInv /\ PollInv /\ FindsItsFile
  BY DEF IInv
<1>1. op[o] # NoOp /\ op[o].stage = "kernel" /\ op[o] \in OpRecord /\ UNCHANGED <<table, part, strong, active>>
  BY <1>inv DEF KernelCompletes, TypeOK
<1> DEFINE e == [op[o] EXCEPT !.stage = "cq"]
<1>2. op' = [op EXCEPT ![o] = e]
  BY DEF KernelCompletes
<1>3. /\ e \in OpRecord /\ e.fd = op[o].fd /\ e.file = op[o].file /\ e.part = op[o].part
      /\ e.future = op[o].future /\ e.stage = "cq" /\ e.found = op[o].found
  BY <1>1 DEF OpRecord
<1>4. op[o].future \/ op[o].part # "poll" => op[o].found = op[o].file
  BY <1>inv, <1>1 DEF FindsItsFile
<1> HIDE DEF e
<1>5. QED
  BY <1>1, <1>2, <1>3, <1>4, OpGoesOn

------------------------------------------------------------------------------
(* Incoming, and the rest of the process *)

LEMMA OpenFileStep ==
  ASSUME IInv, NEW f \in Files \ Streams, NEW n \in Numbers, ~Open(f), table[n] = NoFile,
         table' = [table EXCEPT ![n] = f], UNCHANGED <<part, strong, active, op>>
  PROVE  IInv'
<1> USE DescriptorsAssumption
<1>inv. TypeOK /\ NumberInv /\ PartInv /\ TransferInv /\ PollInv /\ FindsItsFile
  BY DEF IInv
<1>1. /\ table' \in [Numbers -> Files \cup {NoFile}] /\ NumberInv'
      /\ Open(f)' /\ \A g \in Files \ {f} : Open(g)' <=> Open(g)
      /\ \A m \in Numbers : table[m] # NoFile => table'[m] = table[m]
  BY OpenEffect
<1>2. TypeOK'
  BY <1>inv, <1>1 DEF TypeOK
<1>3. PartInv'
  BY <1>inv, <1>1 DEF PartInv, Exists, Files
<1>4. TransferInv' /\ PollInv' /\ FindsItsFile'
  BY <1>1, OpenKeepsOps
<1>5. QED
  BY <1>1, <1>2, <1>3, <1>4 DEF IInv

LEMMA QueuePollStep ==
  ASSUME IInv, NEW l \in Listeners, NEW o \in Ops, QueuePoll(l, o)
  PROVE  IInv'
<1> USE DescriptorsAssumption
<1>inv. TypeOK /\ NumberInv /\ PartInv /\ TransferInv /\ PollInv /\ FindsItsFile
  BY DEF IInv
<1>1. /\ Open(l) /\ Submit(o, l, "poll") /\ UNCHANGED <<table, part, strong>>
      /\ active' = [active EXCEPT ![l] = TRUE]
  BY DEF QueuePoll
<1>2. /\ op[o] = NoOp /\ op' \in [Ops -> OpRecord \cup {NoOp}]
      /\ op'[o] # NoOp /\ op'[o].file = l /\ op'[o].part = "poll" /\ op'[o].future /\ op'[o].stage = "sq"
      /\ op'[o].fd \in Numbers /\ table[op'[o].fd] = l
      /\ \A r \in Ops \ {o} : op'[r] = op[r]
  BY <1>1, SubmitEffect
<1>3. TypeOK' /\ NumberInv' /\ PartInv'
  BY <1>inv, <1>1, <1>2 DEF TypeOK, NumberInv, PartInv, Exists, Open
<1>4. TransferInv' /\ PollInv' /\ FindsItsFile'
  BY <1>inv, <1>1, <1>2 DEF TransferInv, IsTransfer, PollInv, FindsItsFile
<1>5. QED
  BY <1>3, <1>4 DEF IInv

LEMMA PollReadyStep ==
  ASSUME IInv, NEW o \in Ops, PollReady(o)
  PROVE  IInv'
<1> USE DescriptorsAssumption
<1>inv. TypeOK /\ NumberInv /\ PartInv /\ TransferInv /\ PollInv /\ FindsItsFile
  BY DEF IInv
<1>1. /\ op[o] # NoOp /\ op' = [op EXCEPT ![o] = NoOp] /\ UNCHANGED <<table, part, strong>>
      /\ active' = [active EXCEPT ![op[o].file] = FALSE]
  BY DEF PollReady
<1>2. /\ op' \in [Ops -> OpRecord \cup {NoOp}] /\ op'[o] = NoOp
      /\ \A r \in Ops \ {o} : op'[r] = op[r]
  BY <1>inv, <1>1 DEF TypeOK
<1>3. FindsItsFile' /\ active' \in [Listeners -> BOOLEAN]
  BY <1>inv, <1>1, <1>2 DEF FindsItsFile, TypeOK
<1>4. QED
  BY <1>1, <1>2, <1>3, OpsStep

(* A file that is not a stream is closed. *)
LEMMA ClosedEffect ==
  ASSUME IInv, NEW f \in Files \ Streams, table' = Closed(f), UNCHANGED <<part, strong>>
  PROVE  /\ table' \in [Numbers -> Files \cup {NoFile}] /\ NumberInv' /\ PartInv'
         /\ \A n \in Numbers : table[n] # f => table'[n] = table[n]
<1> USE DescriptorsAssumption
<1>inv. TypeOK /\ NumberInv /\ PartInv /\ TransferInv /\ PollInv /\ FindsItsFile
  BY DEF IInv
<1>1. table' = [n \in Numbers |-> IF table[n] = f THEN NoFile ELSE table[n]]
  BY DEF Closed
<1>2. /\ table' \in [Numbers -> Files \cup {NoFile}]
      /\ \A n \in Numbers : table[n] # f => table'[n] = table[n]
      /\ \A n \in Numbers : table[n] = f => table'[n] = NoFile
  BY <1>inv, <1>1 DEF TypeOK
<1>3. NumberInv'
  BY <1>inv, <1>2 DEF NumberInv
<1>4. \A s \in Streams : Open(s)' <=> Open(s)
  BY <1>2 DEF Open, Files
<1>5. PartInv'
  BY <1>inv, <1>4 DEF PartInv, Exists
<1>6. QED
  BY <1>2, <1>3, <1>5

LEMMA CloseOtherStep ==
  ASSUME IInv, CloseOther
  PROVE  IInv'
<1> USE DescriptorsAssumption
<1>inv. TypeOK /\ NumberInv /\ PartInv /\ TransferInv /\ PollInv /\ FindsItsFile
  BY DEF IInv
<1>1. /\ Other \in Files \ Streams /\ table' = Closed(Other) /\ UNCHANGED <<part, strong, active, op>>
  BY DEF CloseOther, Files
<1>2. /\ table' \in [Numbers -> Files \cup {NoFile}] /\ NumberInv' /\ PartInv'
      /\ \A n \in Numbers : table[n] # Other => table'[n] = table[n]
  BY <1>1, ClosedEffect
<1>3. TypeOK' /\ FindsItsFile'
  BY <1>inv, <1>1, <1>2 DEF TypeOK, FindsItsFile
<1>4. TransferInv' /\ PollInv'
  BY <1>inv, <1>1, <1>2 DEF TransferInv, IsTransfer, PollInv, TypeOK, OpRecord
<1>5. QED
  BY <1>2, <1>3, <1>4 DEF IInv

(* The listener is closed, and its poll loses its future. *)
LEMMA DropIncomingStep ==
  ASSUME IInv, NEW l \in Listeners, DropIncoming(l)
  PROVE  IInv'
<1> USE DescriptorsAssumption
<1>inv. TypeOK /\ NumberInv /\ PartInv /\ TransferInv /\ PollInv /\ FindsItsFile
  BY DEF IInv
<1>1. /\ l \in Files \ Streams /\ table' = Closed(l) /\ UNCHANGED <<part, strong>>
      /\ active' = [active EXCEPT ![l] = FALSE] /\ op' = Orphaned(l)
  BY DEF DropIncoming, Files
<1>2. /\ table' \in [Numbers -> Files \cup {NoFile}] /\ NumberInv' /\ PartInv'
      /\ \A n \in Numbers : table[n] # l => table'[n] = table[n]
  BY <1>1, ClosedEffect
<1>3. ASSUME NEW o \in Ops
      PROVE  /\ op'[o] \in OpRecord \cup {NoOp}
             /\ op'[o] # NoOp =>
                  /\ op[o] # NoOp /\ op'[o].fd = op[o].fd /\ op'[o].file = op[o].file
                  /\ op'[o].part = op[o].part /\ op'[o].stage = op[o].stage /\ op'[o].found = op[o].found
                  /\ op'[o].future => op[o].future /\ op[o].file # l
  <2>1. CASE op[o] = NoOp \/ op[o].file # l \/ ~op[o].future
    <3>1. op'[o] = op[o]
      BY <1>1, <2>1 DEF Orphaned
    <3>2. QED
      BY <1>inv, <2>1, <3>1 DEF TypeOK
  <2>2. CASE op[o] # NoOp /\ op[o].file = l /\ op[o].future
    <3>1. CASE op[o].stage = "finished"
      BY <1>1, <2>2, <3>1 DEF Orphaned
    <3>2. CASE op[o].stage # "finished"
      <4>1. op'[o] = [op[o] EXCEPT !.future = FALSE] /\ op[o] \in OpRecord
        BY <1>inv, <1>1, <2>2, <3>2 DEF Orphaned, TypeOK
      <4>2. QED
        BY <2>2, <4>1 DEF OpRecord
    <3>3. QED
      BY <3>1, <3>2
  <2>3. QED
    BY <2>1, <2>2
<1>4. op' \in [Ops -> OpRecord \cup {NoOp}]
  BY <1>1, <1>3 DEF Orphaned
<1>5. TypeOK'
  BY <1>inv, <1>1, <1>2, <1>4 DEF TypeOK
<1>6. FindsItsFile'
  BY <1>inv, <1>3 DEF FindsItsFile
<1>7. TransferInv'
  <2>1. ASSUME NEW o \in Ops, IsTransfer(o)'
        PROVE  IsTransfer(o) /\ op[o].file \in Streams /\ op[o].fd \in Numbers /\ table'[op[o].fd] = op[o].file
    BY <1>inv, <1>1, <1>2, <1>3, <2>1 DEF TransferInv, IsTransfer, TypeOK, OpRecord
  <2>2. QED
    BY <1>inv, <1>1, <1>3, <2>1 DEF TransferInv, IsTransfer
<1>8. PollInv'
  BY <1>inv, <1>2, <1>3 DEF PollInv, TypeOK, OpRecord
<1>9. QED
  BY <1>2, <1>5, <1>6, <1>7, <1>8 DEF IInv

------------------------------------------------------------------------------
LEMMA InitIInv ==
  ASSUME Init
  PROVE  IInv
<1> USE DescriptorsAssumption
<1>1. TypeOK
  BY DEF Init, TypeOK
<1>2. NumberInv /\ TransferInv /\ PollInv /\ FindsItsFile
  BY DEF Init, NumberInv, TransferInv, IsTransfer, PollInv, FindsItsFile
<1>3. PartInv
  BY DEF Init, PartInv, Exists, Open, Files, Parts
<1>4. QED
  BY <1>1, <1>2, <1>3 DEF IInv

LEMMA NextIInv ==
  ASSUME IInv, [Next]_vars
  PROVE  IInv'
<1>1. ASSUME NEW s \in Streams, StreamStep(s) PROVE IInv'
  <2>1. ASSUME NEW p \in Parts, DropPart(s, p) \/ FailedDropped(s, p) PROVE IInv'
    BY <2>1, ReleaseStep DEF DropPart, FailedDropped
  <2>2. ASSUME NEW p \in Parts, TransferFails(s, p) \/ FailedReturns(s, p) PROVE IInv'
    BY <2>2, MoveStep DEF TransferFails, FailedReturns
  <2>3. QED
    BY <1>1, <2>1, <2>2, NewStreamStep, SplitStep, TransferStep DEF StreamStep
<1>2. ASSUME NEW l \in Listeners, NEW n \in Numbers, incoming(l, n) PROVE IInv'
  BY <1>2, OpenFileStep, DescriptorsAssumption DEF incoming, Files
<1>3. ASSUME NEW n \in Numbers, OpenOther(n) PROVE IInv'
  BY <1>3, OpenFileStep, DescriptorsAssumption DEF OpenOther, Files
<1>4. ASSUME NEW o \in Ops, TransferReady(o) PROVE IInv'
  BY <1>4, TransferEnds DEF TransferReady, IsTransfer
<1>5. ASSUME NEW o \in Ops, OpStep(o) PROVE IInv'
  BY <1>4, <1>5, DropTransferStep, PollReadyStep, HandleCompletionStep, KernelTakesStep,
     KernelCompletesStep DEF OpStep
<1>6. CASE UNCHANGED vars
  BY <1>6 DEF vars, IInv, TypeOK, NumberInv, PartInv, Exists, Open, TransferInv, IsTransfer,
              PollInv, FindsItsFile
<1>7. QED
  BY <1>1, <1>2, <1>3, <1>5, <1>6, QueuePollStep, DropIncomingStep, CloseOtherStep DEF Next

(* The invariant holds, whatever the numbers of streams, listeners, file   *)
(* descriptors and operations.                                             *)
THEOREM DescriptorsIInv == Spec => []IInv
<1>1. Init => IInv
  BY InitIInv
<1>2. IInv /\ [Next]_vars => IInv'
  BY NextIInv
<1>3. QED
  BY <1>1, <1>2, PTL DEF Spec

(* The kernel finds the file that was meant, although it looks late and    *)
(* numbers are used again.                                                 *)
THEOREM DescriptorsFindsItsFile == Spec => []FindsItsFile
<1>1. IInv => FindsItsFile
  BY DEF IInv
<1>2. QED
  BY <1>1, DescriptorsIInv, PTL

(* A stream is closed by the last of its parts. *)
THEOREM DescriptorsClosedByLast == Spec => []ClosedByLast
<1>1. ASSUME IInv, NEW s \in Streams
      PROVE  strong[s] = Cardinality({p \in Parts : part[s][p] # "none"})
  <2> DEFINE S == {p \in Parts : part[s][p] # "none"}
  <2>inv. PartInv
    BY <1>1 DEF IInv
  <2>0. \A p : p \in S <=> p \in Parts /\ Exists(s, p)
    BY DEF Exists
  <2>1. CASE Exists(s, "whole")
    <3>1. S = {"whole"} /\ strong[s] = 1
      BY <2>inv, <2>0, <2>1 DEF PartInv, Parts
    <3>2. QED
      BY <3>1, FS_Singleton
  <2>2. CASE ~Exists(s, "whole") /\ Exists(s, "read") /\ Exists(s, "write")
    <3>1. S = {"read"} \cup {"write"} /\ strong[s] = 2
      BY <2>inv, <2>0, <2>2 DEF PartInv, Parts
    <3>2. IsFiniteSet({"read"}) /\ Cardinality({"read"}) = 1
      BY FS_Singleton
    <3>3. Cardinality({"read"} \cup {"write"}) = 2
      BY <3>2, FS_AddElement
    <3>4. QED
      BY <3>1, <3>3
  <2>3. CASE ~Exists(s, "whole") /\ Exists(s, "read") /\ ~Exists(s, "write")
    <3>1. S = {"read"} /\ strong[s] = 1
      BY <2>inv, <2>0, <2>3 DEF PartInv, Parts
    <3>2. QED
      BY <3>1, FS_Singleton
  <2>4. CASE ~Exists(s, "whole") /\ ~Exists(s, "read") /\ Exists(s, "write")
    <3>1. S = {"write"} /\ strong[s] = 1
      BY <2>inv, <2>0, <2>4 DEF PartInv, Parts
    <3>2. QED
      BY <3>1, FS_Singleton
  <2>5. CASE ~Exists(s, "whole") /\ ~Exists(s, "read") /\ ~Exists(s, "write")
    <3>1. S = {} /\ strong[s] = 0
      BY <2>inv, <2>0, <2>5 DEF PartInv, Parts
    <3>2. QED
      BY <3>1, FS_EmptySet
  <2>6. QED
    BY <2>1, <2>2, <2>3, <2>4, <2>5
<1>2. IInv => ClosedByLast
  BY <1>1 DEF ClosedByLast, IInv, PartInv
<1>3. QED
  BY <1>2, DescriptorsIInv, PTL

(* Only the poll of a dropped Incoming is astray: of the steps that move   *)
(* such an operation on, none changes anything else.                       *)
LEMMA StrayStep ==
  ASSUME IInv, [Next]_vars, NEW o \in Ops, Stray(o), op'[o] # op[o]
  PROVE  UNCHANGED <<table, part, strong, active>>
<1>0. op[o] # NoOp /\ op[o].part = "poll" /\ ~op[o].future
  BY DEF IInv, FindsItsFile, Stray
<1>op. op \in [Ops -> OpRecord \cup {NoOp}]
  BY DEF IInv, TypeOK
<1>1. ASSUME NEW f, NEW p, NEW u \in Ops, Submit(u, f, p) PROVE FALSE
  BY <1>0, <1>op, <1>1 DEF Submit
<1>2. ASSUME NEW s \in Streams, StreamStep(s) PROVE FALSE
  BY <1>1, <1>2
  DEF StreamStep, NewStream, split, DropPart, Transfer, TransferFails, FailedReturns, FailedDropped
<1>3. ASSUME NEW u \in Ops, OpStep(u) PROVE UNCHANGED <<table, part, strong, active>>
  <2>1. CASE TransferReady(u) \/ DropTransfer(u) \/ PollReady(u)
    <3>1. u # o
      BY <1>0, <2>1 DEF TransferReady, DropTransfer, PollReady
    <3>2. op'[o] = op[o]
      BY <1>op, <2>1, <3>1 DEF TransferReady, DropTransfer, PollReady
    <3> QED BY <3>2
  <2>2. CASE HandleCompletion(u)
    <3>1. u = o
      BY <1>op, <2>2 DEF HandleCompletion
    <3> QED BY <1>0, <2>2, <3>1 DEF HandleCompletion
  <2>3. CASE KernelTakes(u) \/ KernelCompletes(u)
    BY <2>3 DEF KernelTakes, KernelCompletes
  <2> QED BY <1>3, <2>1, <2>2, <2>3 DEF OpStep
<1>4. ASSUME NEW l \in Listeners, NEW n \in Numbers, NEW u \in Ops,
             incoming(l, n) \/ QueuePoll(l, u) \/ DropIncoming(l)
      PROVE  FALSE
  <2>1. CASE incoming(l, n) \/ QueuePoll(l, u)
    BY <1>1, <2>1 DEF incoming, QueuePoll
  <2>2. CASE DropIncoming(l)
    BY <1>0, <2>2 DEF DropIncoming, Orphaned
  <2> QED BY <1>4, <2>1, <2>2
<1>5. CASE (\E n \in Numbers : OpenOther(n)) \/ CloseOther \/ UNCHANGED vars
  BY <1>5 DEF OpenOther, CloseOther, vars
<1> QED
  BY <1>2, <1>3, <1>4, <1>5 DEF Next

(* A poll that finds another file under the number its Incoming had        *)
(* (net.rs, TcpListener::incoming) closes nothing and is nobody's event.   *)
THEOREM DescriptorsStrayChangesNothing == Spec => StrayChangesNothing
<1> DEFINE Harmless == \A o \in Ops : Stray(o) /\ op'[o] # op[o] =>
                         UNCHANGED <<table, part, strong, active>>
<1>1. IInv /\ [Next]_vars => [Harmless]_vars
  BY StrayStep
<1> QED
  BY <1>1, DescriptorsIInv, PTL DEF Spec, StrayChangesNothing
==============================================================================
