-------------------------------- MODULE Entry --------------------------------
(***************************************************************************)
(* io-uring-sys/src/submission.rs: how a submission entry is filled, in    *)
(* the place of the ring that submit_with hands to its closure.  Places    *)
(* are used again and again and keep what was in them: what an earlier     *)
(* operation, an earlier builder of the same closure or a closure that     *)
(* failed left behind must not become part of the next operation.  One     *)
(* place is modelled; SubmissionQueue shows that an entry the kernel has   *)
(* not taken yet is not filled again.  External: the kernel, which reads   *)
(* an entry as the operation its opcode and flags say it is.               *)
(***************************************************************************)
EXTENDS Integers

CONSTANTS
  U32,       \* number of u32 values (2^32; a multiple of U16)
  U16,       \* number of u16 values
  Fds,       \* i32 file descriptors of callers
  Indices,   \* u32 indices into a registered list of descriptors
  Offsets,   \* u64 file offsets
  Pointers,  \* u64 addresses of buffers and iovecs
  Lengths,   \* usize lengths: may exceed a u32
  Words,     \* u32 flags, and lengths that are a u32
  Halves,    \* u16 flags of polls and indices of buffers
  Levels,    \* the levels of an I/O priority, of 0..7
  UserData   \* u64 user_data that closures set

ASSUME EntryAssumption ==
  /\ U32 \in Nat \ {0} /\ U16 \in Nat \ {0} /\ U32 % 2 = 0 /\ U32 % U16 = 0
  /\ Fds \subseteq (-(U32 \div 2))..(U32 \div 2 - 1)
  /\ UNION {Indices, Words} \subseteq 0..(U32 - 1)
  /\ Halves \subseteq 0..(U16 - 1)
  /\ Levels \subseteq 0..7
  /\ UNION {Offsets, Pointers, Lengths, UserData} \subseteq Nat

VARIABLES
  entry,   \* the place in the ring
  phase,   \* "free", "filling" (the closure runs) or "queued"
  asked,   \* for the properties: what the last builder was asked for
  tag      \* for the properties: the user_data this closure set, or 0

vars == <<entry, phase, asked, tag>>

AsU32(n) == n % U32
AsI32(n) == IF n % U32 < U32 \div 2 THEN n % U32 ELSE (n % U32) - U32

Operation == <<"Nop", "Readv", "Writev", "Fsync", "ReadFixed", "WriteFixed",
               "PollAdd", "PollRemove">>

(* RawOperation::from and decode: the opcodes count from 0. *)
RawOperation(op) == (CHOOSE i \in 1..8 : Operation[i] = op) - 1
Decode(raw) == Operation[raw + 1]

PriorityClass == [None |-> 0, Realtime |-> 1, BestEffort |-> 2, Idle |-> 3]

NoPriority == [class |-> "None", level |-> 0]

Priorities ==
  [class : {"Realtime", "BestEffort"}, level : Levels]
    \cup {NoPriority, [class |-> "Idle", level |-> 0]}

(* Into<EncodedIoPriority> for IoPriority *)
EncodedIoPriority(p) == PriorityClass[p.class] * 2^13 + p.level

(* IoPriority::try_from, None where it fails: the level is the low byte. *)
TryFromPriority(e) ==
  {p \in Priorities : /\ PriorityClass[p.class] = e \div 2^13
                      /\ p.class \in {"Realtime", "BestEffort"} => p.level = e % 2^8}

(* FileDescriptor::FD and FileDescriptor::Fixed *)
FileDescriptors ==
  [fixed : {FALSE}, n : Fds] \cup [fixed : {TRUE}, n : Indices]

(* The fields of an entry; the flags of all operations share op_flags. *)
SubmissionEntry ==
  [opcode : 0..7, fixed_file : BOOLEAN, ioprio : 0..(2^16 - 1),
   fd : (-(U32 \div 2))..(U32 \div 2 - 1), off : Nat, addr : Nat, len : 0..(U32 - 1),
   op_flags : 0..(U32 - 1), user_data : Nat, buf_index : 0..(U16 - 1)]

(* SubmissionEntry::clear *)
Zeroed ==
  [opcode |-> 0, fixed_file |-> FALSE, ioprio |-> 0, fd |-> 0, off |-> 0, addr |-> 0,
   len |-> 0, op_flags |-> 0, user_data |-> 0, buf_index |-> 0]

------------------------------------------------------------------------------
(* What callers ask for: the arguments of the builders *)

Request(ops, prios, files, offs, addrs, lens, flags, bufs) ==
  [op : ops, prio : prios, file : files, off : offs, addr : addrs, len : lens,
   flags : flags, buf : bufs]

NoFile == [fixed |-> FALSE, n |-> 0]

NoRequest == [op |-> "Nop", prio |-> NoPriority, file |-> NoFile, off |-> 0,
              addr |-> 0, len |-> 0, flags |-> 0, buf |-> 0]

VectorRequests ==
  Request({"Readv", "Writev"}, Priorities, FileDescriptors, Offsets, Pointers, Lengths,
          Words, {0})

FixedRequests ==
  Request({"ReadFixed", "WriteFixed"}, Priorities, FileDescriptors, Offsets, Pointers,
          Lengths, Words, Halves)

FsyncRequests ==
  Request({"Fsync"}, {NoPriority}, FileDescriptors, Offsets, {0}, Words, {0, 1}, {0})

PollRequests ==
  Request({"PollAdd"}, {NoPriority}, FileDescriptors, {0}, {0}, {0}, Halves, {0})

RemoveRequests ==
  Request({"PollRemove"}, {NoPriority}, {NoFile}, {0}, UserData, {0}, {0}, {0})

Requests == UNION {VectorRequests, FixedRequests, FsyncRequests, PollRequests,
                   RemoveRequests, {NoRequest}}

------------------------------------------------------------------------------
(* The builders.  Each sets every field but user_data. *)

(* Faulty variant: flags are not reset first. *)
WithFileKept(e, op, file) ==
  [e EXCEPT !.opcode = RawOperation(op), !.fixed_file = @ \/ file.fixed,
            !.fd = IF file.fixed THEN AsI32(file.n) ELSE file.n]

(* opcode, flags and fd: an index goes through an i32. *)
WithFile(e, op, file) ==
  [e EXCEPT !.opcode = RawOperation(op), !.fixed_file = file.fixed,
            !.fd = IF file.fixed THEN AsI32(file.n) ELSE file.n]

(* readv, writev *)
iov(e, r) ==
  [WithFile(e, r.op, r.file) EXCEPT
     !.ioprio = EncodedIoPriority(r.prio), !.off = r.off, !.addr = r.addr,
     !.len = AsU32(r.len), !.op_flags = r.flags, !.buf_index = 0]

(* read_fixed, write_fixed *)
io_fixed(e, r) == [iov(e, r) EXCEPT !.buf_index = r.buf]

fsync(e, r) ==
  [WithFile(e, "Fsync", r.file) EXCEPT
     !.ioprio = 0, !.off = r.off, !.addr = 0, !.len = r.len, !.op_flags = r.flags,
     !.buf_index = 0]

(* SubmissionEntryOperationFlags::from: the flags of reads, writes and     *)
(* fsync fill the union; those of a poll fill half of it, and the other    *)
(* half is whatever was there, hi.                                         *)
FromPollFlags(flags, hi) == flags + hi * U16

poll_add(e, r, hi) ==
  [WithFile(e, "PollAdd", r.file) EXCEPT
     !.ioprio = 0, !.off = 0, !.addr = 0, !.len = 0, !.op_flags = FromPollFlags(r.flags, hi),
     !.buf_index = 0]

poll_remove(e, r) ==
  [WithFile(e, "PollRemove", NoFile) EXCEPT
     !.ioprio = 0, !.off = 0, !.addr = r.addr, !.len = 0, !.op_flags = 0, !.buf_index = 0]

------------------------------------------------------------------------------
Init ==
  /\ entry = Zeroed
  /\ phase = "free"
  /\ asked = NoRequest
  /\ tag = 0

(* submit_with finds a free place and clears it for the closure. *)
BeginFill ==
  /\ phase = "free"
  /\ entry' = Zeroed
  /\ phase' = "filling"
  /\ asked' = NoRequest
  /\ tag' = 0

(* The closure calls a builder, more than one if it likes. *)
Build(r, e) ==
  /\ phase = "filling"
  /\ entry' = e
  /\ asked' = r
  /\ UNCHANGED <<phase, tag>>

CallBuilder ==
  \/ \E r \in VectorRequests : Build(r, iov(entry, r))
  \/ \E r \in FixedRequests : Build(r, io_fixed(entry, r))
  \/ \E r \in FsyncRequests : Build(r, fsync(entry, r))
  \/ \E r \in PollRequests, hi \in 0..(U32 \div U16 - 1) : Build(r, poll_add(entry, r, hi))
  \/ \E r \in RemoveRequests : Build(r, poll_remove(entry, r))

SetUserData(u) ==
  /\ phase = "filling"
  /\ entry' = [entry EXCEPT !.user_data = u]
  /\ tag' = u
  /\ UNCHANGED <<phase, asked>>

(* The closure returns Ok, and the place is passed to the kernel; or it    *)
(* returns an error, and the place stays free as it is.                    *)
EndFill(ok) ==
  /\ phase = "filling"
  /\ phase' = IF ok THEN "queued" ELSE "free"
  /\ UNCHANGED <<entry, asked, tag>>

(* External: the kernel has read the entry. *)
KernelTakes ==
  /\ phase = "queued"
  /\ phase' = "free"
  /\ UNCHANGED <<entry, asked, tag>>

Next ==
  \/ BeginFill \/ CallBuilder
  \/ \E u \in UserData : SetUserData(u)
  \/ \E ok \in BOOLEAN : EndFill(ok)
  \/ KernelTakes

Spec == Init /\ [][Next]_vars
------------------------------------------------------------------------------
(* External: what the kernel reads.  An index is unsigned, and a poll      *)
(* looks at its half of the flags only.                                    *)
KernelReads ==
  [op |-> Decode(entry.opcode),
   file |-> [fixed |-> entry.fixed_file,
             n |-> IF entry.fixed_file THEN AsU32(entry.fd) ELSE entry.fd],
   off |-> entry.off, addr |-> entry.addr, buf |-> entry.buf_index,
   flags |-> IF entry.opcode = RawOperation("PollAdd") THEN entry.op_flags % U16
                                                       ELSE entry.op_flags]

TypeOK ==
  /\ entry \in SubmissionEntry
  /\ phase \in {"free", "filling", "queued"}
  /\ asked \in Requests
  /\ tag \in UserData \cup {0}

(* The place holds the last builder's request and this closure's tag. *)
HoldsRequest ==
  /\ \A k \in DOMAIN KernelReads : KernelReads[k] = asked[k]
  /\ TryFromPriority(entry.ioprio) = {asked.prio}
  /\ entry.len <= asked.len
  /\ asked.len < U32 => entry.len = asked.len
  /\ entry.user_data = tag

(* Inductive: already while the closure runs, since it may return after    *)
(* any builder.                                                            *)
EntryIInv == TypeOK /\ HoldsRequest

(* The kernel carries out what the last builder was asked for and nothing  *)
(* else, whatever the place or the closure held before: descriptor or      *)
(* index, offset, memory, flags and buffer are the caller's, fields that   *)
(* an operation does not use are zero, and the priority decodes to the one *)
(* that was encoded.  A length that does not fit a u32 makes the operation *)
(* shorter than the caller's memory, never longer.  The completion carries *)
(* the user_data this closure set, or 0, which handle_completion ignores:  *)
(* the address of a registration that an earlier operation left in the     *)
(* place does not come back a second time.                                 *)
KernelReadsRequest == phase = "queued" => HoldsRequest
==============================================================================
