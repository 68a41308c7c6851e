------------------------------- MODULE Lifetime -------------------------------
(***************************************************************************)
(* How a reactor comes and goes: the kernel objects that Reactor::new      *)
(* acquires one after another, each of which may fail, the checks of what  *)
(* the kernel says about its rings, and the drop of the reactor while      *)
(* other threads are inside unpark().  Those threads only have a Weak      *)
(* reference to Shared, which owns the write end of the pipe; for the time *)
(* of a call they turn it into one of their own.                           *)
(*                                                                         *)
(* External: the kernel.  It may report any sizes, any ring_entries and    *)
(* ring_mask, and one of the Layouts: the offsets of the fields in each    *)
(* ring.  The code takes an offset as it is, so what a layout has to       *)
(* fulfil is the assumption LayoutAssumption.  Offsets and sizes are u32   *)
(* and their sums usize: with 64 bits none of them wraps around.           *)
(***************************************************************************)
EXTENDS Unpark

CONSTANTS
  MaxEntries,   \* bound: sizes the kernel reports
  Layouts       \* the offsets the kernel may report

(* The reactor thread, as the owner of a reference to Shared *)
Reactor == "reactor"

ASSUME LifetimeAssumption ==
  MaxEntries \in Nat \ {0} /\ Reactor \notin Threads

Queues == {"sq", "cq"}

(* The fields of fixed size of each ring, a u32 each, and the array *)
Fields(q) ==
  {"head", "tail", "ring_mask", "ring_entries"}
    \cup (IF q = "sq" THEN {"flags", "dropped"} ELSE {"overflow"})

ArrayField(q) == IF q = "sq" THEN "array" ELSE "cqes"

(* SubmissionQueueRingOffsets and CompletionQueueRingOffsets *)
RingOffsets == [sq : [Fields("sq") \cup {"array"} -> Nat], cq : [Fields("cq") \cup {"cqes"} -> Nat]]

(* External: in the kernel's rings the fixed fields precede the array. *)
ASSUME LayoutAssumption ==
  /\ Layouts \subseteq RingOffsets
  /\ \A l \in Layouts, q \in Queues :
       \A f \in Fields(q) : l[q][f] + 4 <= l[q][ArrayField(q)]

VARIABLES
  step,      \* what Reactor::new or the drop of the reactor does next
  open,      \* descriptors and mappings that exist
  entries,   \* SetupParameters: sq_entries and cq_entries, as returned
  offsets,   \* SetupParameters: sq_off and cq_off, as returned
  touched,   \* the ends of what the code accesses in each mapping, as offsets
  owners,    \* strong references to Shared
  number,    \* what the number of the write end names: "write_fd", after it was
             \* closed nothing ("free") or an "other" file
  parked     \* the reactor thread is between Park::enter and its end

buildVars == <<entries, offsets, touched>>
lifeVars == <<step, open, buildVars, owners, number, parked>>
vars == <<lifeVars, parkVars, upc>>

Mappings == {"sq", "sqes", "cq"}

(* Bytes of an element: u32, SubmissionEntry, CompletionEntry *)
SizeOf == [sq |-> 4, sqes |-> 64, cq |-> 16]

QueueOf(m) == IF m = "cq" THEN "cq" ELSE "sq"

(* The lengths that SubmissionQueue::new and CompletionQueue::new map *)
Base(m) == IF m = "sqes" THEN 0 ELSE offsets[m][ArrayField(m)]

Length(m) == Base(m) + SizeOf[m] * entries[QueueOf(m)]

Init ==
  /\ step = "setup"
  /\ open = {}
  /\ entries = [q \in Queues |-> 0]
  /\ offsets = [sq |-> [f \in Fields("sq") \cup {"array"} |-> 0],
                cq |-> [f \in Fields("cq") \cup {"cqes"} |-> 0]]
  /\ touched = [m \in Mappings |-> {}]
  /\ owners = {}
  /\ number = "none"
  /\ parked = FALSE
  /\ UnparkInit

------------------------------------------------------------------------------
(* Reactor::new *)

(* The owners that Reactor::new has on its stack at each step: the File of *)
(* the ring, mmap and mmap_entries, then sq in their place, mmap of the    *)
(* completion queue, then uring in the place of them all, and read_fd and  *)
(* the write_fd in Shared.                                                 *)
Locals ==
  [setup |-> {},
   map_sq |-> {"ring"},
   map_sqes |-> {"ring", "sq"},
   fields_sq |-> {"ring", "sq", "sqes"},
   build_sq |-> {"ring", "sq", "sqes"},
   map_cq |-> {"ring", "sq", "sqes"},
   fields_cq |-> {"ring", "sq", "sqes", "cq"},
   build_cq |-> {"ring", "sq", "sqes", "cq"},
   pipe |-> {"ring", "sq", "sqes", "cq"},
   timer |-> {"ring", "sq", "sqes", "cq", "read_fd", "write_fd"}]

Building == DOMAIN Locals

(* Faulty variant: the ring's descriptor is kept as a bare number. *)
OnStackButRing == Locals[step] \ {"ring"}

OnStack == Locals[step]

(* An early return with an error or a panic drops what is on the stack. *)
Abandon(outcome) ==
  /\ step' = outcome
  /\ open' = open \ OnStack
  /\ owners' = {}
  /\ number' = IF number = "write_fd" THEN "free" ELSE number
  /\ UNCHANGED <<buildVars, parked, parkVars, upc>>

(* A system call at step s acquires the objects R, or fails. *)
Acquire(s, R, next) ==
  /\ step = s
  /\ step' = next
  /\ open' = open \cup R

Fails ==
  /\ step \in {"setup", "map_sq", "map_sqes", "map_cq", "pipe", "timer"}
  /\ Abandon("failed")

(* UringFile::new: io_uring_setup fills in the parameters. *)
Setup(n, k, layout) ==
  /\ Acquire("setup", {"ring"}, "map_sq")
  /\ entries' = [sq |-> n, cq |-> k]
  /\ offsets' = layout
  /\ UNCHANGED <<touched, owners, number, parked, parkVars, upc>>

(* MappedMemory::map *)
Map(m, s, next) ==
  /\ Acquire(s, {m}, next)
  /\ touched' = [touched EXCEPT ![m] = {}]
  /\ UNCHANGED <<entries, offsets, owners, number, parked, parkVars, upc>>

(* get_field of each field; those that are not read now are read later. *)
GetFields(q, s, next) ==
  /\ step = s
  /\ step' = next
  /\ touched' = [touched EXCEPT ![q] = {offsets[q][f] + 4 : f \in Fields(q)}]
  /\ UNCHANGED <<open, entries, offsets, owners, number, parked, parkVars, upc>>

IsPowerOfTwo(n) == \E k \in 0..n : n = 2^k

(* Faulty variant: ring_mask is taken as it is. *)
ChecksNoMask(q, ring_entries, ring_mask) ==
  entries[q] = ring_entries /\ IsPowerOfTwo(ring_entries)

(* The assertions on ring_entries and ring_mask, as the kernel wrote them  *)
(* into the ring                                                           *)
Checks(q, ring_entries, ring_mask) ==
  /\ entries[q] = ring_entries
  /\ IsPowerOfTwo(ring_entries)
  /\ ring_mask = ring_entries - 1

(* Ends of the elements of the array in m that are accessed with indices   *)
(* below n                                                                 *)
Elements(m, n) == {Base(m) + SizeOf[m] * i : i \in 1..n}

(* The rest of SubmissionQueue::new and CompletionQueue::new: later        *)
(* accesses to the elements are at an index & ring_mask, and the index     *)
(* array is written up to ring_entries here.                               *)
BuildQueue(q, s, next, ring_entries, ring_mask) ==
  /\ step = s
  /\ IF Checks(q, ring_entries, ring_mask)
       THEN /\ step' = next
            /\ touched' = IF q = "cq"
                 THEN [touched EXCEPT !["cq"] = @ \cup Elements("cq", ring_mask + 1)]
                 ELSE [touched EXCEPT !["sq"] = @ \cup Elements("sq", ring_entries),
                                      !["sqes"] = Elements("sqes", ring_mask + 1)]
            /\ UNCHANGED <<open, entries, offsets, owners, number, parked, parkVars, upc>>
       ELSE Abandon("panicked")

(* Park::new: both ends of a pipe; the write end goes into Shared. *)
NewPark ==
  /\ Acquire("pipe", {"read_fd", "write_fd"}, "timer")
  /\ owners' = {Reactor}
  /\ number' = "write_fd"
  /\ UNCHANGED <<buildVars, parked, parkVars, upc>>

(* TimerFd::new; Inner::init only fills in a buffer that is not used. *)
NewTimer ==
  /\ Acquire("timer", {"timerfd"}, "built")
  /\ UNCHANGED <<buildVars, owners, number, parked, parkVars, upc>>

Build ==
  \/ \E n, k \in 1..MaxEntries, layout \in Layouts : Setup(n, k, layout)
  \/ Map("sq", "map_sq", "map_sqes") \/ Map("sqes", "map_sqes", "fields_sq")
  \/ Map("cq", "map_cq", "fields_cq")
  \/ GetFields("sq", "fields_sq", "build_sq") \/ GetFields("cq", "fields_cq", "build_cq")
  \/ \E r, m \in 0..MaxEntries : \/ BuildQueue("sq", "build_sq", "map_cq", r, m)
                                 \/ BuildQueue("cq", "build_cq", "pipe", r, m)
  \/ NewPark \/ NewTimer

------------------------------------------------------------------------------
(* The reactor in use: park_inner announces a wait and takes it back. *)
EnterPark ==
  /\ step = "built" /\ ~parked
  /\ EnterStore
  /\ parked' = TRUE
  /\ UNCHANGED <<step, open, buildVars, owners, number>>

ExitPark ==
  /\ parked
  /\ DropEntered
  /\ parked' = FALSE
  /\ UNCHANGED <<step, open, buildVars, owners, number>>

(* handle_completion of the poll of the pipe *)
ClearEvent ==
  /\ step = "built" /\ ~parked
  /\ clear_event
  /\ UNCHANGED lifeVars

(* Faulty variant: the write end is closed with the reactor's reference.   *)
ReleaseSharedFirst(owner) ==
  /\ owners' = owners \ {owner}
  /\ open' = IF owner = Reactor THEN open \ {"write_fd"} ELSE open
  /\ number' = IF owner = Reactor THEN "free" ELSE number

(* Drop of a strong reference to Shared: the last one closes the write end.*)
ReleaseShared(owner) ==
  /\ owners' = owners \ {owner}
  /\ open' = IF owners' = {} THEN open \ {"write_fd"} ELSE open
  /\ number' = IF owners' = {} /\ number = "write_fd" THEN "free" ELSE number

(* Drop of Inner, field by field: uring, shared, read_fd, timerfd *)
DropUring ==
  /\ step = "built" /\ ~parked
  /\ step' = "drop_shared"
  /\ open' = open \ (Mappings \cup {"ring"})
  /\ UNCHANGED <<buildVars, owners, number, parked, parkVars, upc>>

DropShared ==
  /\ step = "drop_shared"
  /\ step' = "drop_read"
  /\ ReleaseShared(Reactor)
  /\ UNCHANGED <<buildVars, parked, parkVars, upc>>

DropFile(s, fd, next) ==
  /\ step = s
  /\ step' = next
  /\ open' = open \ {fd}
  /\ UNCHANGED <<buildVars, owners, number, parked, parkVars, upc>>

Drop ==
  \/ DropUring \/ DropShared
  \/ DropFile("drop_read", "read_fd", "drop_timer")
  \/ DropFile("drop_timer", "timerfd", "dropped")

------------------------------------------------------------------------------
(* Unpark::unpark in another thread, which has an Unpark once there is one *)

(* Faulty variant: the thread goes on without a reference of its own. *)
UpgradedNot(t) == owners

Upgraded(t) == owners \cup {t}

(* Weak::upgrade succeeds as long as there is a strong reference; without  *)
(* one unpark returns at once.                                             *)
Upgrade(t) ==
  /\ step # "timer" /\ owners # {} /\ upc[t] = "idle"
  /\ owners' = Upgraded(t)
  /\ upc' = [upc EXCEPT ![t] = "swap"]
  /\ UNCHANGED <<step, open, buildVars, number, parked, parkVars>>

(* A write to a pipe without a reader fails; its result is not looked at. *)
WriteByte(t) ==
  IF "read_fd" \in open
    THEN UnparkWrite(t)
    ELSE upc[t] = "write" /\ upc' = [upc EXCEPT ![t] = "idle"] /\ UNCHANGED parkVars

(* The reference is dropped when unpark returns. *)
Unparks(t) ==
  /\ UnparkSwap(t) \/ UnparkLoad(t) \/ WriteByte(t)
  /\ IF upc'[t] = "idle" THEN ReleaseShared(t) ELSE UNCHANGED <<owners, open, number>>
  /\ UNCHANGED <<step, buildVars, parked>>

MemoryStep(f) == StoreVisible(f) /\ UNCHANGED lifeVars

(* External: another file is opened and gets the number of the write end. *)
OtherFileOpened ==
  /\ number = "free"
  /\ number' = "other"
  /\ UNCHANGED <<step, open, buildVars, owners, parked, parkVars, upc>>

Next ==
  \/ Build \/ Fails \/ EnterPark \/ ExitPark \/ ClearEvent \/ Drop
  \/ \E t \in Threads : Upgrade(t) \/ Unparks(t)
  \/ \E f \in Flags : MemoryStep(f)
  \/ OtherFileOpened

Spec == Init /\ [][Next]_vars
------------------------------------------------------------------------------
TypeOK ==
  /\ step \in Building \cup {"built", "drop_shared", "drop_read", "drop_timer", "dropped",
                            "failed", "panicked"}
  /\ open \subseteq Mappings \cup {"ring", "read_fd", "write_fd", "timerfd"}
  /\ entries \in [Queues -> 0..MaxEntries] /\ offsets \in RingOffsets
  /\ touched \in [Mappings -> SUBSET Nat]
  /\ owners \subseteq Threads \cup {Reactor}
  /\ number \in {"none", "free", "write_fd", "other"}
  /\ parked \in BOOLEAN
  /\ UnparkTypeOK

(* Nothing that the code reads or writes in the kernel's memory is outside *)
(* of the mapping, whatever sizes the kernel reports there and in the      *)
(* parameters and wherever it puts the fields before the array, now and    *)
(* for any index of later submissions and completions.                     *)
MappingsSuffice == \A m \in open \cap Mappings : \A end \in touched[m] : end <= Length(m)

(* No descriptor and no mapping outlives a reactor that failed to build or *)
(* was dropped, except the write end while a thread is still inside        *)
(* unpark().                                                               *)
NothingLeaks ==
  step \in {"failed", "panicked", "dropped"} =>
    open \subseteq IF \E t \in Threads : upc[t] # "idle" THEN {"write_fd"} ELSE {}

(* A thread inside unpark() writes to the pipe, also when the reactor is   *)
(* dropped meanwhile: the number it passes to write() is not that of a     *)
(* descriptor that was closed and opened again as another file.            *)
UnparkWritesPipe ==
  \A t \in Threads : upc[t] # "idle" => number = "write_fd" /\ "write_fd" \in open

------------------------------------------------------------------------------
(* The inductive invariant *)

(* Who has a reference to Shared: the threads inside unpark(), and the     *)
(* reactor from Park::new until its field shared is dropped.  While        *)
(* Reactor::new runs nobody else has one.                                  *)
OwnerInv ==
  /\ \A t \in Threads : t \in owners <=> upc[t] # "idle"
  /\ Reactor \in owners <=> step \in {"timer", "built", "drop_shared"}
  /\ step \in Building => owners \subseteq {Reactor}

(* The write end is open, under its own number, as long as Shared lives.   *)
SharedInv ==
  /\ number = "write_fd" <=> owners # {}
  /\ "write_fd" \in open <=> owners # {}

(* What exists at each step of Reactor::new is what its locals own, and    *)
(* what may be left of a reactor at each step of its end                   *)
LeftInv ==
  /\ step \in Building => open = OnStack
  /\ step \in {"failed", "panicked"} => open = {}
  /\ step \in {"drop_shared", "drop_read"} => open \subseteq {"write_fd", "read_fd", "timerfd"}
  /\ step = "drop_timer" => open \subseteq {"write_fd", "timerfd"}
  /\ step = "dropped" => open \subseteq {"write_fd"}

(* After io_uring_setup the offsets are those of one of the layouts.       *)
LayoutInv == step \notin {"setup", "failed"} => offsets \in Layouts

(* Where the reactor and the threads are in the life of Shared, what is    *)
(* open then, and how far the code reaches into the mappings               *)
IInv == TypeOK /\ OwnerInv /\ SharedInv /\ LeftInv /\ LayoutInv /\ MappingsSuffice
==============================================================================
