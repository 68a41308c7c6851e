--------------------------- MODULE LifetimeProofs ---------------------------
(***************************************************************************)
(* IInv of Lifetime is inductive, for any number of threads, whatever      *)
(* sizes the kernel reports and for every set of layouts in which the      *)
(* fixed fields precede the array: the reactor comes and goes without      *)
(* leaving a descriptor behind, no thread writes to a descriptor that is   *)
(* closed, and no access goes beyond a mapping.                            *)
(***************************************************************************)
EXTENDS Lifetime, TLAPS

(* The two flags of Shared and parked stay Booleans. *)
LEMMA NextBooleans ==
  ASSUME TypeOK, [Next]_vars
  PROVE  pending' \in BOOLEAN /\ entered' \in BOOLEAN /\ parked' \in BOOLEAN
<1> DEFINE Good == pending' \in BOOLEAN /\ entered' \in BOOLEAN /\ parked' \in BOOLEAN
<1>0. pending \in BOOLEAN /\ entered \in BOOLEAN /\ parked \in BOOLEAN
  BY DEF TypeOK, UnparkTypeOK
<1> USE DEF lifeVars, parkVars
<1>1. CASE Build
  <2>1. ASSUME NEW n, NEW k, NEW layout, Setup(n, k, layout) PROVE Good
    BY <1>0, <2>1, Zenon DEF Setup
  <2>2. ASSUME NEW m, NEW s, NEW next, Map(m, s, next) PROVE Good
    BY <1>0, <2>2, Zenon DEF Map
  <2>5. ASSUME NEW q, NEW s, NEW next, GetFields(q, s, next) PROVE Good
    BY <1>0, <2>5, Zenon DEF GetFields
  <2>3. ASSUME NEW q, NEW s, NEW next, NEW r, NEW m, BuildQueue(q, s, next, r, m) PROVE Good
    BY <1>0, <2>3, Zenon DEF BuildQueue, Abandon
  <2>4. CASE NewPark \/ NewTimer
    BY <1>0, <2>4, Zenon DEF NewPark, NewTimer
  <2> QED BY <1>1, <2>1, <2>2, <2>3, <2>4, <2>5, Zenon DEF Build
<1>2. CASE Fails
  BY <1>0, <1>2, Zenon DEF Fails, Abandon
<1>3. CASE EnterPark \/ ExitPark \/ ClearEvent
  BY <1>0, <1>3, Zenon
  DEF EnterPark, EnterStore, PendingSeen, ExitPark, DropEntered, ClearEvent, clear_event
<1>4. CASE Drop
  BY <1>0, <1>4, Zenon DEF Drop, DropUring, DropShared, DropFile
<1>5. ASSUME NEW t \in Threads, Upgrade(t) \/ Unparks(t) PROVE Good
  BY <1>0, <1>5, Zenon
  DEF Upgrade, Unparks, UnparkSwap, UnparkLoad, WriteByte, UnparkWrite
<1>6. ASSUME NEW f \in Flags, MemoryStep(f) PROVE Good
  BY <1>0, <1>6, Zenon DEF MemoryStep, StoreVisible
<1>7. CASE OtherFileOpened \/ UNCHANGED vars
  BY <1>0, <1>7, Zenon DEF OtherFileOpened, vars
<1> QED
  BY <1>1, <1>2, <1>3, <1>4, <1>5, <1>6, <1>7, Zenon DEF Next

(* The rest of the state of Shared and of the pipe has its type, too. *)
LEMMA NextUnpark ==
  ASSUME TypeOK, [Next]_vars
  PROVE  UnparkTypeOK' /\ parked' \in BOOLEAN
<1> DEFINE Rest == /\ sbuf' \subseteq Flags /\ pipe' \in 0..PipeSize
                   /\ upc' \in [Threads -> {"idle", "swap", "load", "write"}]
<1> SUFFICES Rest
  BY NextBooleans DEF UnparkTypeOK
<1>0. /\ sbuf \subseteq Flags /\ pipe \in 0..PipeSize
      /\ upc \in [Threads -> {"idle", "swap", "load", "write"}]
  BY DEF TypeOK, UnparkTypeOK
<1>p. PipeSize \in Nat /\ ReadSize \in Nat
  BY UnparkAssumption
<1> USE DEF lifeVars, parkVars
<1>1. CASE Build \/ Fails
  BY <1>0, <1>1
  DEF Build, Setup, Map, GetFields, BuildQueue, Abandon, NewPark, NewTimer, Fails
<1>2. CASE EnterPark \/ ExitPark
  BY <1>0, <1>2 DEF EnterPark, EnterStore, ExitPark, DropEntered
<1>3. CASE ClearEvent
  BY <1>0, <1>p, <1>3 DEF ClearEvent, clear_event
<1>4. CASE Drop
  BY <1>0, <1>4 DEF Drop, DropUring, DropShared, DropFile
<1>5. ASSUME NEW t \in Threads, Upgrade(t) \/ Unparks(t) PROVE Rest
  BY <1>0, <1>p, <1>5
  DEF Upgrade, Unparks, UnparkSwap, UnparkLoad, WriteByte, UnparkWrite, PipeAfterWrite
<1>6. ASSUME NEW f \in Flags, MemoryStep(f) PROVE Rest
  BY <1>0, <1>6 DEF MemoryStep, StoreVisible
<1>7. CASE OtherFileOpened \/ UNCHANGED vars
  BY <1>0, <1>7 DEF OtherFileOpened, vars
<1> QED
  BY <1>1, <1>2, <1>3, <1>4, <1>5, <1>6, <1>7 DEF Next

(* A step that touches nothing new keeps within the mappings. *)
LEMMA TouchedKept ==
  ASSUME MappingsSuffice, UNCHANGED <<entries, offsets, touched>>,
         open' \cap Mappings \subseteq open
  PROVE  MappingsSuffice'
BY DEF MappingsSuffice, Length, Base

(* The steps of Reactor::new *)
LEMMA BuildingSteps ==
  Building = {"setup", "map_sq", "map_sqes", "fields_sq", "build_sq", "map_cq", "fields_cq",
              "build_cq", "pipe", "timer"}
BY DEF Building, Locals

(* What is known of the sizes and offsets once there is a ring *)
LEMMA Parameters ==
  ASSUME IInv, step \notin {"setup", "failed"}
  PROVE  /\ entries["sq"] \in Nat /\ entries["cq"] \in Nat
         /\ \A m \in Mappings : Base(m) \in Nat
         /\ \A q \in Queues : \A f \in Fields(q) :
              offsets[q][f] \in Nat /\ offsets[q][f] + 4 <= Base(q)
<1>1. entries["sq"] \in Nat /\ entries["cq"] \in Nat
  BY LifetimeAssumption DEF IInv, TypeOK, Queues
<1>2. offsets \in Layouts /\ offsets \in RingOffsets
  BY LayoutAssumption DEF IInv, LayoutInv
<1>3. /\ offsets["sq"] \in [Fields("sq") \cup {"array"} -> Nat]
      /\ offsets["cq"] \in [Fields("cq") \cup {"cqes"} -> Nat]
  BY <1>2 DEF RingOffsets
<1>4. Base("sq") \in Nat /\ Base("cq") \in Nat /\ Base("sqes") = 0
  BY <1>3 DEF Base, ArrayField
<1>5. \A q \in Queues : Base(q) = offsets[q][ArrayField(q)]
  BY DEF Base, Queues
<1>6. \A q \in Queues : \A f \in Fields(q) : offsets[q][f] \in Nat
  BY <1>3 DEF Queues
<1> QED
  BY <1>1, <1>2, <1>4, <1>5, <1>6, LayoutAssumption DEF Mappings

(* The elements below the number of entries are within the mapping. *)
LEMMA ElementsFit ==
  ASSUME IInv, step \notin {"setup", "failed"}, NEW m \in Mappings,
         NEW n \in Nat, n <= entries[QueueOf(m)]
  PROVE  /\ Elements(m, n) \subseteq Nat
         /\ \A end \in Elements(m, n) : end <= Length(m)
<1>1. Base(m) \in Nat /\ entries[QueueOf(m)] \in Nat
  BY Parameters DEF QueueOf
<1>2. PICK size \in Nat : SizeOf[m] = size /\ size \in {4, 16, 64}
  BY DEF SizeOf, Mappings
<1>3. ASSUME NEW i \in 1..n
      PROVE  /\ Base(m) + SizeOf[m] * i \in Nat
             /\ Base(m) + SizeOf[m] * i <= Length(m)
  BY <1>1, <1>2 DEF Length
<1> QED
  BY <1>3 DEF Elements

(* Reactor::new gives up: what exists is what its locals own, and nothing  *)
(* was shared with another thread yet.                                     *)
LEMMA AbandonKeeps ==
  ASSUME IInv, UnparkTypeOK', parked' \in BOOLEAN, step \in Building,
         NEW outcome \in {"failed", "panicked"}, Abandon(outcome),
         step = "setup" => outcome = "failed"
  PROVE  IInv'
<1> USE DEF IInv, Abandon, buildVars
<1>0. open = OnStack
  BY DEF LeftInv
<1>1. open' = {} /\ owners' = {} /\ number' # "write_fd" /\ upc' = upc
  BY <1>0
<1>2. step' = outcome /\ step' \notin Building
  BY DEF Building, Locals
<1>3. TypeOK'
  BY <1>1, <1>2 DEF TypeOK
<1>4. OwnerInv'
  BY <1>1, <1>2, LifetimeAssumption DEF OwnerInv, Reactor
<1>5. SharedInv' /\ LeftInv'
  BY <1>1, <1>2 DEF SharedInv, LeftInv
<1>6. LayoutInv'
  BY <1>2, LayoutAssumption DEF LayoutInv, Building, Locals
<1>7. MappingsSuffice'
  BY <1>1 DEF MappingsSuffice
<1> QED
  BY <1>3, <1>4, <1>5, <1>6, <1>7

(* The steps of Reactor::new before Park::new: what they acquire is owned  *)
(* by the locals of the next step and has nothing to do with Shared.       *)
LEMMA EarlyStep ==
  ASSUME IInv, UnparkTypeOK', parked' \in BOOLEAN,
         step \in Building, step # "timer", step' \in Building, step' \notin {"setup", "timer"},
         Locals[step'] = Locals[step] \cup (open' \ open), open \subseteq open',
         "write_fd" \notin open',
         entries' \in [Queues -> 0..MaxEntries], offsets' \in Layouts,
         touched' \in [Mappings -> SUBSET Nat], MappingsSuffice',
         UNCHANGED <<owners, number, upc>>
  PROVE  IInv'
<1> USE DEF IInv
<1>0. open = Locals[step] /\ open' = Locals[step']
  BY DEF LeftInv, OnStack
<1>1. open' \subseteq Mappings \cup {"ring", "read_fd", "write_fd", "timerfd"}
  BY <1>0 DEF Building, Locals, Mappings
<1>2. TypeOK'
  BY <1>1, LayoutAssumption DEF TypeOK
<1>3. step' \notin {"built", "drop_shared", "drop_read", "drop_timer", "dropped", "failed", "panicked"}
      /\ step \notin {"built", "drop_shared"}
  BY DEF Building, Locals
<1>4. OwnerInv' /\ LayoutInv'
  BY <1>3 DEF OwnerInv, LayoutInv
<1>5. owners = {}
  BY <1>3 DEF OwnerInv
<1>6. SharedInv'
  BY <1>5 DEF SharedInv
<1>7. LeftInv'
  BY <1>0, <1>3 DEF LeftInv, OnStack
<1> QED
  BY <1>2, <1>4, <1>6, <1>7

(* A step of Reactor::new *)
LEMMA BuildKeeps ==
  ASSUME IInv, UnparkTypeOK', parked' \in BOOLEAN, Build
  PROVE  IInv'
<1> USE LifetimeAssumption DEF IInv, buildVars, parkVars
<1>t. /\ entries \in [Queues -> 0..MaxEntries] /\ touched \in [Mappings -> SUBSET Nat]
      /\ step \notin {"setup", "failed"} => offsets \in Layouts
  BY DEF TypeOK, LayoutInv
<1>o. step \in Building => open = Locals[step]
  BY DEF LeftInv, OnStack
<1>1. ASSUME NEW n \in 1..MaxEntries, NEW k \in 1..MaxEntries, NEW layout \in Layouts,
             Setup(n, k, layout)
      PROVE  IInv'
  <2>1. step = "setup" /\ step' = "map_sq" /\ open = {} /\ open' = {"ring"}
    BY <1>1, <1>o DEF Setup, Acquire, Building, Locals
  <2>2. MappingsSuffice'
    BY <2>1 DEF MappingsSuffice, Mappings
  <2>3. entries' \in [Queues -> 0..MaxEntries]
    BY <1>1 DEF Setup, Queues
  <2> QED
    BY <1>1, <1>t, <2>1, <2>2, <2>3, EarlyStep DEF Setup, Building, Locals
<1>2. ASSUME NEW m \in Mappings, NEW s, NEW next, Map(m, s, next),
             \/ m = "sq" /\ s = "map_sq" /\ next = "map_sqes"
             \/ m = "sqes" /\ s = "map_sqes" /\ next = "fields_sq"
             \/ m = "cq" /\ s = "map_cq" /\ next = "fields_cq"
      PROVE  IInv'
  <2>1. step = s /\ step' = next /\ open' = open \cup {m} /\ m \notin open
        /\ Locals[next] = Locals[s] \cup {m}
    BY <1>2, <1>o DEF Map, Acquire, Building, Locals
  <2>2. /\ touched'[m] = {} /\ \A k \in Mappings \ {m} : touched'[k] = touched[k]
        /\ touched' \in [Mappings -> SUBSET Nat] /\ UNCHANGED <<entries, offsets>>
    BY <1>2, <1>t DEF Map
  <2>3. MappingsSuffice'
    BY <2>1, <2>2 DEF MappingsSuffice, Length, Base
  <2>4. step \in Building /\ step' \in Building /\ "write_fd" \notin open'
    BY <1>2, <2>1, <1>o DEF Building, Locals
  <2> QED
    BY <1>2, <1>t, <2>1, <2>2, <2>3, <2>4, EarlyStep DEF Map
<1>3. ASSUME NEW q \in Queues, NEW s, NEW next, GetFields(q, s, next),
             \/ q = "sq" /\ s = "fields_sq" /\ next = "build_sq"
             \/ q = "cq" /\ s = "fields_cq" /\ next = "build_cq"
      PROVE  IInv'
  <2>1. step = s /\ step' = next /\ open' = open /\ Locals[next] = Locals[s]
    BY <1>3 DEF GetFields, Locals
  <2>2. step \in Building /\ step' \in Building /\ "write_fd" \notin open'
    BY <1>3, <2>1, <1>o DEF Building, Locals
  <2> DEFINE Ends == {offsets[q][f] + 4 : f \in Fields(q)}
  <2>3. Base(q) \in Nat /\ \A end \in Ends : end \in Nat /\ end <= Base(q)
    BY <1>3, <2>1, Parameters DEF Mappings, Queues
  <2>4. q \in Mappings /\ entries[QueueOf(q)] \in Nat /\ SizeOf[q] \in {4, 16}
    BY <1>3, <2>1, Parameters DEF Mappings, Queues, QueueOf, SizeOf
  <2>5. ASSUME NEW end \in Ends PROVE end <= Length(q)
    <3>1. SizeOf[q] * entries[QueueOf(q)] \in Nat
      BY <2>4
    <3>2. Base(q) \in Nat /\ end \in Nat /\ end <= Base(q)
      BY <2>3
    <3> HIDE DEF Ends
    <3> QED BY <3>1, <3>2 DEF Length
  <2>6. /\ touched'[q] = Ends /\ \A k \in Mappings \ {q} : touched'[k] = touched[k]
        /\ UNCHANGED <<entries, offsets>>
    BY <1>3, <1>t, <2>4 DEF GetFields
  <2>7. touched' \in [Mappings -> SUBSET Nat]
    BY <1>3, <1>t, <2>3, <2>4 DEF GetFields
  <2> HIDE DEF Ends
  <2>8. MappingsSuffice'
    BY <2>1, <2>5, <2>6 DEF MappingsSuffice, Length, Base
  <2> QED
    BY <1>3, <1>t, <2>1, <2>2, <2>6, <2>7, <2>8, EarlyStep DEF GetFields
<1>4. ASSUME NEW q \in Queues, NEW s, NEW next,
             NEW r \in 0..MaxEntries, NEW m \in 0..MaxEntries, BuildQueue(q, s, next, r, m),
             \/ q = "sq" /\ s = "build_sq" /\ next = "map_cq"
             \/ q = "cq" /\ s = "build_cq" /\ next = "pipe"
      PROVE  IInv'
  <2>1. step = s /\ step \in Building /\ step # "setup"
    BY <1>4, BuildingSteps DEF BuildQueue
  <2>2. CASE Abandon("panicked")
    BY <2>1, <2>2, AbandonKeeps
  <2>3. CASE ~Abandon("panicked")
    <3>1. /\ entries[q] = r /\ m + 1 = r /\ r \in Nat
          /\ step' = next
          /\ touched' = IF q = "cq"
               THEN [touched EXCEPT !["cq"] = @ \cup Elements("cq", m + 1)]
               ELSE [touched EXCEPT !["sq"] = @ \cup Elements("sq", r),
                                    !["sqes"] = Elements("sqes", m + 1)]
          /\ UNCHANGED <<open, entries, offsets, owners, number, parked, parkVars, upc>>
      BY <1>4, <2>3 DEF BuildQueue, Checks
    <3>2. ASSUME NEW k \in Mappings, QueueOf(k) = q
          PROVE  /\ Elements(k, r) \subseteq Nat
                 /\ \A end \in Elements(k, r) : end <= Length(k)
      BY <1>4, <2>1, <3>1, <3>2, ElementsFit
    <3>3. /\ \A k \in Mappings : touched'[k] \subseteq
               touched[k] \cup (IF QueueOf(k) = q THEN Elements(k, r) ELSE {})
          /\ touched' \in [Mappings -> SUBSET Nat]
      <4>1. CASE q = "cq"
        <5>1. touched' = [touched EXCEPT !["cq"] = @ \cup Elements("cq", r)]
          BY <3>1, <4>1
        <5>2. Elements("cq", r) \subseteq Nat
          BY <3>2, <4>1 DEF Mappings, QueueOf
        <5> QED BY <1>t, <4>1, <5>1, <5>2 DEF Mappings, QueueOf
      <4>2. CASE q = "sq"
        <5>1. touched' = [touched EXCEPT !["sq"] = @ \cup Elements("sq", r),
                                         !["sqes"] = Elements("sqes", r)]
          BY <3>1, <4>2
        <5>2. Elements("sq", r) \subseteq Nat /\ Elements("sqes", r) \subseteq Nat
          BY <3>2, <4>2 DEF Mappings, QueueOf
        <5> QED BY <1>t, <4>2, <5>1, <5>2 DEF Mappings, QueueOf
      <4> QED BY <4>1, <4>2 DEF Queues
    <3>4. MappingsSuffice'
      BY <3>1, <3>2, <3>3 DEF MappingsSuffice, Length, Base
    <3>5. Locals[next] = Locals[s] /\ next \in Building /\ "write_fd" \notin Locals[s]
      BY <1>4 DEF Building, Locals
    <3>6. step' \in Building /\ "write_fd" \notin open' /\ open' = open
      BY <1>o, <2>1, <3>1, <3>5
    <3> QED
      BY <1>4, <1>t, <2>1, <3>1, <3>3, <3>4, <3>5, <3>6, EarlyStep
  <2> QED BY <2>2, <2>3
<1>5. CASE NewPark
  <2>1. /\ step = "pipe" /\ step' = "timer" /\ open' = open \cup {"read_fd", "write_fd"}
        /\ owners' = {Reactor} /\ number' = "write_fd" /\ UNCHANGED <<buildVars, upc>>
    BY <1>5 DEF NewPark, Acquire
  <2>2. TypeOK'
    BY <2>1, BuildingSteps DEF TypeOK
  <2>3. owners = {}
    BY <2>1, BuildingSteps DEF OwnerInv
  <2>4. OwnerInv' /\ SharedInv'
    BY <2>1, <2>3 DEF OwnerInv, SharedInv, Reactor
  <2>5. LeftInv' /\ LayoutInv'
    BY <2>1, <1>o DEF LeftInv, LayoutInv, OnStack, Building, Locals
  <2>6. MappingsSuffice'
    BY <2>1, TouchedKept DEF Mappings
  <2> QED BY <2>2, <2>4, <2>5, <2>6
<1>6. CASE NewTimer
  <2>1. /\ step = "timer" /\ step' = "built" /\ open' = open \cup {"timerfd"}
        /\ UNCHANGED <<buildVars, owners, number, upc>>
    BY <1>6 DEF NewTimer, Acquire
  <2>2. TypeOK'
    BY <2>1, BuildingSteps DEF TypeOK
  <2>3. OwnerInv' /\ SharedInv'
    BY <2>1, BuildingSteps DEF OwnerInv, SharedInv
  <2>4. LeftInv' /\ LayoutInv'
    BY <2>1, BuildingSteps DEF LeftInv, LayoutInv
  <2>5. MappingsSuffice'
    BY <2>1, TouchedKept DEF Mappings
  <2> QED BY <2>2, <2>3, <2>4, <2>5
<1> QED
  BY <1>1, <1>2, <1>3, <1>4, <1>5, <1>6 DEF Build, Mappings, Queues

(* A strong reference is dropped; the last one takes the write end along.  *)
LEMMA ReleaseKeeps ==
  ASSUME IInv, UnparkTypeOK', parked' \in BOOLEAN, NEW o \in owners, ReleaseShared(o),
         UNCHANGED buildVars, OwnerInv',
         step' = step \/ (step = "drop_shared" /\ step' = "drop_read")
  PROVE  IInv'
<1> USE DEF IInv, ReleaseShared, buildVars
<1>0. step \notin Building
  BY BuildingSteps DEF OwnerInv
<1>1. TypeOK'
  BY DEF TypeOK
<1>2. SharedInv'
  BY DEF SharedInv
<1>3. LeftInv' /\ LayoutInv'
  BY <1>0, BuildingSteps DEF LeftInv, LayoutInv
<1>4. MappingsSuffice'
  BY TouchedKept
<1> QED
  BY <1>1, <1>2, <1>3, <1>4

(* The drop of the reactor, field by field *)
LEMMA DropKeeps ==
  ASSUME IInv, UnparkTypeOK', parked' \in BOOLEAN, Drop
  PROVE  IInv'
<1> USE LifetimeAssumption DEF IInv, buildVars, parkVars
<1>1. CASE DropUring
  <2>1. TypeOK'
    BY <1>1 DEF DropUring, TypeOK
  <2>2. OwnerInv' /\ SharedInv' /\ LeftInv' /\ LayoutInv'
    BY <1>1, BuildingSteps DEF DropUring, OwnerInv, SharedInv, LeftInv, LayoutInv, Mappings, TypeOK
  <2>3. MappingsSuffice'
    BY <1>1, TouchedKept DEF DropUring
  <2> QED BY <2>1, <2>2, <2>3
<1>2. CASE DropShared
  <2>1. Reactor \in owners
    BY <1>2 DEF DropShared, OwnerInv
  <2>2. OwnerInv'
    BY <1>2, BuildingSteps DEF DropShared, ReleaseShared, OwnerInv
  <2> QED BY <1>2, <2>1, <2>2, ReleaseKeeps DEF DropShared
<1>3. ASSUME NEW s, NEW fd \in {"read_fd", "timerfd"}, NEW next, DropFile(s, fd, next),
             \/ s = "drop_read" /\ fd = "read_fd" /\ next = "drop_timer"
             \/ s = "drop_timer" /\ fd = "timerfd" /\ next = "dropped"
      PROVE  IInv'
  <2>1. TypeOK'
    BY <1>3 DEF DropFile, TypeOK
  <2>2. OwnerInv' /\ SharedInv' /\ LeftInv' /\ LayoutInv'
    BY <1>3, BuildingSteps DEF DropFile, OwnerInv, SharedInv, LeftInv, LayoutInv
  <2>3. MappingsSuffice'
    BY <1>3, TouchedKept DEF DropFile
  <2> QED BY <2>1, <2>2, <2>3
<1> QED
  BY <1>1, <1>2, <1>3 DEF Drop

(* A thread enters unpark() with a reference of its own or takes a step    *)
(* inside of it.                                                           *)
LEMMA ThreadKeeps ==
  ASSUME IInv, UnparkTypeOK', parked' \in BOOLEAN, NEW t \in Threads, Upgrade(t) \/ Unparks(t)
  PROVE  IInv'
<1> USE LifetimeAssumption DEF IInv, buildVars, parkVars
<1>1. CASE Upgrade(t)
  <2>1. TypeOK'
    BY <1>1 DEF Upgrade, Upgraded, TypeOK
  <2>2. \A u \in Threads : u \in owners' <=> upc'[u] # "idle"
    BY <1>1 DEF Upgrade, Upgraded, OwnerInv, TypeOK, UnparkTypeOK
  <2>3. step \notin Building
    BY <1>1, BuildingSteps DEF Upgrade, OwnerInv
  <2>4. OwnerInv' /\ SharedInv' /\ LeftInv' /\ LayoutInv'
    BY <1>1, <2>2, <2>3 DEF Upgrade, Upgraded, OwnerInv, SharedInv, LeftInv, LayoutInv
  <2>5. MappingsSuffice'
    BY <1>1, TouchedKept DEF Upgrade
  <2> QED BY <2>1, <2>4, <2>5
<1>2. CASE Unparks(t)
  <2>1. upc[t] # "idle" /\ \A u \in Threads \ {t} : upc'[u] = upc[u]
    BY <1>2
    DEF Unparks, UnparkSwap, UnparkLoad, WriteByte, UnparkWrite, TypeOK, UnparkTypeOK
  <2>2. t \in owners
    BY <2>1 DEF OwnerInv
  <2>3. UNCHANGED <<step, buildVars, parked>>
    BY <1>2 DEF Unparks
  <2>4. CASE upc'[t] = "idle"
    <3>1. ReleaseShared(t)
      BY <1>2, <2>4 DEF Unparks
    <3>2. OwnerInv'
      BY <2>1, <2>3, <2>4, <3>1 DEF OwnerInv, ReleaseShared
    <3> QED BY <2>2, <2>3, <3>1, <3>2, ReleaseKeeps
  <2>5. CASE upc'[t] # "idle"
    <3>1. UNCHANGED <<owners, open, number>>
      BY <1>2, <2>5 DEF Unparks
    <3>2. TypeOK'
      BY <2>3, <3>1 DEF TypeOK
    <3>3. OwnerInv' /\ SharedInv' /\ LeftInv' /\ LayoutInv'
      BY <2>1, <2>2, <2>3, <2>5, <3>1 DEF OwnerInv, SharedInv, LeftInv, LayoutInv
    <3>4. MappingsSuffice'
      BY <2>3, <3>1, TouchedKept
    <3> QED BY <3>2, <3>3, <3>4
  <2> QED BY <2>4, <2>5
<1> QED
  BY <1>1, <1>2

(* Steps that leave the reactor and Shared as they are *)
LEMMA OtherKeeps ==
  ASSUME IInv, UnparkTypeOK', parked' \in BOOLEAN,
         UNCHANGED <<step, open, buildVars, owners, upc>>,
         number' = number \/ (number = "free" /\ number' = "other")
  PROVE  IInv'
<1> USE DEF IInv, buildVars
<1>1. TypeOK'
  BY DEF TypeOK
<1>2. OwnerInv' /\ LeftInv' /\ LayoutInv'
  BY DEF OwnerInv, LeftInv, LayoutInv, OnStack
<1>3. SharedInv'
  BY DEF SharedInv
<1>4. MappingsSuffice'
  BY TouchedKept
<1> QED
  BY <1>1, <1>2, <1>3, <1>4

(***************************************************************************)
(* The inductive invariant.                                                *)
(***************************************************************************)
LEMMA LifetimeInit == Init => IInv
<1> SUFFICES ASSUME Init PROVE IInv
  OBVIOUS
<1> USE LifetimeAssumption, UnparkAssumption DEF Init, UnparkInit
<1>1. pending \in BOOLEAN /\ entered \in BOOLEAN /\ parked \in BOOLEAN
  BY Zenon
<1>2. UnparkTypeOK
  BY <1>1 DEF UnparkTypeOK
<1>0. step = "setup" /\ step \in Building /\ OnStack = {}
  BY DEF Building, OnStack, Locals
<1>3. TypeOK
  <2>1. offsets \in RingOffsets
    BY DEF RingOffsets
  <2>2. entries \in [Queues -> 0..MaxEntries] /\ touched \in [Mappings -> SUBSET Nat]
    BY DEF Queues
  <2> QED BY <1>0, <1>1, <1>2, <2>1, <2>2 DEF TypeOK
<1>4. OwnerInv /\ SharedInv /\ LeftInv /\ LayoutInv /\ MappingsSuffice
  BY <1>0 DEF OwnerInv, SharedInv, LeftInv, LayoutInv, MappingsSuffice
<1> QED
  BY <1>3, <1>4 DEF IInv

LEMMA LifetimeNext == IInv /\ [Next]_vars => IInv'
<1> SUFFICES ASSUME IInv, [Next]_vars PROVE IInv'
  OBVIOUS
<1>0. UnparkTypeOK' /\ parked' \in BOOLEAN
  BY NextUnpark DEF IInv
<1>1. CASE Build
  BY <1>0, <1>1, BuildKeeps
<1>2. CASE Fails
  BY <1>0, <1>2, AbandonKeeps, BuildingSteps DEF Fails
<1>3. CASE EnterPark \/ ExitPark \/ ClearEvent
  BY <1>0, <1>3, OtherKeeps
  DEF EnterPark, EnterStore, ExitPark, DropEntered, ClearEvent, clear_event, lifeVars
<1>4. CASE Drop
  BY <1>0, <1>4, DropKeeps
<1>5. ASSUME NEW t \in Threads, Upgrade(t) \/ Unparks(t) PROVE IInv'
  BY <1>0, <1>5, ThreadKeeps
<1>6. ASSUME NEW f \in Flags, MemoryStep(f) PROVE IInv'
  BY <1>0, <1>6, OtherKeeps DEF MemoryStep, StoreVisible, lifeVars
<1>7. CASE OtherFileOpened \/ UNCHANGED vars
  BY <1>0, <1>7, OtherKeeps DEF OtherFileOpened, vars, lifeVars
<1> QED
  BY <1>1, <1>2, <1>3, <1>4, <1>5, <1>6, <1>7 DEF Next

(* In every state of Reactor::new, of the reactor in use and of its drop   *)
(* (reactor.rs, unpark.rs, mmap.rs) IInv holds.                            *)
THEOREM LifetimeIInv == Spec => []IInv
BY LifetimeInit, LifetimeNext, PTL DEF Spec

(* SubmissionQueue and CompletionQueue (io-uring/src/lib.rs) never reach   *)
(* beyond the memory that mmap.rs mapped for them, whatever sizes and mask *)
(* the kernel reports, provided that it puts the fixed fields of a ring    *)
(* before the array (LayoutAssumption): get_field checks no offset.        *)
THEOREM LifetimeMappingsSuffice == Spec => []MappingsSuffice
<1>1. IInv => MappingsSuffice
  BY DEF IInv
<1> QED
  BY <1>1, LifetimeIInv, PTL

(* Every early return of Reactor::new and the drop of the reactor release  *)
(* everything but the write end of a thread that is inside unpark().       *)
THEOREM LifetimeNothingLeaks == Spec => []NothingLeaks
<1>1. IInv => NothingLeaks
  <2> SUFFICES ASSUME IInv, step \in {"failed", "panicked", "dropped"}
               PROVE  open \subseteq IF \E t \in Threads : upc[t] # "idle"
                                       THEN {"write_fd"} ELSE {}
    BY DEF NothingLeaks
  <2>1. open \subseteq {"write_fd"}
    BY DEF IInv, LeftInv
  <2>2. Reactor \notin owners
    BY DEF IInv, OwnerInv
  <2>3. CASE "write_fd" \in open
    <3>1. PICK t \in owners : t \in Threads
      BY <2>2, <2>3 DEF IInv, SharedInv, TypeOK
    <3> QED BY <2>1, <3>1 DEF IInv, OwnerInv
  <2>4. CASE "write_fd" \notin open
    BY <2>1, <2>4
  <2> QED BY <2>3, <2>4
<1> QED
  BY <1>1, LifetimeIInv, PTL

(* Unpark::unpark only writes to a descriptor that is still the pipe's.    *)
THEOREM LifetimeUnparkWritesPipe == Spec => []UnparkWritesPipe
<1>1. IInv => UnparkWritesPipe
  BY DEF IInv, OwnerInv, SharedInv, UnparkWritesPipe
<1> QED
  BY <1>1, LifetimeIInv, PTL
=============================================================================
