--------------------------- MODULE RingIndexProofs ---------------------------
(***************************************************************************)
(* Facts about the index arithmetic of RingIndex, for every ring size and  *)
(* every index width that RingAssumption allows.                           *)
(***************************************************************************)
EXTENDS RingIndex, SequenceTheorems, TLAPS

(* The index range holds at least two rings (2^32 values, ring_entries a   *)
(* power of two below): full and empty can be told apart.                  *)
LEMMA TwoRings ==
  /\ Entries \in Nat \ {0}
  /\ IndexLimit \in Nat
  /\ 2 * Entries <= IndexLimit
<1>1. PICK k \in 2..IndexLimit : IndexLimit = k * Entries
  BY RingAssumption
<1>2. k \in Int /\ k >= 2 /\ Entries \in Nat \ {0} /\ IndexLimit \in Nat
  BY <1>1, RingAssumption
<1>3. k * Entries >= 2 * Entries
  BY ONLY <1>2
<1> QED BY <1>1, <1>2, <1>3

(* wrapping_add(1) and the index differences stay in range. *)
LEMMA WrapTypes ==
  ASSUME NEW a \in Index, NEW b \in Index
  PROVE  /\ WrapIncr(a) \in Index
         /\ WrapSub(a, b) \in Index
         /\ WrapSub(a, b) \in Nat
BY TwoRings DEF Index, WrapIncr, WrapSub

(* wrapping_add(1) on the upper index lengthens a distance by one, on the  *)
(* lower index it shortens it by one.                                      *)
LEMMA WrapSteps ==
  ASSUME NEW a \in Index, NEW b \in Index
  PROVE  /\ WrapSub(a, b) < IndexLimit - 1 =>
              WrapSub(WrapIncr(a), b) = WrapSub(a, b) + 1
         /\ a # b => WrapSub(a, WrapIncr(b)) = WrapSub(a, b) - 1
BY TwoRings DEF Index, WrapIncr, WrapSub

(* The mask of an index is its remainder. *)
LEMMA ModRange ==
  ASSUME NEW a \in Nat, NEW e \in Nat \ {0}
  PROVE  /\ a % e \in 0..(e - 1)
         /\ a = e * (a \div e) + (a % e)
         /\ a \div e \in Nat
OBVIOUS

(* A masked index addresses an element of the ring. *)
LEMMA SlotType ==
  ASSUME NEW a \in Index
  PROVE  Slot(a) \in Slots
BY ModRange, TwoRings DEF Slot, Slots, Index

(* Quotient and remainder are unique. *)
LEMMA ModUnique ==
  ASSUME NEW e \in Nat \ {0}, NEW q \in Int, NEW r \in 0..(e-1),
         NEW p \in Int, NEW s \in 0..(e-1), e * q + r = e * p + s
  PROVE  r = s /\ q = p
<1>1. e * (q - p) = s - r
  OBVIOUS
<1>2. CASE q - p >= 1
  <2>1. e * (q - p) >= e
    BY <1>2
  <2> QED BY <2>1, <1>1
<1>3. CASE q - p <= -1
  <2>1. e * (q - p) <= -e
    BY <1>3
  <2> QED BY <2>1, <1>1
<1>4. CASE q = p
  BY <1>4
<1> QED BY <1>2, <1>3, <1>4

(* The difference of two indices and of the elements they address differ   *)
(* by a multiple of the ring size, although the index range wraps.         *)
LEMMA SlotOfWrapSub ==
  ASSUME NEW a \in Index, NEW b \in Index
  PROVE  \E d \in Int : WrapSub(a, b) = Entries * d + (Slot(a) - Slot(b))
<1>1. PICK k \in 2..IndexLimit : IndexLimit = k * Entries
  BY RingAssumption
<1>2. /\ Slot(a) \in 0..(Entries - 1)
      /\ Slot(b) \in 0..(Entries - 1)
      /\ a = Entries * (a \div Entries) + Slot(a)
      /\ b = Entries * (b \div Entries) + Slot(b)
      /\ a \div Entries \in Int
      /\ b \div Entries \in Int
  BY ModRange, RingAssumption DEF Slot, Index
<1> DEFINE qa == a \div Entries
           qb == b \div Entries
<1> HIDE DEF qa, qb
<1>q. /\ qa \in Int /\ qb \in Int /\ k \in Int /\ Entries \in Int
      /\ a = Entries * qa + Slot(a)
      /\ b = Entries * qb + Slot(b)
      /\ Slot(a) \in Int /\ Slot(b) \in Int
  BY <1>1, <1>2, RingAssumption DEF qa, qb
<1>3. CASE a >= b
  <2>1. WrapSub(a, b) = Entries * (qa - qb) + (Slot(a) - Slot(b))
    <3>1. a - b = Entries * (qa - qb) + (Slot(a) - Slot(b))
      BY ONLY <1>q
    <3> QED BY <3>1, <1>3 DEF WrapSub
  <2>2. qa - qb \in Int
    BY ONLY <1>q
  <2> WITNESS qa - qb \in Int
  <2> QED BY <2>1
<1>4. CASE ~(a >= b)
  <2>1. WrapSub(a, b) = Entries * (qa - qb + k) + (Slot(a) - Slot(b))
    <3>1. a - b + k * Entries = Entries * (qa - qb + k) + (Slot(a) - Slot(b))
      BY ONLY <1>q
    <3> QED BY <3>1, <1>4, <1>1 DEF WrapSub
  <2>2. qa - qb + k \in Int
    BY ONLY <1>q
  <2> WITNESS qa - qb + k \in Int
  <2> QED BY <2>1
<1> QED BY <1>3, <1>4

(* Within one ring, two indices address the same element exactly when they *)
(* are equal or a whole ring apart: the test of head() and is_full().      *)
LEMMA SameSlotIff ==
  ASSUME NEW a \in Index, NEW b \in Index, WrapSub(a, b) \in 0..Entries
  PROVE  SameSlot(a, b) <=> WrapSub(a, b) \in {0, Entries}
<1>1. PICK d \in Int : WrapSub(a, b) = Entries * d + (Slot(a) - Slot(b))
  BY SlotOfWrapSub
<1>2. Slot(a) \in 0..(Entries - 1) /\ Slot(b) \in 0..(Entries - 1)
  BY ModRange, RingAssumption DEF Slot, Index
<1> DEFINE w == WrapSub(a, b)
           s == Slot(a)
           t == Slot(b)
<1>3. w \in 0..Entries /\ Entries \in Nat \ {0} /\ w = Entries * d + (s - t)
  BY <1>1, RingAssumption
<1>t. s \in 0..(Entries - 1) /\ t \in 0..(Entries - 1)
  BY <1>2
<1> HIDE DEF w, s, t
<1>4. ASSUME s = t PROVE w \in {0, Entries}
  <2>1. w = Entries * d /\ Entries \in Nat \ {0} /\ w \in 0..Entries
    BY <1>4, <1>3, <1>t
  <2>2. CASE d >= 2
    <3>1. Entries * d >= Entries * 2 BY ONLY <2>2, <2>1, d \in Int
    <3> QED BY <3>1, <2>1
  <2>3. CASE d <= -1
    <3>1. Entries * d <= -Entries BY ONLY <2>3, <2>1, d \in Int
    <3> QED BY <3>1, <2>1
  <2>4. CASE d \in {0, 1}
    BY <2>1, <2>4
  <2> QED BY <2>2, <2>3, <2>4
<1>5. ASSUME w \in {0, Entries} PROVE s = t
  <2>1. PICK c \in {0, 1} : w = Entries * c
    BY <1>5, <1>3
  <2>2. Entries * c + t = Entries * d + s
    BY <2>1, <1>3, <1>t
  <2>3. Entries \in Nat \ {0} /\ c \in Int /\ d \in Int
    BY <1>3
  <2>4. t = s
    BY ONLY <2>2, <2>3, <1>t, ModUnique
  <2> QED BY <2>4
<1> QED BY <1>4, <1>5 DEF w, s, t, SameSlot

(* An index between head and tail, less than a ring apart, addresses an    *)
(* element other than the one the tail addresses.                          *)
LEMMA LiveSlotsDiffer ==
  ASSUME NEW head \in Index, NEW tail \in Index, NEW i \in Index,
         WrapSub(tail, head) < Entries,
         WrapSub(i, head) < WrapSub(tail, head)
  PROVE  Slot(i) # Slot(tail)
<1>1. WrapSub(tail, i) \in 0..Entries /\ WrapSub(tail, i) \notin {0, Entries}
  BY TwoRings DEF Index, WrapSub
<1> QED BY <1>1, SameSlotIff DEF SameSlot

(***************************************************************************)
(* Windows of a ring.                                                      *)
(***************************************************************************)

(* A window is a sequence of elements of the ring, one for each index.     *)
LEMMA WindowSeq ==
  ASSUME NEW S, NEW ring \in [Slots -> S], NEW first \in Index, NEW end \in Index
  PROVE  /\ Window(ring, first, end) \in Seq(S)
         /\ Len(Window(ring, first, end)) = WrapSub(end, first)
         /\ \A n \in 1..WrapSub(end, first) :
              /\ WrapAdd(first, n - 1) \in Index
              /\ Window(ring, first, end)[n] = ring[Slot(WrapAdd(first, n - 1))]
<1> DEFINE e(n) == ring[Slot(WrapAdd(first, n - 1))]
           len == WrapSub(end, first)
<1>1. len \in Nat /\ len < IndexLimit
  BY TwoRings DEF WrapSub, Index
<1>2. ASSUME NEW n \in 1..len PROVE WrapAdd(first, n - 1) \in Index
  BY <1>1, TwoRings DEF WrapAdd, Index
<1>3. \A n \in 1..len : e(n) \in S
  BY <1>2, SlotType
<1>4. Window(ring, first, end) = [n \in 1..len |-> e(n)]
  BY DEF Window
<1> HIDE DEF e, len
<1>5. [n \in 1..len |-> e(n)] \in Seq(S) /\ Len([n \in 1..len |-> e(n)]) = len
  BY <1>1, <1>3
<1> QED
  BY <1>2, <1>4, <1>5 DEF e, len

LEMMA WindowLen ==
  ASSUME NEW ring, NEW first \in Index, NEW end \in Index
  PROVE  Len(Window(ring, first, end)) = WrapSub(end, first)
<1> DEFINE len == WrapSub(end, first)
           e(n) == ring[Slot(WrapAdd(first, n - 1))]
<1>1. len \in Nat
  BY WrapTypes
<1>2. Window(ring, first, end) = [n \in 1..len |-> e(n)]
  BY DEF Window
<1> HIDE DEF len, e
<1>3. Len([n \in 1..len |-> e(n)]) = len
  BY <1>1
<1> QED
  BY <1>2, <1>3 DEF len

(* The element of a window at position n *)
LEMMA WindowAt ==
  ASSUME NEW ring, NEW first, NEW end, NEW n \in 1..WrapSub(end, first)
  PROVE  Window(ring, first, end)[n] = ring[Slot(WrapAdd(first, n - 1))]
BY DEF Window

LEMMA WindowEmpty ==
  ASSUME NEW S, NEW ring \in [Slots -> S], NEW first \in Index, NEW end \in Index
  PROVE  Window(ring, first, end) = <<>> <=> first = end
<1>1. WrapSub(end, first) \in Nat /\ (WrapSub(end, first) = 0 <=> first = end)
  BY TwoRings DEF WrapSub, Index
<1>2. \A s \in Seq(S) : Len(s) = 0 <=> s = <<>>
  BY EmptySeq
<1>3. Window(ring, first, end) \in Seq(S)
  BY WindowSeq
<1>4. Len(Window(ring, first, end)) = WrapSub(end, first)
  BY WindowLen
<1> QED
  BY <1>1, <1>2, <1>3, <1>4

(* Two rings have the same elements from first up to end. *)
Agree(ring, other, first, end) ==
  \A i \in Index : WrapSub(i, first) < WrapSub(end, first) => other[Slot(i)] = ring[Slot(i)]

(* Elements outside of a window do not matter for it. *)
LEMMA WindowSame ==
  ASSUME NEW ring, NEW other, NEW first \in Index, NEW end \in Index,
         Agree(ring, other, first, end)
  PROVE  Window(other, first, end) = Window(ring, first, end)
<1> SUFFICES ASSUME NEW n \in 1..WrapSub(end, first)
             PROVE  other[Slot(WrapAdd(first, n - 1))] = ring[Slot(WrapAdd(first, n - 1))]
  BY DEF Window
<1>1. /\ WrapAdd(first, n - 1) \in Index
      /\ WrapSub(WrapAdd(first, n - 1), first) < WrapSub(end, first)
  BY TwoRings DEF WrapSub, WrapAdd, Index
<1> QED
  BY <1>1 DEF Agree

(* Two windows that meet are one. *)
LEMMA WindowJoin ==
  ASSUME NEW S, NEW ring \in [Slots -> S],
         NEW a \in Index, NEW b \in Index, NEW c \in Index,
         WrapSub(c, a) = WrapSub(b, a) + WrapSub(c, b)
  PROVE  Window(ring, a, b) \o Window(ring, b, c) = Window(ring, a, c)
<1> DEFINE u == Window(ring, a, b)
           v == Window(ring, b, c)
           w == Window(ring, a, c)
<1>1. /\ u \in Seq(S) /\ v \in Seq(S) /\ w \in Seq(S)
      /\ Len(u) = WrapSub(b, a) /\ Len(v) = WrapSub(c, b) /\ Len(w) = WrapSub(c, a)
  <2>1. u \in Seq(S)
    BY WindowSeq
  <2>2. v \in Seq(S)
    BY WindowSeq
  <2>3. w \in Seq(S)
    BY WindowSeq
  <2> QED BY <2>1, <2>2, <2>3, WindowLen
<1>2. WrapSub(b, a) \in Nat /\ WrapSub(c, b) \in Nat
  BY WrapTypes
<1>3. ASSUME NEW n \in 1..WrapSub(c, a)
      PROVE  w[n] = IF n <= WrapSub(b, a) THEN u[n] ELSE v[n - WrapSub(b, a)]
  <2>1. CASE n <= WrapSub(b, a)
    BY <1>2, <2>1, WindowAt
  <2>2. CASE ~(n <= WrapSub(b, a))
    <3>1. n - WrapSub(b, a) \in 1..WrapSub(c, b)
      BY <1>2, <2>2
    <3>2. WrapAdd(a, n - 1) = WrapAdd(b, n - WrapSub(b, a) - 1)
      BY <2>2, TwoRings DEF WrapAdd, WrapSub, Index
    <3> QED BY <2>2, <3>1, <3>2, WindowAt
  <2> QED BY <2>1, <2>2
<1> HIDE DEF u, v, w
<1>4. /\ u \o v \in Seq(S) /\ Len(u \o v) = WrapSub(c, a)
      /\ \A n \in 1..WrapSub(c, a) :
           (u \o v)[n] = IF n <= WrapSub(b, a) THEN u[n] ELSE v[n - WrapSub(b, a)]
  <2>1. /\ u \o v \in Seq(S) /\ Len(u \o v) = Len(u) + Len(v)
        /\ \A n \in 1..(Len(u) + Len(v)) :
             (u \o v)[n] = IF n <= Len(u) THEN u[n] ELSE v[n - Len(u)]
    BY <1>1, ConcatProperties
  <2> QED BY <1>1, <2>1
<1>5. u \o v = w
  BY <1>1, <1>3, <1>4, SeqEqual
<1> QED
  BY <1>5 DEF u, v, w

(* The element at the end is appended when the end advances. *)
LEMMA WindowAppend ==
  ASSUME NEW S, NEW ring \in [Slots -> S], NEW first \in Index, NEW end \in Index,
         WrapSub(end, first) < IndexLimit - 1
  PROVE  Window(ring, first, WrapIncr(end)) = Append(Window(ring, first, end), ring[Slot(end)])
<1> DEFINE v == Window(ring, first, end)
           w == Window(ring, first, WrapIncr(end))
           x == ring[Slot(end)]
           len == WrapSub(end, first)
<1>1. WrapIncr(end) \in Index /\ len \in Nat /\ WrapSub(WrapIncr(end), first) = len + 1
  BY WrapTypes, WrapSteps
<1>2. v \in Seq(S) /\ Len(v) = len /\ w \in Seq(S) /\ Len(w) = len + 1 /\ x \in S
  <2>1. v \in Seq(S)
    BY WindowSeq
  <2>2. w \in Seq(S)
    BY <1>1, WindowSeq
  <2>3. Len(v) = len /\ Len(w) = len + 1
    BY <1>1, WindowLen
  <2>4. x \in S
    BY SlotType
  <2> QED BY <2>1, <2>2, <2>3, <2>4
<1>3. ASSUME NEW n \in 1..len PROVE w[n] = v[n]
  <2>1. n \in 1..WrapSub(WrapIncr(end), first)
    BY <1>1
  <2> QED BY <2>1, WindowAt
<1>4. WrapAdd(first, len) = end
  BY TwoRings DEF WrapAdd, WrapSub, Index
<1>5. w[len + 1] = x
  <2>1. /\ len + 1 \in 1..WrapSub(WrapIncr(end), first)
        /\ (len + 1) - 1 = len
    BY <1>1
  <2> QED BY <1>4, <2>1, WindowAt
<1> HIDE DEF v, w, x, len
<1>6. /\ Append(v, x) \in Seq(S) /\ Len(Append(v, x)) = len + 1
      /\ \A n \in 1..len : Append(v, x)[n] = v[n]
      /\ Append(v, x)[len + 1] = x
  BY <1>2, AppendProperties
<1>7. \A n \in 1..(len + 1) : Append(v, x)[n] = w[n]
  BY <1>1, <1>3, <1>5, <1>6
<1>8. w = Append(v, x)
  BY <1>2, <1>6, <1>7, SeqEqual
<1> QED
  BY <1>8 DEF v, w, x

(* The first element is the head, the rest is the window that follows. *)
LEMMA WindowHeadTail ==
  ASSUME NEW S, NEW ring \in [Slots -> S], NEW first \in Index, NEW end \in Index,
         first # end
  PROVE  /\ Head(Window(ring, first, end)) = ring[Slot(first)]
         /\ Tail(Window(ring, first, end)) = Window(ring, WrapIncr(first), end)
<1> DEFINE v == Window(ring, first, end)
           w == Window(ring, WrapIncr(first), end)
           len == WrapSub(end, first)
<1>1. /\ WrapIncr(first) \in Index /\ len \in Nat /\ len >= 1
      /\ WrapSub(end, WrapIncr(first)) = len - 1
  <2>1. WrapIncr(first) \in Index /\ WrapSub(end, WrapIncr(first)) = len - 1
    BY WrapTypes, WrapSteps
  <2>2. len \in Nat /\ len >= 1
    BY TwoRings DEF WrapSub, Index
  <2> QED BY <2>1, <2>2
<1>2. v \in Seq(S) /\ Len(v) = len /\ w \in Seq(S) /\ Len(w) = len - 1
  <2>1. v \in Seq(S)
    BY WindowSeq
  <2>2. w \in Seq(S)
    BY <1>1, WindowSeq
  <2>3. Len(v) = len /\ Len(w) = len - 1
    BY <1>1, WindowLen
  <2> QED BY <2>1, <2>2, <2>3
<1>3. v[1] = ring[Slot(first)]
  <2>1. WrapAdd(first, 1 - 1) = first
    BY TwoRings DEF WrapAdd, Index
  <2>2. 1 \in 1..len
    BY <1>1
  <2> QED BY <2>1, <2>2, WindowAt
<1>4. ASSUME NEW n \in 1..(len - 1) PROVE w[n] = v[n + 1]
  <2>1. WrapAdd(WrapIncr(first), n - 1) = WrapAdd(first, (n + 1) - 1)
    <3>1. n < IndexLimit /\ n \in Nat /\ n >= 1
      BY <1>1, TwoRings DEF WrapSub, Index
    <3> QED BY ONLY <3>1, first \in Index, TwoRings DEF WrapAdd, WrapIncr, Index
  <2>2. n \in 1..WrapSub(end, WrapIncr(first)) /\ n + 1 \in 1..len
    BY <1>1
  <2> QED BY <2>1, <2>2, WindowAt
<1> HIDE DEF v, w, len
<1>5. v # <<>>
  BY <1>1, <1>2
<1>6. /\ Tail(v) \in Seq(S) /\ Len(Tail(v)) = len - 1
      /\ \A n \in 1..(len - 1) : Tail(v)[n] = v[n + 1]
  BY <1>2, <1>5, HeadTailProperties
<1>7. Tail(v) = w
  BY <1>2, <1>4, <1>6, SeqEqual
<1>8. Head(v) = v[1]
  BY <1>2, <1>5
<1> QED
  BY <1>3, <1>7, <1>8 DEF v, w
==============================================================================
