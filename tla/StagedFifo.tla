----------------------------- MODULE StagedFifo -----------------------------
(***************************************************************************)
(* What a ring shared between user space and the kernel promises: a        *)
(* bounded first-in first-out queue with one producer and one consumer, in *)
(* which the producer stages items and publishes them in bulk, and the     *)
(* consumer takes published items and gives their places back in bulk.     *)
(* Both rings of io-uring/src/lib.rs implement it: SubmissionQueue with    *)
(* user space as the producer, CompletionQueue with the kernel as the      *)
(* producer.                                                               *)
(***************************************************************************)
EXTENDS Naturals, Sequences

CONSTANTS
  Capacity,   \* number of places
  Items,      \* what can be put in the queue
  NoItem      \* the value of got before the first Get

VARIABLES
  staged,     \* put, but not visible to the consumer
  published,  \* visible to the consumer, not yet taken
  held,       \* number of places taken but not given back
  got,        \* the item taken last
  reply       \* outcome of the producer's last call, <<call, value>>

vars == <<staged, published, held, got, reply>>

Total == Len(staged) + Len(published) + held

Bit(b) == IF b THEN 1 ELSE 0

Init ==
  /\ staged = <<>>
  /\ published = <<>>
  /\ held = 0
  /\ got = NoItem
  /\ reply = <<"none", 0>>

(* An item is accepted only while there is a free place. *)
Put(x) ==
  /\ Total < Capacity
  /\ staged' = Append(staged, x)
  /\ reply' = <<"ok", 0>>
  /\ UNCHANGED <<published, held, got>>

(* An item is refused only when no place is free. *)
Refuse ==
  /\ Total = Capacity
  /\ reply' = <<"full", 0>>
  /\ UNCHANGED <<staged, published, held, got>>

(* The producer gives up on an item it was about to put. *)
Abandon ==
  /\ reply' = <<"err", 0>>
  /\ UNCHANGED <<staged, published, held, got>>

Publish ==
  /\ published' = published \o staged
  /\ staged' = <<>>
  /\ UNCHANGED <<held, got, reply>>

(* The producer's queries are answered from the state of a single instant. *)
Query ==
  /\ reply' \in {<<"is_full", Bit(Total = Capacity)>>,
                 <<"has_pending", Bit(Total > 0)>>,
                 <<"pending", Total>>}
  /\ UNCHANGED <<staged, published, held, got>>

Get ==
  /\ published # <<>>
  /\ got' = Head(published)
  /\ published' = Tail(published)
  /\ held' = held + 1
  /\ UNCHANGED <<staged, reply>>

Release ==
  /\ held' = 0
  /\ UNCHANGED <<staged, published, got, reply>>

Next ==
  \/ \E x \in Items : Put(x)
  \/ Refuse \/ Abandon \/ Publish \/ Query
  \/ Get \/ Release

Spec == Init /\ [][Next]_vars
==============================================================================
