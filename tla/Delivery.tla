------------------------------- MODULE Delivery -------------------------------
(***************************************************************************)
(* What the reactor promises to its futures, without registrations,        *)
(* addresses, queues and tasks: a client that has asked waits for one      *)
(* answer, which stays until it is taken; it may ask again, or leave at    *)
(* any time.  While the service is up no answer is lost, changed, given    *)
(* twice or given to somebody else.  When it stops, clients that were not  *)
(* told their answer never will be.                                        *)
(***************************************************************************)
CONSTANTS Clients, Answers, NoAnswer

VARIABLES
  up,       \* the service runs
  status,   \* "absent", "idle", "waiting", "answered" or "lost"
  answer

vars == <<up, status, answer>>

Init ==
  /\ up = TRUE
  /\ status = [c \in Clients |-> "absent"]
  /\ answer = [c \in Clients |-> NoAnswer]

Become(c, s, a) ==
  /\ status' = [status EXCEPT ![c] = s]
  /\ answer' = [answer EXCEPT ![c] = a]
  /\ UNCHANGED up

Come(c) == status[c] = "absent" /\ Become(c, "idle", NoAnswer)

(* At once when it comes, or later *)
Ask(c) == up /\ status[c] \in {"absent", "idle"} /\ Become(c, "waiting", NoAnswer)

Answer(c, a) == up /\ status[c] = "waiting" /\ Become(c, "answered", a)

Take(c) == status[c] = "answered" /\ Become(c, "idle", NoAnswer)

Leave(c) == status[c] # "absent" /\ Become(c, "absent", NoAnswer)

(* The clients in S lose what they waited for, or had not been told yet. *)
Stop(S) ==
  /\ up /\ up' = FALSE
  /\ \A c \in S : status[c] \in {"waiting", "answered"}
  /\ status' = [c \in Clients |-> IF c \in S THEN "lost" ELSE status[c]]
  /\ answer' = [c \in Clients |-> IF c \in S THEN NoAnswer ELSE answer[c]]

Lose(c) == ~up /\ status[c] = "waiting" /\ Become(c, "lost", NoAnswer)

Next ==
  \/ \E c \in Clients :
       Come(c) \/ Ask(c) \/ Take(c) \/ Leave(c) \/ Lose(c) \/ \E a \in Answers : Answer(c, a)
  \/ \E S \in SUBSET Clients : Stop(S)

Spec == Init /\ [][Next]_vars
==============================================================================
