-------------------------------- MODULE Outbox --------------------------------
(***************************************************************************)
(* What a client is promised about its queued inputs (the outbox that the  *)
(* system.user_message_pending, _promoted and _cancelled frames describe): *)
(* an input is queued once; the oldest queued input of a thread is claimed *)
(* and then delivered to the log; an interrupt withdraws what its thread   *)
(* still has queued; one input at a time is claimed, and a claimed input   *)
(* is delivered even if a withdrawal comes in between.                     *)
(***************************************************************************)
EXTENDS Naturals, Sequences

CONSTANTS Inputs, Threads, ThreadOf

VARIABLES
  state,  \* the life of each input
  order   \* the inputs, by the order they were queued

vars == <<state, order>>

Init == state = [m \in Inputs |-> "unsent"] /\ order = <<>>

Queue(m) ==
  /\ state[m] = "unsent"
  /\ state' = [state EXCEPT ![m] = "queued"]
  /\ order' = Append(order, m)

\* i is the oldest queued input of its thread and nothing is claimed.
Claim(i) ==
  /\ i \in DOMAIN order
  /\ state[order[i]] = "queued"
  /\ \A j \in 1..(i - 1) :
       ThreadOf[order[j]] = ThreadOf[order[i]] => state[order[j]] # "queued"
  /\ \A m \in Inputs : state[m] # "claimed"
  /\ state' = [state EXCEPT ![order[i]] = "claimed"]
  /\ UNCHANGED order

Deliver(m) ==
  /\ state[m] = "claimed"
  /\ state' = [state EXCEPT ![m] = "delivered"]
  /\ UNCHANGED order

Withdraw(t) ==
  /\ state' = [m \in Inputs |->
                 IF ThreadOf[m] = t /\ state[m] = "queued"
                 THEN "withdrawn" ELSE state[m]]
  /\ UNCHANGED order

Next ==
  \/ \E m \in Inputs : Queue(m) \/ Deliver(m)
  \/ \E i \in DOMAIN order : Claim(i)
  \/ \E t \in Threads : Withdraw(t)

Spec == Init /\ [][Next]_vars
=============================================================================
