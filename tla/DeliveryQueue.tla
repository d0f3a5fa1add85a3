--------------------------- MODULE DeliveryQueue ---------------------------
(***************************************************************************)
(* What a merchant may rely on of the webhooks: an event is offered until  *)
(* it is delivered or given up; delivered means taken, and is final; given *)
(* up ends the offers until an operator retries; and it is taken a second  *)
(* time only after a taking the sender has not learned of or forgot.       *)
(* Batches, leases, attempts, settings and crashes are the sender's own.   *)
(***************************************************************************)
EXTENDS Naturals

CONSTANT Deliveries

VARIABLES
  phase,     \* none, waiting, taken (and known to be), delivered, exhausted
  takes,     \* how often the merchant has taken an event
  forgotten  \* how many of those the sender does not know of

Init ==
  /\ phase = [d \in Deliveries |-> "none"]
  /\ takes = [d \in Deliveries |-> 0]
  /\ forgotten = [d \in Deliveries |-> 0]

Becomes(d, from, to) == phase[d] = from /\ phase' = [phase EXCEPT ![d] = to]

Enqueue(d) == Becomes(d, "none", "waiting") /\ UNCHANGED <<takes, forgotten>>

Take(d) ==
  /\ Becomes(d, "waiting", "taken")
  /\ takes' = [takes EXCEPT ![d] = @ + 1]
  /\ UNCHANGED forgotten

\* The merchant took the event, but the answer was lost.
TakeUnheard(d) ==
  /\ phase[d] = "waiting"
  /\ takes' = [takes EXCEPT ![d] = @ + 1]
  /\ forgotten' = [forgotten EXCEPT ![d] = @ + 1]
  /\ UNCHANGED phase

\* What was heard is not recorded.
Forget(d) ==
  /\ Becomes(d, "taken", "waiting")
  /\ forgotten' = [forgotten EXCEPT ![d] = @ + 1]
  /\ UNCHANGED takes

Deliver(d) == Becomes(d, "taken", "delivered") /\ UNCHANGED <<takes, forgotten>>

GiveUp(d) == Becomes(d, "waiting", "exhausted") /\ UNCHANGED <<takes, forgotten>>

Retry(d) == Becomes(d, "exhausted", "waiting") /\ UNCHANGED <<takes, forgotten>>

Next ==
  \E d \in Deliveries :
    \/ Enqueue(d) \/ Take(d) \/ TakeUnheard(d) \/ Forget(d)
    \/ Deliver(d) \/ GiveUp(d) \/ Retry(d)

Spec == Init /\ [][Next]_<<phase, takes, forgotten>>
=============================================================================
