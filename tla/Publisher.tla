------------------------------ MODULE Publisher ------------------------------
(***************************************************************************)
(* What publishing promises a server's handlers, without queues, workers,  *)
(* a breaker or reconnects: each message is handed to AMQP once or dropped *)
(* and counted as dropped, and nothing happens to it after that.           *)
(***************************************************************************)
CONSTANT Msgs

VARIABLE stage  \* "new", "pending", "handed" or "dropped"

Move(m, from, to) == stage[m] = from /\ stage' = [stage EXCEPT ![m] = to]

PublisherInit == stage = [m \in Msgs |-> "new"]

Publish(m)  == Move(m, "new", "pending")
HandOver(m) == Move(m, "pending", "handed")
Discard(m)  == Move(m, "pending", "dropped")

PublisherNext == \E m \in Msgs : Publish(m) \/ HandOver(m) \/ Discard(m)

PublisherSpec == PublisherInit /\ [][PublisherNext]_stage

=============================================================================
