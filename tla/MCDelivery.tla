----------------------------- MODULE MCDelivery -----------------------------
(* Instances of Delivery for TLC. *)
EXTENDS Delivery

CONSTANTS home, peer, m1

\* m1 is sent on peer, the others on home.
MCOrigin == [m \in Msgs |-> IF m = m1 THEN peer ELSE home]
=============================================================================
