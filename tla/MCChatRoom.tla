----------------------------- MODULE MCChatRoom -----------------------------
(* Instances of ChatRoom for TLC. *)
EXTENDS ChatRoom, TLC

\* Connections are interchangeable: sound for the runs that check no liveness
\* property.
Symmetry == Permutations(Clients)

=============================================================================
