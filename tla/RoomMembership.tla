--------------------------- MODULE RoomMembership ---------------------------
(***************************************************************************)
(* What a room promises about who is in it, without channels, locks or     *)
(* goroutines: a user id belongs to at most one connection at a time, only *)
(* a connection that has departed loses it, and the index of users lists   *)
(* every member.                                                           *)
(***************************************************************************)
EXTENDS Integers

CONSTANTS Clients, NoClient, UserIds

VARIABLES
  phase,   \* "out", "in" (the room), "leaving" or "gone"
  member,  \* the connection that holds each user id
  listed   \* how often the room is listed for each user id

vars == <<phase, member, listed>>

Init ==
  /\ phase = [c \in Clients |-> "out"]
  /\ member = [u \in UserIds |-> NoClient]
  /\ listed = [u \in UserIds |-> 0]

Join(c, u) ==
  /\ phase[c] = "out"
  /\ member[u] = NoClient
  /\ phase' = [phase EXCEPT ![c] = "in"]
  /\ member' = [member EXCEPT ![u] = c]
  /\ listed' = [listed EXCEPT ![u] = @ + 1]

Refuse(c) ==
  /\ phase[c] = "out"
  /\ phase' = [phase EXCEPT ![c] = "gone"]
  /\ UNCHANGED <<member, listed>>

Depart(c) ==
  /\ phase[c] = "in"
  /\ phase' = [phase EXCEPT ![c] = "leaving"]
  /\ UNCHANGED <<member, listed>>

\* The connection's goroutines end; its user id may be freed before or after.
Finish(c) ==
  /\ phase[c] = "leaving"
  /\ phase' = [phase EXCEPT ![c] = "gone"]
  /\ UNCHANGED <<member, listed>>

\* A departed connection loses its user id; the index may follow later.
Evict(u) ==
  /\ member[u] # NoClient
  /\ phase[member[u]] \in {"leaving", "gone"}
  /\ member' = [member EXCEPT ![u] = NoClient]
  /\ \/ UNCHANGED listed
     \/ listed' = [listed EXCEPT ![u] = @ - 1]
  /\ UNCHANGED phase

\* The index catches up, and never forgets a member.
Unlist(u) ==
  /\ listed[u] > IF member[u] = NoClient THEN 0 ELSE 1
  /\ listed' = [listed EXCEPT ![u] = @ - 1]
  /\ UNCHANGED <<phase, member>>

Next ==
  \/ \E c \in Clients : Refuse(c) \/ Depart(c) \/ Finish(c)
  \/ \E c \in Clients, u \in UserIds : Join(c, u)
  \/ \E u \in UserIds : Evict(u) \/ Unlist(u)

Spec == Init /\ [][Next]_vars

=============================================================================
