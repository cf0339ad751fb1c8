--------------------------- MODULE MCRoomDirectory ---------------------------
(***************************************************************************)
(* Instances of RoomDirectory for TLC.                                     *)
(***************************************************************************)
EXTENDS RoomDirectory

CONSTANTS r1, r2, o2, u1

\* One user comes twice to a room that does not exist yet; another room has
\* been opened earlier.
MCRoomOf == [h \in Handlers |-> r1]
MCUserOf == [h \in Handlers |-> u1]
MCOpened == [id \in RoomIds |-> IF id = r2 THEN o2 ELSE None]
=============================================================================
