--------------------------- MODULE MCRoomSession ---------------------------
(* Instances of RoomSession for TLC. *)
EXTENDS RoomSession, TLC

CONSTANTS a, b, c, r1

\* One sibling does not have the room.
AllButOne == [n \in Nodes |-> IF n = c THEN {} ELSE Rooms]
=============================================================================
