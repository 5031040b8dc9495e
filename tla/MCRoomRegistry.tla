--------------------------- MODULE MCRoomRegistry ---------------------------
(* A small instance of RoomRegistry for TLC.                               *)
EXTENDS RoomRegistry

CONSTANTS q1, q2, q3, a, b

Requests3 == {q1, q2, q3}
Ids == {a, b}
=============================================================================
