-------------------------- MODULE MCRoomMembership --------------------------
(* A small instance of RoomMembership for TLC: enough for a participant to  *)
(* be replaced twice, or once in the presence of another.                   *)
EXTENDS RoomMembership

CONSTANTS c1, c2, c3, alice, bob, t1

Conns3 == {c1, c2, c3}
Ids == {alice, bob}
Transports == {t1}
=============================================================================
