-------------------------- MODULE MCNetworkThrottle --------------------------
(* Small instances of NetworkThrottle for TLC.                              *)
EXTENDS NetworkThrottle

CONSTANTS r1, r2

Rooms1 == {r1}
Rooms2 == {r1, r2}
AllFail == {"start", "stop"}
NoneFails == {}
=============================================================================
