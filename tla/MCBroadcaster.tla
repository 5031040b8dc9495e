---------------------------- MODULE MCBroadcaster ----------------------------
(* A run that is told to end up to two times. *)
EXTENDS Broadcaster

=============================================================================
