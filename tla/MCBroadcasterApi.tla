-------------------------- MODULE MCBroadcasterApi --------------------------
(* A script that sends, one that receives what it sends, and the Node program. *)
EXTENDS BroadcasterApi

=============================================================================
