-------------------------- MODULE MCMediaForwarding --------------------------
(* Two WebSocket Peers and a BroadcasterPeer: enough for a Peer to join      *)
(* before, during and after the announcement of a Producer by either class   *)
(* of participant, and to leave meanwhile.                                   *)
EXTENDS MediaForwarding

=============================================================================
