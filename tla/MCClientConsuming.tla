-------------------------- MODULE MCClientConsuming --------------------------
(* A client with another Peer and the Bot: what one peerId does to the store *)
(* does not depend on another, but the queue is shared.                      *)
EXTENDS ClientConsuming

=============================================================================
