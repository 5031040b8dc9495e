-------------------------- MODULE MCClientProducing --------------------------
(* Two sessions: what the first one left behind meets the second.            *)
EXTENDS ClientProducing

=============================================================================
