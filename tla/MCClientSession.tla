--------------------------- MODULE MCClientSession ---------------------------
(* Two WebSockets: a _joinRoom() of the first one meets that of the second. *)
EXTENDS ClientSession

=============================================================================
