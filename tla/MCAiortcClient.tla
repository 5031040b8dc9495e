---------------------------- MODULE MCAiortcClient ----------------------------
(* Two connections, a Consumer or DataConsumer, and two calls from the terminal: *)
(* a call, what undoes it, and the loss of the connection between the two.       *)
EXTENDS AiortcClient

=============================================================================
