-------------------------- MODULE MCConsumerPausing --------------------------
(* An audio and two video Consumers.                                         *)
EXTENDS ConsumerPausing

=============================================================================
