---------------------------- MODULE ProducingStore ----------------------------
(***************************************************************************)
(* The Producers of the web client, as its store (redux/reducers/), its     *)
(* slots (app/src/RoomClient.js) and its Peer in the server have them.      *)
(* ClientProducing says how they change.                                    *)
(***************************************************************************)
EXTENDS Sequences

VARIABLES
  open,      \* the client has joined and has its sending transport
  slot,      \* slot[s]: the Producer in _micProducer etc., or 0
  calls,     \* the bag of the async functions under way, each in an await
  shown,     \* the store's producers in the order they were added
  muted,     \* those of them that are paused, in the store and as objects
  made,      \* made[p]: the source of Producer p, in the server's order
  served,    \* the open Producers of the client in its server's Peer
  paused,    \* those of them that are paused
  notices,   \* the notifications under way to the server
  overlapped \* history: a source was enabled while it was being enabled

NothingUnderWay == open /\ notices = <<>> /\ \A k \in DOMAIN calls : k.at # "answer"

\* When nothing is under way, the store shows the Producers that the server has
\* of this client, each paused as it is there.
StoreShowsServer ==
  NothingUnderWay => {shown[i] : i \in DOMAIN shown} = served /\ muted = paused

\* A Producer that is shown can be closed by the function for its source, unless
\* that source was enabled again while it was being enabled.
ShownIsInSlot ==
  \A i \in DOMAIN shown : slot[made[shown[i]]] = shown[i] \/ overlapped

=============================================================================
