--------------------------- MODULE ClientConsuming ---------------------------
(***************************************************************************)
(* The web client as a consumer (app/src/RoomClient.js): the messages of   *)
(* the server about peers and Consumers, the AwaitQueue through which the  *)
(* latter go and the former do not, the Map of Consumers and the redux     *)
(* store.  DataConsumers are treated alike and are members of Consumer.    *)
(*                                                                         *)
(* The server is the environment: it sends what Room and Peer send to one  *)
(* joined Peer (RoomMembership, MediaForwarding), in order, over a         *)
(* WebSocket.  An action is one turn of either event loop.  A Peer of the  *)
(* Room that reconnects has the peerId that it had.                        *)
(***************************************************************************)
EXTENDS Naturals, Sequences

CONSTANTS
  PeerId,        \* the other Peers of the Room
  Bot,           \* an undefined peerId: the Bot of the Room
  Consumer,      \* the Consumers and DataConsumers ever created
  DataConsumer,  \* those of them that are DataConsumers
  MaxPeerEvents, \* bound: arrivals, leaves and replacements of other Peers
  MaxSessions    \* bound: how often the client joins

ASSUME BotAssumption == Bot \notin PeerId
ASSUME KindsAssumption == DataConsumer \subseteq Consumer
ASSUME BoundsAssumption == MaxPeerEvents \in Nat /\ MaxSessions \in Nat

VARIABLES
  joined,     \* the peerIds that are joined in the Room
  status,     \* status[c] in the server: none, consuming, sent or closed
  owner,      \* owner[c]: the peerId in its newConsumer request, or Bot
  orphans,    \* the Consumers whose Producer is gone
  wire,       \* the messages under way to the client
  inRoom,     \* the client has joined, and has its receiving transport
  tasks,      \* #_consumingAwaitQueue: the running task is the head
  consumers,  \* RoomClient._consumers and _dataConsumers
  peers,      \* the store's peers: the consumerIds listed for each
  stored,     \* the consumerIds of the store's consumers and dataConsumers
  thrown,     \* history: the Consumers for which a reducer threw
  failed,     \* history: those that consume() did not create
  cut,        \* history: those whose DataChannel closed while they were in the Map
  peerEvents, sessions  \* bounded counters

server == <<joined, status, owner, orphans>>
client == <<tasks, consumers, peers, stored, thrown, failed, cut>>
bounds == <<peerEvents, sessions>>
vars == <<server, wire, inRoom, client, bounds>>

PeerMessage == [type: {"newPeer", "peerClosed"}, peer: PeerId]

\* An update stands for consumerPaused, consumerResumed, consumerLayersChanged.
ConsumerMessage ==
  [type: {"newConsumer", "consumerClosed", "consumerUpdate"}, consumer: Consumer]

TypeOK ==
  /\ joined \subseteq PeerId
  /\ status \in [Consumer -> {"none", "consuming", "sent", "closed"}]
  /\ owner \in [Consumer -> PeerId \cup {Bot}]
  /\ orphans \subseteq Consumer
  /\ wire \in Seq(PeerMessage \cup ConsumerMessage)
  /\ inRoom \in BOOLEAN
  /\ tasks \in Seq(ConsumerMessage)
  /\ consumers \subseteq Consumer /\ stored \subseteq Consumer
  /\ DOMAIN peers \subseteq PeerId
  /\ \A i \in DOMAIN peers : peers[i] \subseteq Consumer
  /\ thrown \subseteq Consumer /\ failed \subseteq Consumer
  /\ cut \subseteq DataConsumer
  /\ peerEvents \in 0 .. MaxPeerEvents /\ sessions \in 0 .. MaxSessions

Init ==
  /\ joined = {}
  /\ status = [c \in Consumer |-> "none"]
  /\ owner = [c \in Consumer |-> Bot]
  /\ orphans = {} /\ wire = <<>> /\ inRoom = FALSE
  /\ tasks = <<>> /\ consumers = {}
  /\ peers = << >> /\ stored = {}
  /\ thrown = {} /\ failed = {} /\ cut = {}
  /\ peerEvents = 0 /\ sessions = 0

-----------------------------------------------------------------------------
(* The server.                                                             *)

\* notify() and request() reach a Peer that has joined.
Send(m) == wire' = IF inRoom THEN Append(wire, m) ELSE wire

PeerEvent ==
  /\ peerEvents < MaxPeerEvents /\ peerEvents' = peerEvents + 1
  /\ UNCHANGED <<status, owner, inRoom, client, sessions>>

OwnedBy(i) == {c \in Consumer : owner[c] = i /\ status[c] # "none"}

\* Mutant: the close of the old connection is announced after the new one joined.
JoinsThenOldCloses(i) ==
  /\ PeerEvent /\ i \notin joined
  /\ joined' = joined \cup {i}
  /\ wire' = IF inRoom THEN wire \o <<[type |-> "newPeer", peer |-> i],
                                     [type |-> "peerClosed", peer |-> i]>>
             ELSE wire
  /\ UNCHANGED orphans

\* Another Peer joins, for the first time or again.
PeerJoins(i) ==
  /\ PeerEvent /\ i \notin joined
  /\ joined' = joined \cup {i}
  /\ Send([type |-> "newPeer", peer |-> i])
  /\ UNCHANGED orphans

\* It leaves: 'disconnected'.
PeerLeaves(i) ==
  /\ PeerEvent /\ i \in joined
  /\ joined' = joined \ {i} /\ orphans' = orphans \cup OwnedBy(i)
  /\ Send([type |-> "peerClosed", peer |-> i])

\* Its connection is replaced, which is not told: mayCloseExistingPeer().
PeerReplaced(i) ==
  /\ PeerEvent /\ i \in joined
  /\ joined' = joined \ {i} /\ orphans' = orphans \cup OwnedBy(i)
  /\ UNCHANGED wire

\* consume() of the server's Peer, for a Producer of i.
Consume(c, i) ==
  /\ inRoom /\ status[c] = "none"
  /\ i \in joined \/ (i = Bot /\ c \in DataConsumer)
  /\ status' = [status EXCEPT ![c] = "consuming"]
  /\ owner' = [owner EXCEPT ![c] = i]
  /\ UNCHANGED <<joined, orphans, wire, inRoom, client, bounds>>

\* The Worker created it: the newConsumer request, also if i has left by now.
ConsumerCreated(c) ==
  /\ status[c] = "consuming"
  /\ status' = [status EXCEPT ![c] = "sent"]
  /\ Send([type |-> "newConsumer", consumer |-> c])
  /\ UNCHANGED <<joined, owner, orphans, inRoom, client, bounds>>

\* 'producerclose', because the owner is gone or closed the Producer.
ProducerClosed(c) ==
  /\ status[c] = "sent" /\ owner[c] # Bot
  /\ status' = [status EXCEPT ![c] = "closed"]
  /\ orphans' = orphans \cup {c}
  /\ Send([type |-> "consumerClosed", consumer |-> c])
  /\ UNCHANGED <<joined, owner, inRoom, client, bounds>>

\* 'producerpause' and the like; at most one of them is under way.
ConsumerUpdated(c) ==
  /\ status[c] = "sent" /\ c \notin DataConsumer
  /\ LET m == [type |-> "consumerUpdate", consumer |-> c] IN
     /\ \A k \in DOMAIN wire : wire[k] # m
     /\ \A k \in DOMAIN tasks : tasks[k] # m
     /\ Send(m)
  /\ UNCHANGED <<server, inRoom, client, bounds>>

-----------------------------------------------------------------------------
(* The reducers.  A reducer that throws leaves the whole store as it is.   *)

\* ADD_CONSUMER, ADD_DATA_CONSUMER of a known peer, or of none for the Bot.
AddConsumer(c, i) ==
  /\ peers' = [j \in DOMAIN peers |-> peers[j] \cup (IF j = i THEN {c} ELSE {})]
  /\ stored' = stored \cup {c}

\* REMOVE_CONSUMER, REMOVE_DATA_CONSUMER: "the Peer was closed before, so it's
\* ok", but a peer that came back does not list the Consumer.
RemoveThrows(c, i) == i \in DOMAIN peers /\ c \notin peers[i]

RemoveConsumer(c) ==
  /\ peers' = [j \in DOMAIN peers |-> peers[j] \ {c}]
  /\ stored' = stored \ {c}

-----------------------------------------------------------------------------
(* The client.                                                             *)

\* The response to 'join': nothing overtakes it, and the tasks of an earlier
\* session failed long ago for want of a transport.
JoinRoom ==
  /\ ~inRoom /\ tasks = <<>> /\ sessions < MaxSessions
  /\ inRoom' = TRUE /\ sessions' = sessions + 1
  /\ peers' = [i \in joined |-> {}]
  /\ UNCHANGED <<server, wire, tasks, consumers, stored, thrown, failed, cut, peerEvents>>

\* Tasks that await nothing are run before the next turn.
Turn == ~(tasks # <<>> /\ Head(tasks).type # "newConsumer")

\* Mutant: the store is told that the client is connecting again.
KeepStore == UNCHANGED <<peers, stored>>

\* SET_ROOM_STATE 'closed'.
ClearStore == peers' = << >> /\ stored' = {}

\* The WebSocket is lost, or the user leaves: the transports close with their
\* Consumers, on both sides.
Disconnected ==
  /\ Turn /\ inRoom
  /\ inRoom' = FALSE /\ wire' = <<>>
  /\ consumers' = {} /\ ClearStore
  /\ status' = [c \in Consumer |-> IF status[c] = "none" THEN "none" ELSE "closed"]
  /\ UNCHANGED <<joined, owner, orphans, tasks, thrown, failed, cut, bounds>>

\* newPeer and peerClosed are dispatched at once: ADD_PEER and REMOVE_PEER.
ReceiveAboutPeer ==
  /\ Turn /\ wire # <<>> /\ Head(wire) \in PeerMessage
  /\ LET i == Head(wire).peer
         Others == DOMAIN peers \ {i}
     IN  peers' = IF Head(wire).type = "newPeer"
                  THEN [j \in Others \cup {i} |-> IF j = i THEN {} ELSE peers[j]]
                  ELSE [j \in Others |-> peers[j]]
  /\ wire' = Tail(wire)
  /\ UNCHANGED <<server, inRoom, tasks, consumers, stored, thrown, failed, cut, bounds>>

\* Mutant: consumerClosed does not go through the queue.
ReceiveAtOnce ==
  /\ Turn /\ wire # <<>> /\ Head(wire) \in ConsumerMessage
  /\ LET c == Head(wire).consumer IN
     \/ /\ Head(wire).type = "consumerClosed"
        /\ consumers' = consumers \ {c}
        /\ RemoveConsumer(c)
        /\ UNCHANGED tasks
     \/ /\ Head(wire).type # "consumerClosed"
        /\ tasks' = Append(tasks, Head(wire))
        /\ UNCHANGED <<consumers, peers, stored>>
  /\ wire' = Tail(wire)
  /\ UNCHANGED <<server, inRoom, thrown, failed, cut, bounds>>

\* What concerns Consumers is pushed on the queue.
ReceiveAboutConsumer ==
  /\ Turn /\ wire # <<>> /\ Head(wire) \in ConsumerMessage
  /\ tasks' = Append(tasks, Head(wire))
  /\ wire' = Tail(wire)
  /\ UNCHANGED <<server, inRoom, consumers, peers, stored, thrown, failed, cut, bounds>>

Settles == tasks # <<>> /\ Head(tasks).type = "newConsumer" /\ tasks' = Tail(tasks)

\* consume() rejects.
ConsumeFailed ==
  /\ Settles /\ failed' = failed \cup {Head(tasks).consumer}
  /\ UNCHANGED <<server, wire, inRoom, consumers, peers, stored, thrown, cut, bounds>>

\* The Consumer enters the Map, and the store unless the reducer throws.
Enters(c, throws) ==
  /\ inRoom /\ consumers' = consumers \cup {c}
  /\ IF throws THEN thrown' = thrown \cup {c} /\ UNCHANGED <<peers, stored>>
     ELSE AddConsumer(c, owner[c]) /\ UNCHANGED thrown
  /\ UNCHANGED <<server, wire, inRoom, failed, cut, bounds>>

\* recvTransport.consume() resolves.
Consumed ==
  /\ Settles /\ Head(tasks).consumer \notin DataConsumer
  /\ Enters(Head(tasks).consumer, owner[Head(tasks).consumer] \notin DOMAIN peers)

\* recvTransport.consumeData() resolves: it may be the Bot's.
DataConsumed ==
  /\ Settles /\ Head(tasks).consumer \in DataConsumer
  /\ Enters(Head(tasks).consumer, owner[Head(tasks).consumer] \notin DOMAIN peers \cup {Bot})

\* The Consumer c leaves the Map, and the store unless the reducer throws.
LeavesMap(c) ==
  /\ consumers' = consumers \ {c}
  /\ \/ c \in consumers /\ ~RemoveThrows(c, owner[c]) /\ RemoveConsumer(c) /\ UNCHANGED thrown
     \/ /\ c \in consumers /\ RemoveThrows(c, owner[c])
        /\ thrown' = thrown \cup {c} /\ UNCHANGED <<peers, stored>>
     \/ c \notin consumers /\ UNCHANGED <<peers, stored, thrown>>
  /\ UNCHANGED <<server, wire, inRoom, failed, cut, bounds>>

\* The task of consumerClosed, of a Consumer in the Map or of an unknown one.
RunClosed ==
  /\ tasks # <<>> /\ Head(tasks).type = "consumerClosed"
  /\ Head(tasks).consumer \notin DataConsumer
  /\ tasks' = Tail(tasks) /\ LeavesMap(Head(tasks).consumer)

\* The task of dataConsumerClosed.
RunDataClosed ==
  /\ tasks # <<>> /\ Head(tasks).type = "consumerClosed"
  /\ Head(tasks).consumer \in DataConsumer
  /\ tasks' = Tail(tasks) /\ LeavesMap(Head(tasks).consumer)

\* The DataChannel of a DataConsumer that the server closed is gone: 'close'
\* takes it out of the Map, ahead of dataConsumerClosed or not.
ChannelClosed(c) ==
  /\ Turn /\ c \in DataConsumer \cap consumers /\ status[c] = "closed"
  /\ consumers' = consumers \ {c} /\ cut' = cut \cup {c}
  /\ UNCHANGED <<server, wire, inRoom, tasks, peers, stored, thrown, failed, bounds>>

\* The task of an update: SET_CONSUMER_PAUSED and its like write the entry of a
\* Consumer of the Map, whether the store has it or not.
RunUpdate ==
  /\ tasks # <<>> /\ Head(tasks).type = "consumerUpdate"
  /\ tasks' = Tail(tasks)
  /\ stored' = stored \cup ({Head(tasks).consumer} \cap consumers)
  /\ UNCHANGED <<server, wire, inRoom, consumers, peers, thrown, failed, cut, bounds>>

-----------------------------------------------------------------------------

Next ==
  \/ \E i \in PeerId : PeerJoins(i) \/ PeerLeaves(i) \/ PeerReplaced(i)
  \/ \E c \in Consumer :
       \/ ConsumerCreated(c) \/ ProducerClosed(c) \/ ConsumerUpdated(c)
       \/ ChannelClosed(c)
       \/ \E i \in PeerId \cup {Bot} : Consume(c, i)
  \/ JoinRoom \/ Disconnected
  \/ ReceiveAboutPeer \/ ReceiveAboutConsumer
  \/ ConsumeFailed \/ Consumed \/ DataConsumed
  \/ RunClosed \/ RunDataClosed \/ RunUpdate

Spec == Init /\ [][Next]_vars

\* Messages arrive while the connection lasts, and the queue runs its tasks.
FairSpec ==
  Spec /\ WF_vars(ReceiveAboutPeer) /\ WF_vars(ReceiveAboutConsumer)
       /\ WF_vars(ConsumeFailed \/ Consumed \/ DataConsumed)
       /\ WF_vars(RunClosed \/ RunDataClosed) /\ WF_vars(RunUpdate)

-----------------------------------------------------------------------------
(* Properties.                                                             *)

\* The peers that list c: a chat message of c is shown as one of theirs, or dropped.
SendingPeers(c) == {i \in DOMAIN peers : c \in peers[i]}

\* The client has handled all that the server sent it.
Quiet == inRoom /\ wire = <<>> /\ tasks = <<>>

\* What the store lists for a peer is that peer's, is in the store, and is in
\* the Map, where the next message about it looks for it; unless it is a
\* DataConsumer whose DataChannel closed before dataConsumerClosed was handled,
\* which is the only way out of the Map that leaves the list as it is.
ListedIsKnown ==
  \A i \in DOMAIN peers : \A c \in peers[i] :
    /\ owner[c] = i /\ c \in stored
    /\ c \in consumers \/ c \in cut

\* Once the client is quiet, a Consumer of a Peer that is still there is listed for
\* it and for no other, whatever leaves and returns its message waited for in the
\* queue: the media are shown, and a chat message has its sender's name.
NothingHidden ==
  Quiet => \A c \in Consumer :
    status[c] = "sent" /\ c \notin orphans \cup failed /\ owner[c] # Bot
      => SendingPeers(c) = {owner[c]}

\* A Consumer that the server closed leaves the Map and the peers' lists, even
\* if its creation was still waiting in the queue.  It stays listed in one case
\* only: the 'close' of its DataChannel took it out of the Map first, and the task
\* of dataConsumerClosed does not find it there.
ClosedConsumerLeaves ==
  \A c \in Consumer :
    (status[c] = "closed" /\ (c \in consumers \/ SendingPeers(c) # {}))
      ~> (c \notin consumers /\ (SendingPeers(c) = {} \/ c \in cut))

\* peers.js throws when a Consumer's peer or a peer's Consumer is not there:
\* it never is so.
NoReducerThrows == thrown = {}

=============================================================================
