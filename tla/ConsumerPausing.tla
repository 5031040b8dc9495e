--------------------------- MODULE ConsumerPausing ---------------------------
(***************************************************************************)
(* Who pauses a Consumer: the server until the client is ready for it, the *)
(* Producer's side (remote pause), the client in audio-only mode (local    *)
(* pause); and what the client wishes of it (layers).  The server's Peer   *)
(* (server/src/Peer.ts), RoomClient.js, the consumers reducer and Peer.jsx *)
(* are composed over two FIFO channels; the client's awaitqueue is the     *)
(* rest of the channel down to it, since both keep the order.              *)
(*                                                                         *)
(* One WebSocket: what its loss does is in ClientConsuming.                *)
(***************************************************************************)
EXTENDS Naturals, Sequences, FiniteSets, SequencesExt

CONSTANTS
  Audio, Video,  \* the Consumers by kind, each of a Producer of its own
  MaxChanges,    \* bound: how often Producers are paused and resumed
  MaxWire        \* bound: messages under way to the server when a button is pressed

ASSUME ConsumersAssumption ==
  /\ Audio \cap Video = {} /\ MaxChanges \in Nat /\ MaxWire \in Nat

Consumer == Audio \cup Video

VARIABLES
  producerPaused, \* the paused Producers
  producers,      \* the open Producers
  server,         \* Peer.#consumers: the Consumers that are open
  paused,         \* those of them that the server has paused
  layers,         \* the layers that the server prefers for each Consumer
  down, up,       \* messages under way to the client and to the server
  known,          \* RoomClient._consumers and the store's consumers
  halted,         \* those whose mediasoup-client object is paused
  locally,        \* those that the store shows as locallyPaused
  remotely,       \* and as remotelyPaused
  wished,         \* the preferred layers in the store
  audioOnly,      \* the store's audioOnly
  refused,        \* history: Consumers that the client failed to create
  changes         \* bounded counter

source == <<producerPaused, producers, changes>>
peer == <<server, paused, layers>>
client == <<known, halted, locally, remotely, wished, audioOnly, refused>>
vars == <<source, peer, down, up, client>>

Layers == {"low", "high"}

TypeOK ==
  /\ producerPaused \subseteq Consumer /\ producers \subseteq Consumer
  /\ server \subseteq Consumer /\ paused \subseteq server
  /\ layers \in [Consumer -> Layers] /\ wished \in [Consumer -> Layers]
  /\ known \subseteq Consumer /\ halted \subseteq known
  /\ locally \subseteq known \cap Video /\ remotely \subseteq known
  /\ audioOnly \in BOOLEAN /\ refused \subseteq Consumer \ known
  /\ changes \in 0 .. MaxChanges
  /\ down \in Seq([type: {"newConsumer", "consumerPaused", "consumerResumed",
                          "consumerClosed"}, id: Consumer, paused: BOOLEAN])
  /\ up \in Seq([type: {"accept", "pauseConsumer", "resumeConsumer",
                        "setConsumerPreferredLayers"}, id: Consumer, layers: Layers])

Init ==
  /\ producerPaused = {} /\ producers = Consumer /\ changes = 0
  /\ server = {} /\ paused = {} /\ layers = [c \in Consumer |-> "high"]
  /\ down = <<>> /\ up = <<>>
  /\ known = {} /\ halted = {} /\ locally = {} /\ remotely = {}
  /\ wished = [c \in Consumer |-> "high"] /\ audioOnly = FALSE /\ refused = {}

-----------------------------------------------------------------------------
(* The server.                                                             *)

Down(type, c) == [type |-> type, id |-> c, paused |-> c \in producerPaused]
Up(type, c) == [type |-> type, id |-> c, layers |-> wished[c]]

\* Tells the client, if it has a Consumer of the Producer.
Notified(type, c) == down' = IF c \in server THEN Append(down, Down(type, c)) ELSE down

\* consume(): a Consumer is created paused, and the client is asked to create its
\* own.
Consume(c) ==
  /\ c \in producers \ server
  /\ \A i \in DOMAIN down : down[i].id # c
  /\ c \notin known \cup refused
  /\ server' = server \cup {c} /\ paused' = paused \cup {c}
  /\ down' = Append(down, Down("newConsumer", c))
  /\ UNCHANGED <<source, layers, up, client>>

\* The Producer of c is paused or resumed: a notification that the server takes
\* from any client about any of its Producers.
PauseProducer(c) ==
  /\ c \in producers \ producerPaused /\ changes < MaxChanges
  /\ producerPaused' = producerPaused \cup {c} /\ changes' = changes + 1
  /\ Notified("consumerPaused", c)
  /\ UNCHANGED <<producers, peer, up, client>>

ResumeProducer(c) ==
  /\ c \in producers \cap producerPaused /\ changes < MaxChanges
  /\ producerPaused' = producerPaused \ {c} /\ changes' = changes + 1
  /\ Notified("consumerResumed", c)
  /\ UNCHANGED <<producers, peer, up, client>>

CloseProducer(c) ==
  /\ c \in producers /\ producers' = producers \ {c}
  /\ producerPaused' = producerPaused \ {c}
  /\ server' = server \ {c} /\ paused' = paused \ {c}
  /\ Notified("consumerClosed", c)
  /\ UNCHANGED <<changes, layers, up, client>>

\* Mutant: an answer that comes late is not waited for.
AcceptedLater(m) ==
  /\ m.type = "accept"
  /\ UNCHANGED paused

\* The client is ready: consumer.resume(), which fails for a closed one.
Accepted(m) == m.type = "accept" /\ paused' = paused \ {m.id}

\* handleProtooNotification(): a Consumer that is gone is a warning.
Found(m) == {m.id} \cap server

PauseConsumer(m) == m.type = "pauseConsumer" /\ paused' = paused \cup Found(m)
ResumeConsumer(m) == m.type = "resumeConsumer" /\ paused' = paused \ Found(m)

SetConsumerPreferredLayers(m) ==
  /\ m.type = "setConsumerPreferredLayers"
  /\ layers' = [c \in Consumer |-> IF c \in Found(m) THEN m.layers ELSE layers[c]]

Serve ==
  /\ up # <<>> /\ up' = Tail(up)
  /\ LET m == Head(up) IN
     \/ (Accepted(m) \/ PauseConsumer(m) \/ ResumeConsumer(m)) /\ UNCHANGED layers
     \/ SetConsumerPreferredLayers(m) /\ UNCHANGED paused
  /\ UNCHANGED <<source, server, down, client>>

-----------------------------------------------------------------------------
(* The store.                                                              *)

\* SET_CONSUMER_PAUSED, SET_CONSUMER_RESUMED, by whom the pause is.
ShowPaused(S, originator) ==
  /\ locally' = IF originator = "local" THEN locally \cup S ELSE locally
  /\ remotely' = IF originator = "remote" THEN remotely \cup S ELSE remotely

ShowResumed(S, originator) ==
  /\ locally' = IF originator = "local" THEN locally \ S ELSE locally
  /\ remotely' = IF originator = "remote" THEN remotely \ S ELSE remotely

\* SET_CONSUMER_PREFERRED_LAYERS.
ShowPreferredLayers(c, l) == wished' = [wished EXCEPT ![c] = l]

-----------------------------------------------------------------------------
(* The client.                                                             *)

Receives(type) == down # <<>> /\ Head(down).type = type /\ down' = Tail(down)

\* recvTransport.consume() resolved: the Consumer is shown, accepted, and paused
\* in audio-only mode.
NewConsumer ==
  /\ Receives("newConsumer")
  /\ LET c == Head(down).id
         pauses == c \in Video /\ audioOnly IN
     /\ known' = known \cup {c}
     /\ remotely' = IF Head(down).paused THEN remotely \cup {c} ELSE remotely
     /\ halted' = IF pauses THEN halted \cup {c} ELSE halted
     /\ locally' = IF pauses THEN locally \cup {c} ELSE locally
     /\ up' = up \o <<Up("accept", c)>>
              \o (IF pauses THEN <<Up("pauseConsumer", c)>> ELSE <<>>)
  /\ UNCHANGED <<source, peer, wished, audioOnly, refused>>

\* It rejected: nobody answers the server.
NewConsumerFailed ==
  /\ Receives("newConsumer")
  /\ refused' = refused \cup {Head(down).id}
  /\ UNCHANGED <<source, peer, up, known, halted, locally, remotely, wished, audioOnly>>

\* Of an unknown Consumer, the next three are a warning.
ConsumerPaused ==
  /\ Receives("consumerPaused")
  /\ halted' = halted \cup ({Head(down).id} \cap known)
  /\ ShowPaused({Head(down).id} \cap known, "remote")
  /\ UNCHANGED <<source, peer, up, known, wished, audioOnly, refused>>

ConsumerResumed ==
  /\ Receives("consumerResumed")
  /\ halted' = halted \ {Head(down).id}
  /\ ShowResumed({Head(down).id} \cap known, "remote")
  /\ UNCHANGED <<source, peer, up, known, wished, audioOnly, refused>>

ConsumerClosed ==
  /\ Receives("consumerClosed")
  /\ LET gone == {Head(down).id} IN
     /\ known' = known \ gone /\ halted' = halted \ gone
     /\ locally' = locally \ gone /\ remotely' = remotely \ gone
  /\ UNCHANGED <<source, peer, up, wished, audioOnly, refused>>

\* The messages about the Consumers of a set, in some order.
Messages(type, S) == [i \in 1 .. Cardinality(S) |-> Up(type, SetToSeq(S)[i])]

\* Mutant: all of them are shown as paused, the server is told of some.
PauseShown ==
  LET S == known \cap Video IN
  /\ up' = up \o Messages("pauseConsumer", S \ halted)
  /\ halted' = halted \cup S /\ ShowPaused(S, "local")

\* _pauseConsumer() for the video Consumers: those that are paused, by whomever,
\* are left alone.
PauseVideo ==
  LET S == (known \cap Video) \ halted IN
  /\ up' = up \o Messages("pauseConsumer", S)
  /\ halted' = halted \cup S /\ ShowPaused(S, "local")

\* _resumeConsumer(): likewise those that are not paused.
ResumeVideo ==
  LET S == known \cap Video \cap halted IN
  /\ up' = up \o Messages("resumeConsumer", S)
  /\ halted' = halted \ S /\ ShowResumed(S, "local")

\* The two states of a button; the webcam they concern too is in ClientProducing.
EnableAudioOnly ==
  /\ ~audioOnly /\ audioOnly' = TRUE /\ Len(up) < MaxWire
  /\ PauseVideo
  /\ UNCHANGED <<source, peer, down, known, wished, refused>>

DisableAudioOnly ==
  /\ audioOnly /\ audioOnly' = FALSE /\ Len(up) < MaxWire
  /\ ResumeVideo
  /\ UNCHANGED <<source, peer, down, known, wished, refused>>

\* The store shows the wish at once.
WishLayers(c) ==
  /\ c \in known \cap Video /\ Len(up) < MaxWire
  /\ \E l \in Layers \ {wished[c]} :
       /\ ShowPreferredLayers(c, l)
       /\ up' = Append(up, [Up("setConsumerPreferredLayers", c) EXCEPT !.layers = l])
  /\ UNCHANGED <<source, peer, down, known, halted, locally, remotely, audioOnly, refused>>

-----------------------------------------------------------------------------

Next ==
  \/ \E c \in Consumer :
       \/ Consume(c) \/ PauseProducer(c) \/ ResumeProducer(c) \/ CloseProducer(c)
       \/ WishLayers(c)
  \/ Serve
  \/ NewConsumer \/ NewConsumerFailed
  \/ ConsumerPaused \/ ConsumerResumed \/ ConsumerClosed
  \/ EnableAudioOnly \/ DisableAudioOnly

Spec == Init /\ [][Next]_vars

-----------------------------------------------------------------------------
(* Properties.                                                             *)

Quiet == down = <<>> /\ up = <<>>

\* What a user sees of a Consumer (Peer.jsx), and what the server sends of it.
Visible == known \ (locally \cup remotely)
Forwarded == server \ (paused \cup producerPaused)

\* When nothing is under way, the video and audio shown as running are those that
\* the server forwards, whatever order the three pauses came in.
ShownIsForwarded == Quiet => Visible = Forwarded

\* And each pause is shown as what it is: the user's is the one that the server
\* keeps in the Consumer, the remote one is the Producer's.
PausesAreToldApart ==
  Quiet => \A c \in known :
    /\ c \in locally <=> c \in paused
    /\ c \in remotely <=> c \in producerPaused
    /\ wished[c] = layers[c]

=============================================================================
