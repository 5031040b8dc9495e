--------------------------- MODULE MediaForwarding ---------------------------
(***************************************************************************)
(* Who consumes what in one Room: Producers and DataProducers announced by *)
(* participants, piped to the consumer Router when the Room has two, the   *)
(* consume() of every other joined Peer with its awaits, and the closures. *)
(* (server/src/Room.ts, Peer.ts and BroadcasterPeer.ts.)                   *)
(*                                                                         *)
(* An action is one turn of the event loop.  What is awaited is answered   *)
(* by the mediasoup Worker, which handles the requests of one Router in    *)
(* order.  Two participants are two objects here, whatever their peerIds:  *)
(* RoomMembership says who replaces whom.                                  *)
(***************************************************************************)
EXTENDS Naturals

CONSTANTS
  Peer, BroadcasterPeer,  \* the participants
  AudioVideo,             \* the Producers they may create
  Chat,                   \* the DataProducers of the 'chat' channel
  BotData,                \* the DataProducer of the Bot
  ConsumerReplicas,       \* Room.#consumerReplicas
  NoOne

Participant == Peer \cup BroadcasterPeer
Producer == AudioVideo \cup Chat \cup {BotData}

ASSUME ReplicasAssumption == ConsumerReplicas \in Nat
ASSUME KindsAssumption ==
  /\ Peer \cap BroadcasterPeer = {} /\ AudioVideo \cap Chat = {}
  /\ BotData \notin AudioVideo \cup Chat /\ NoOne \notin Participant

VARIABLES
  usePipeTransports, \* Room.#usePipeTransports: the Room has two Routers
  phase,       \* phase[x]: "out" (unborn or joining), "in" (joined), "closed"
  receivers,   \* the Peers with a transport of direction 'consumer'
  caps,        \* caps[c]: the capabilities c gave in 'join', of which it gave
               \* "sctp" for its transports as well
  told,        \* history: whom c was ever told about
  equipped,    \* history: the Peers that joined as receivers
  owner,       \* owner[p]: who asked for Producer p
  stage,       \* stage[p]: the await p is in, or "announced"
  dead,        \* the Producers that are closed in the Worker
  consumer,    \* consumer[x]: the state of one Consumer
  consumes,    \* history: how often c got past the guards of consume() for p
  ended        \* an unhandled rejection ended the process

room == <<usePipeTransports, phase, receivers, caps, told, equipped>>
vars == <<room, owner, stage, dead, consumer, consumes, ended>>

\* A Producer is consumed 1 + consumerReplicas times, a DataProducer once.
Copies(p) == IF p \in AudioVideo THEN 1 .. 1 + ConsumerReplicas ELSE {1}

Consumer ==
  {x \in Peer \X Producer \X (1 .. 1 + ConsumerReplicas) : x[3] \in Copies(x[2])}

Capability(p) == IF p \in AudioVideo THEN "rtp" ELSE "sctp"

TypeOK ==
  /\ usePipeTransports \in BOOLEAN
  /\ phase \in [Participant -> {"out", "in", "closed"}]
  /\ receivers \subseteq Peer /\ equipped \subseteq Peer
  /\ caps \in [Peer -> SUBSET {"rtp", "sctp"}]
  /\ told \in [Peer -> SUBSET Participant]
  /\ owner \in [Producer -> Participant \cup {NoOne}]
  /\ stage \in [Producer -> {"none", "producing", "piping", "announced", "failed"}]
  /\ \A p \in Producer : stage[p] = "piping" => usePipeTransports
  /\ dead \subseteq Producer
  /\ consumer \in [Consumer -> {"none", "consuming", "sent", "resumed", "closed"}]
  /\ consumes \in [Peer \X Producer -> Nat]
  /\ ended \in BOOLEAN

Init ==
  /\ usePipeTransports \in BOOLEAN
  /\ phase = [x \in Participant |-> "out"]
  /\ receivers = {} /\ equipped = {}
  /\ caps = [c \in Peer |-> {}]
  /\ told = [c \in Peer |-> {}]
  /\ owner = [p \in Producer |-> NoOne]
  /\ stage = [p \in Producer |-> IF p = BotData THEN "announced" ELSE "none"]
  /\ dead = {}
  /\ consumer = [x \in Consumer |-> "none"]
  /\ consumes = [x \in Peer \X Producer |-> 0]
  /\ ended = FALSE

-----------------------------------------------------------------------------
(* Consuming.                                                              *)

Joined(S) == {x \in S : phase[x] = "in"}

\* p is on the consumer Router: there is one Router, or p was piped.
OnConsumerRouter(p) == stage[p] = "announced"

\* The guards of Peer.consume() and consumeData() about the Peer, which gave the
\* capabilities k.
CanReceive(c, p, k) == c \in receivers /\ Capability(p) \in k

\* And about p: canConsume(), or the look-up of consumeData() in the Router.
MayConsume(c, p, k) == CanReceive(c, p, k) /\ OnConsumerRouter(p)

\* Each <<c, p>> of S gets past the guards: its Consumers are requested.  The
\* Worker refuses those of a Producer it does not have any more.
Consume(S) ==
  /\ consumes' = [x \in Peer \X Producer |->
                    consumes[x] + (IF x \in S THEN 1 ELSE 0)]
  /\ consumer' = [x \in Consumer |->
                    IF <<x[1], x[2]>> \in S /\ x[2] \notin dead THEN "consuming"
                    ELSE consumer[x]]

\* The consumer-direction transport is created, before or after 'join'.
CreateConsumerTransport(c) ==
  /\ ~ended /\ phase[c] # "closed" /\ c \notin receivers
  /\ receivers' = receivers \cup {c}
  /\ UNCHANGED <<usePipeTransports, phase, caps, told, equipped, owner, stage,
                 dead, consumer, consumes, ended>>

\* Mutant: the BroadcasterPeers are not walked.
OfOtherPeers(c) == {p \in Producer : owner[p] \in Joined(Peer) \ {c}} \cup {BotData}

\* The Producers a joining Peer is given: those of every other Peer and of every
\* BroadcasterPeer, and the Bot's.
Offered(c) ==
  {p \in Producer : owner[p] \in Joined(Participant) \ {c}} \cup {BotData}

\* Mutant: a second 'join' is accepted.
JoinAgain(c, k) ==
  /\ ~ended /\ phase[c] # "closed"
  /\ phase' = [phase EXCEPT ![c] = "in"]
  /\ caps' = [caps EXCEPT ![c] = k]
  /\ equipped' = IF c \in receivers THEN equipped \cup {c} ELSE equipped
  /\ told' = [d \in Peer |->
       IF d = c THEN Joined(Participant) \ {c}
       ELSE IF phase[d] = "in" THEN told[d] \cup {c} ELSE told[d]]
  /\ Consume({<<c, p>> : p \in {q \in Offered(c) \ dead : MayConsume(c, q, k)}})
  /\ UNCHANGED <<usePipeTransports, receivers, owner, stage, dead, ended>>

\* The 'join' request: the others are told, the joining Peer gets the list of
\* them and consumes the Producers that they still have.
Join(c, k) ==
  /\ ~ended /\ phase[c] = "out"
  /\ phase' = [phase EXCEPT ![c] = "in"]
  /\ caps' = [caps EXCEPT ![c] = k]
  /\ equipped' = IF c \in receivers THEN equipped \cup {c} ELSE equipped
  /\ told' = [d \in Peer |->
       IF d = c THEN Joined(Participant)
       ELSE IF phase[d] = "in" THEN told[d] \cup {c} ELSE told[d]]
  /\ Consume({<<c, p>> : p \in {q \in Offered(c) \ dead : MayConsume(c, q, k)}})
  /\ UNCHANGED <<usePipeTransports, receivers, owner, stage, dead, ended>>

\* The 'join' of a BroadcasterPeer, which is not offered anything.
JoinBroadcaster(b) ==
  /\ ~ended /\ phase[b] = "out"
  /\ phase' = [phase EXCEPT ![b] = "in"]
  /\ told' = [d \in Peer |-> IF phase[d] = "in" THEN told[d] \cup {b} ELSE told[d]]
  /\ UNCHANGED <<usePipeTransports, receivers, caps, equipped, owner, stage, dead,
                 consumer, consumes, ended>>

-----------------------------------------------------------------------------
(* Producing.                                                              *)

\* Mutant: assertJoined() is dropped.
ProduceEarly(o, p) ==
  /\ ~ended /\ phase[o] # "closed" /\ stage[p] = "none"
  /\ p \in AudioVideo \/ o \in Peer
  /\ owner' = [owner EXCEPT ![p] = o]
  /\ stage' = [stage EXCEPT ![p] = "producing"]
  /\ UNCHANGED <<room, dead, consumer, consumes, ended>>

\* A 'produce' or 'produceData' request; BroadcasterPeers have no DataProducers.
Produce(o, p) ==
  /\ ~ended /\ phase[o] = "in" /\ stage[p] = "none"
  /\ p \in AudioVideo \/ o \in Peer
  /\ owner' = [owner EXCEPT ![p] = o]
  /\ stage' = [stage EXCEPT ![p] = "producing"]
  /\ UNCHANGED <<room, dead, consumer, consumes, ended>>

\* The listener of 'new-producer' or 'new-data-producer' once p is where it can
\* be consumed: every other Peer that is joined by now consumes it.
Announce(p) ==
  /\ stage' = [stage EXCEPT ![p] = "announced"]
  /\ Consume({<<c, p>> : c \in {d \in Joined(Peer) \ {owner[p]} :
                                  CanReceive(d, p, caps[d])}})

\* transport.produce() settles, possibly after its owner closed.
ProduceSettled(p) ==
  /\ ~ended /\ stage[p] = "producing"
  /\ \/ /\ stage' = [stage EXCEPT ![p] = "failed"]
        /\ UNCHANGED <<consumer, consumes>>
     \/ /\ usePipeTransports
        /\ stage' = [stage EXCEPT ![p] = "piping"]
        /\ UNCHANGED <<consumer, consumes>>
     \/ ~usePipeTransports /\ Announce(p)
  /\ UNCHANGED <<room, owner, dead, ended>>

\* pipeToRouter() resolves.
PipeResolved(p) ==
  /\ ~ended /\ stage[p] = "piping" /\ p \notin dead
  /\ Announce(p)
  /\ UNCHANGED <<room, owner, dead, ended>>

\* pipeToRouter() of a Producer that closed meanwhile rejects, in a listener that
\* nobody awaits: Node ends the process.
PipeRejected(p) ==
  /\ ~ended /\ stage[p] = "piping" /\ p \in dead
  /\ ended' = TRUE
  /\ UNCHANGED <<room, owner, stage, dead, consumer, consumes>>

-----------------------------------------------------------------------------
(* What the Worker and the client answer.                                  *)

\* transport.consume() settles: the Consumer is sent to the client with a
\* newConsumer request, unless the Peer closed meanwhile.
ConsumeSettled(x) ==
  /\ ~ended /\ consumer[x] = "consuming"
  /\ \E s \in {"closed", IF phase[x[1]] = "closed" THEN "closed" ELSE "sent"} :
       consumer' = [consumer EXCEPT ![x] = s]
  /\ UNCHANGED <<room, owner, stage, dead, consumes, ended>>

\* The client accepts: the Consumer, created paused, is resumed.  A client that
\* rejects leaves it paused.
ClientAccepts(x) ==
  /\ ~ended /\ consumer[x] = "sent"
  /\ consumer' = [consumer EXCEPT ![x] = "resumed"]
  /\ UNCHANGED <<room, owner, stage, dead, consumes, ended>>

\* Mutant: handleConsumer() comes after resume().
ResumedProducerClosed(x) ==
  /\ ~ended /\ consumer[x] = "resumed" /\ x[2] \in dead
  /\ consumer' = [consumer EXCEPT ![x] = "closed"]
  /\ UNCHANGED <<room, owner, stage, dead, consumes, ended>>

\* 'producerclose': the Consumer is deleted and the client notified.
ProducerClosed(x) ==
  /\ ~ended /\ consumer[x] \in {"sent", "resumed"} /\ x[2] \in dead
  /\ consumer' = [consumer EXCEPT ![x] = "closed"]
  /\ UNCHANGED <<room, owner, stage, dead, consumes, ended>>

-----------------------------------------------------------------------------
(* Closures.                                                               *)

\* The 'closeProducer' notification: the client got the producerId before the
\* pipe was ready.
CloseProducer(p) ==
  /\ ~ended /\ stage[p] \in {"piping", "announced"} /\ p \notin dead
  /\ owner[p] # NoOne
  /\ dead' = dead \cup {p}
  /\ UNCHANGED <<room, owner, stage, consumer, consumes, ended>>

\* The participants of S close with their transports: their Producers are closed,
\* those awaited included, and so are their Consumers that were created.
Close(S) ==
  /\ phase' = [x \in Participant |-> IF x \in S THEN "closed" ELSE phase[x]]
  /\ receivers' = receivers \ S
  /\ dead' = dead \cup {p \in Producer : owner[p] \in S /\ stage[p] # "failed"}
  /\ consumer' = [x \in Consumer |->
       IF x[1] \in S /\ consumer[x] \in {"sent", "resumed"} THEN "closed" ELSE consumer[x]]
  /\ UNCHANGED <<usePipeTransports, caps, told, equipped, owner, stage, consumes,
                 ended>>

Leave(x) == ~ended /\ phase[x] # "closed" /\ Close({x})

\* Room.close().
CloseRoom ==
  /\ ~ended /\ \E x \in Participant : phase[x] # "closed"
  /\ Close(Participant)

-----------------------------------------------------------------------------

Next ==
  \/ \E c \in Peer :
       \/ CreateConsumerTransport(c)
       \/ \E k \in SUBSET {"rtp", "sctp"} : Join(c, k)
  \/ \E b \in BroadcasterPeer : JoinBroadcaster(b)
  \/ \E o \in Participant, p \in AudioVideo \cup Chat : Produce(o, p)
  \/ \E p \in Producer :
       ProduceSettled(p) \/ PipeResolved(p) \/ PipeRejected(p) \/ CloseProducer(p)
  \/ \E x \in Consumer : ConsumeSettled(x) \/ ClientAccepts(x) \/ ProducerClosed(x)
  \/ \E x \in Participant : Leave(x)
  \/ CloseRoom

Spec == Init /\ [][Next]_vars

\* The Worker answers, and reports the closure of a Producer to its Consumers.
FairSpec ==
  /\ Spec
  /\ WF_vars(\E x \in Consumer : ConsumeSettled(x))
  /\ WF_vars(\E x \in Consumer : ProducerClosed(x))

-----------------------------------------------------------------------------
(* Properties.                                                             *)

\* No Peer consumes a Producer twice, once at its 'join' and once when the
\* Producer is announced, however join, produce and pipe overlap.
ConsumedAtMostOnce == \A x \in Peer \X Producer : consumes[x] <= 1

\* What a Peer that was ready when it joined can consume, it does: no Producer
\* falls between the walk of 'join' and the announcement.
NothingMissed ==
  \A c \in Joined(Peer) \cap equipped : \A p \in Producer \ dead :
    OnConsumerRouter(p) /\ owner[p] # c /\ Capability(p) \in caps[c]
      => consumes[<<c, p>>] >= 1

\* A client is asked to consume a Producer only after it was told of the owner,
\* in the answer to 'join' or by 'newPeer'.
ToldBeforeAsked ==
  \A x \in Consumer : consumer[x] \in {"sent", "resumed"} /\ x[2] # BotData
    => owner[x[2]] \in told[x[1]]

\* A Consumer does not outlive its Producer, even if the two crossed.
NoLastingOrphan ==
  \A x \in Consumer :
    (x[2] \in dead /\ consumer[x] # "none") ~> (consumer[x] = "closed" \/ ended)

=============================================================================
