----------------------- MODULE MediaForwarding_proofs -----------------------
(***************************************************************************)
(* Proofs about MediaForwarding, for any number of participants, Producers *)
(* and replicas: no Producer is consumed twice or missed, and no client is *)
(* asked to consume from a participant it was not told of.                 *)
(***************************************************************************)
EXTENDS MediaForwarding, TLAPS

USE ReplicasAssumption, KindsAssumption

\* consume() has got through for p only if the Peer has joined and p is there.
Counted ==
  \A c \in Peer, p \in Producer :
    consumes[<<c, p>>] > 0 =>
      consumes[<<c, p>>] = 1 /\ phase[c] # "out" /\ stage[p] = "announced"

\* A Consumer exists only when consume() has got through.
ConsumersCounted ==
  \A x \in Consumer : consumer[x] # "none" => consumes[<<x[1], x[2]>>] > 0

\* A Producer that is not closed has an owner that is there.
OwnersPresent ==
  \A p \in Producer \ dead :
    stage[p] \in {"producing", "piping", "announced"} /\ p # BotData
      => owner[p] \in Joined(Participant)

\* The Bot's DataProducer is nobody's, and always there.
BotAnnounced == stage[BotData] = "announced" /\ owner[BotData] = NoOne

\* A joined Peer was told of every other participant that is joined.
Acquainted ==
  \A c \in Joined(Peer) : \A y \in Joined(Participant) \ {c} : y \in told[c]

\* A Peer that joined as a receiver is one until it closes.
Receiving ==
  \A c \in equipped : phase[c] # "out" /\ (phase[c] = "in" => c \in receivers)

\* ToldBeforeAsked, from the request of the Consumer on.
ToldOfOwner ==
  \A x \in Consumer :
    consumer[x] \in {"consuming", "sent", "resumed"} /\ x[2] # BotData
      => owner[x[2]] \in told[x[1]]

IInv ==
  /\ TypeOK /\ Counted /\ ConsumersCounted /\ OwnersPresent /\ BotAnnounced
  /\ Acquainted /\ Receiving /\ NothingMissed /\ ToldOfOwner

-----------------------------------------------------------------------------
(* What Consume(S) does.                                                   *)

LEMMA ConsumerParts ==
  ASSUME NEW x \in Consumer
  PROVE  x[1] \in Peer /\ x[2] \in Producer /\ <<x[1], x[2]>> \in Peer \X Producer
BY DEF Consumer

LEMMA ConsumeType ==
  ASSUME TypeOK, NEW S, Consume(S)
  PROVE  /\ consumes' \in [Peer \X Producer -> Nat]
         /\ consumer' \in [Consumer -> {"none", "consuming", "sent", "resumed", "closed"}]
BY DEF TypeOK, Consume

LEMMA ConsumeCounts ==
  ASSUME TypeOK, NEW S, Consume(S), NEW c \in Peer, NEW p \in Producer
  PROVE  consumes'[<<c, p>>] = consumes[<<c, p>>] + (IF <<c, p>> \in S THEN 1 ELSE 0)
BY DEF TypeOK, Consume

LEMMA ConsumeStates ==
  ASSUME TypeOK, NEW S, Consume(S), NEW x \in Consumer
  PROVE  consumer'[x] = IF <<x[1], x[2]>> \in S /\ x[2] \notin dead
                        THEN "consuming" ELSE consumer[x]
BY DEF TypeOK, Consume

-----------------------------------------------------------------------------

LEMMA Initially ==
  ASSUME Init
  PROVE  IInv
<1>1. TypeOK
  BY DEF Init, TypeOK, Producer, Participant
<1>2. Counted /\ ConsumersCounted
  BY DEF Init, Counted, ConsumersCounted
<1>3. OwnersPresent /\ BotAnnounced
  BY DEF Init, OwnersPresent, BotAnnounced, Producer
<1>4. Joined(Peer) = {} /\ Joined(Participant) = {}
  BY DEF Init, Joined, Participant
<1>5. Acquainted /\ Receiving /\ NothingMissed
  BY <1>4 DEF Init, Acquainted, Receiving, NothingMissed
<1>6. ToldOfOwner
  BY DEF Init, ToldOfOwner
<1> QED BY <1>1, <1>2, <1>3, <1>5, <1>6 DEF IInv

\* The Peer that joins has consumed nothing yet, is told of everybody who is
\* there, and takes what they have on the consumer Router.
LEMMA StepJoin ==
  ASSUME IInv, NEW c \in Peer, NEW k \in SUBSET {"rtp", "sctp"}, Join(c, k)
  PROVE  IInv'
<1> DEFINE S == {<<c, p>> : p \in {q \in Offered(c) \ dead : MayConsume(c, q, k)}}
<1> USE DEF IInv
<1>1. /\ phase[c] = "out" /\ Consume(S)
      /\ phase' = [phase EXCEPT ![c] = "in"] /\ caps' = [caps EXCEPT ![c] = k]
      /\ equipped' = IF c \in receivers THEN equipped \cup {c} ELSE equipped
      /\ told' = [d \in Peer |->
           IF d = c THEN Joined(Participant)
           ELSE IF phase[d] = "in" THEN told[d] \cup {c} ELSE told[d]]
      /\ UNCHANGED <<usePipeTransports, receivers, owner, stage, dead, ended>>
  BY DEF Join
<1>2. c \in Participant /\ phase'[c] = "in"
      /\ \A y \in Participant \ {c} : phase'[y] = phase[y]
  BY <1>1 DEF TypeOK, Participant
<1>3. Joined(Peer)' = Joined(Peer) \cup {c}
      /\ Joined(Participant)' = Joined(Participant) \cup {c}
  BY <1>2 DEF Joined, Participant
<1>4. \A d \in Peer, p \in Producer :
        <<d, p>> \in S <=> d = c /\ p \in Offered(c) \ dead /\ MayConsume(c, p, k)
  BY DEF Offered
<1>5. TypeOK'
  <2>1. told' \in [Peer -> SUBSET Participant]
    BY <1>1, <1>2 DEF TypeOK, Joined
  <2> QED BY <1>1, <1>2, <2>1, ConsumeType DEF TypeOK
<1>6. Counted'
  <2> SUFFICES ASSUME NEW d \in Peer, NEW p \in Producer, consumes'[<<d, p>>] > 0
               PROVE  consumes'[<<d, p>>] = 1 /\ phase'[d] # "out"
                      /\ stage'[p] = "announced"
    BY DEF Counted
  <2>1. consumes[<<d, p>>] \in Nat
    BY DEF TypeOK
  <2>2. CASE d = c
    <3>1. consumes[<<d, p>>] = 0
      BY <1>1, <2>1, <2>2 DEF Counted
    <3>2. <<d, p>> \in S
      BY <1>1, <3>1, ConsumeCounts
    <3>3. stage[p] = "announced"
      BY <1>4, <3>2 DEF MayConsume, OnConsumerRouter
    <3> QED BY <1>1, <1>2, <2>2, <3>1, <3>2, <3>3, ConsumeCounts
  <2>3. CASE d # c
    <3>1. consumes'[<<d, p>>] = consumes[<<d, p>>]
      BY <1>1, <1>4, <2>1, <2>3, ConsumeCounts
    <3> QED BY <1>1, <1>2, <2>3, <3>1 DEF Counted, Participant
  <2> QED BY <2>2, <2>3
<1>7. ConsumersCounted'
  <2> SUFFICES ASSUME NEW x \in Consumer, consumer'[x] # "none"
               PROVE  consumes'[<<x[1], x[2]>>] > 0
    BY DEF ConsumersCounted
  <2>1. x[1] \in Peer /\ x[2] \in Producer /\ consumes[<<x[1], x[2]>>] \in Nat
    BY ConsumerParts DEF TypeOK
  <2>2. consumes[<<x[1], x[2]>>] > 0 \/ <<x[1], x[2]>> \in S
    BY <1>1, ConsumeStates DEF ConsumersCounted
  <2> QED BY <1>1, <2>1, <2>2, ConsumeCounts
<1>8. OwnersPresent' /\ BotAnnounced'
  BY <1>1, <1>3 DEF OwnersPresent, BotAnnounced
<1>9. Acquainted'
  BY <1>1, <1>2, <1>3 DEF Acquainted, Joined, TypeOK
<1>10. Receiving'
  BY <1>1, <1>2 DEF Receiving, TypeOK, Participant
<1>11. NothingMissed'
  <2> SUFFICES ASSUME NEW d \in Joined(Peer)' \cap equipped', NEW p \in Producer \ dead,
                      stage[p] = "announced", owner[p] # d, Capability(p) \in caps'[d]
               PROVE  consumes'[<<d, p>>] >= 1
    BY <1>1 DEF NothingMissed, OnConsumerRouter
  <2>1. d \in Peer /\ consumes[<<d, p>>] \in Nat
    BY DEF Joined, TypeOK
  <2>2. CASE d = c
    <3>1. c \in receivers /\ caps'[d] = k
      <4>1. c \notin equipped
        BY <1>1 DEF Receiving
      <4> QED BY <1>1, <2>2, <4>1 DEF TypeOK
    <3>2. p \in Offered(c)
      BY <2>2 DEF OwnersPresent, Offered, Joined
    <3>3. <<d, p>> \in S
      BY <1>4, <2>2, <3>1, <3>2 DEF MayConsume, CanReceive, OnConsumerRouter
    <3> QED BY <1>1, <2>1, <3>3, ConsumeCounts
  <2>3. CASE d # c
    <3>1. consumes[<<d, p>>] >= 1
      BY <1>1, <1>3, <2>3 DEF NothingMissed, OnConsumerRouter, TypeOK
    <3> QED BY <1>1, <2>1, <3>1, ConsumeCounts
  <2> QED BY <2>2, <2>3
<1>12. ToldOfOwner'
  <2> SUFFICES ASSUME NEW x \in Consumer, x[2] # BotData,
                      consumer'[x] \in {"consuming", "sent", "resumed"}
               PROVE  owner[x[2]] \in told'[x[1]]
    BY <1>1 DEF ToldOfOwner
  <2>1. x[1] \in Peer /\ x[2] \in Producer
    BY ConsumerParts
  <2>2. CASE <<x[1], x[2]>> \in S
    <3>1. x[1] = c /\ owner[x[2]] \in Joined(Participant)
      BY <1>4, <2>1, <2>2 DEF Offered, Joined, Participant
    <3> QED BY <1>1, <2>1, <3>1
  <2>3. CASE <<x[1], x[2]>> \notin S
    <3>1. consumer[x] \in {"consuming", "sent", "resumed"}
      BY <1>1, <2>3, ConsumeStates
    <3>2. x[1] # c
      BY <1>1, <2>1, <3>1 DEF ConsumersCounted, Counted
    <3> QED BY <1>1, <2>1, <3>1, <3>2 DEF ToldOfOwner
  <2> QED BY <2>2, <2>3
<1> QED BY <1>5, <1>6, <1>7, <1>8, <1>9, <1>10, <1>11, <1>12

\* The announcement of a Producer that nobody has consumed: every Peer that is
\* joined by now takes it, unless it is dead.
LEMMA StepAnnounce ==
  ASSUME IInv, NEW p \in Producer, stage[p] \in {"producing", "piping"},
         Announce(p), UNCHANGED <<room, owner, dead, ended>>
  PROVE  IInv'
<1> DEFINE S == {<<c, p>> : c \in {d \in Joined(Peer) \ {owner[p]} :
                                     CanReceive(d, p, caps[d])}}
<1> USE DEF IInv, room
<1>1. stage' = [stage EXCEPT ![p] = "announced"] /\ Consume(S)
  BY DEF Announce
<1>2. p # BotData
  BY DEF BotAnnounced
<1>3. \A d \in Peer, q \in Producer :
        <<d, q>> \in S <=> q = p /\ d \in Joined(Peer) \ {owner[p]}
                          /\ CanReceive(d, p, caps[d])
  BY DEF Joined
<1>4. Joined(Peer)' = Joined(Peer) /\ Joined(Participant)' = Joined(Participant)
  BY DEF Joined
<1>5. stage'[p] = "announced" /\ \A q \in Producer \ {p} : stage'[q] = stage[q]
  BY <1>1 DEF TypeOK
<1>6. TypeOK'
  BY <1>1, <1>5, ConsumeType DEF TypeOK
<1>7. Counted'
  <2> SUFFICES ASSUME NEW d \in Peer, NEW q \in Producer, consumes'[<<d, q>>] > 0
               PROVE  consumes'[<<d, q>>] = 1 /\ phase[d] # "out"
                      /\ stage'[q] = "announced"
    BY DEF Counted
  <2>1. consumes[<<d, q>>] \in Nat
    BY DEF TypeOK
  <2>2. CASE q = p
    <3>1. consumes[<<d, q>>] = 0
      BY <2>1, <2>2 DEF Counted
    <3>2. <<d, q>> \in S
      BY <1>1, <3>1, ConsumeCounts
    <3> QED BY <1>1, <1>3, <1>5, <2>2, <3>1, <3>2, ConsumeCounts DEF Joined
  <2>3. CASE q # p
    <3>1. consumes'[<<d, q>>] = consumes[<<d, q>>]
      BY <1>1, <1>3, <2>1, <2>3, ConsumeCounts
    <3> QED BY <1>5, <2>3, <3>1 DEF Counted
  <2> QED BY <2>2, <2>3
<1>8. ConsumersCounted'
  <2> SUFFICES ASSUME NEW x \in Consumer, consumer'[x] # "none"
               PROVE  consumes'[<<x[1], x[2]>>] > 0
    BY DEF ConsumersCounted
  <2>1. x[1] \in Peer /\ x[2] \in Producer /\ consumes[<<x[1], x[2]>>] \in Nat
    BY ConsumerParts DEF TypeOK
  <2>2. consumes[<<x[1], x[2]>>] > 0 \/ <<x[1], x[2]>> \in S
    BY <1>1, ConsumeStates DEF ConsumersCounted
  <2> QED BY <1>1, <2>1, <2>2, ConsumeCounts
<1>9. OwnersPresent' /\ BotAnnounced'
  BY <1>2, <1>4, <1>5 DEF OwnersPresent, BotAnnounced, Producer
<1>10. Acquainted' /\ Receiving'
  BY <1>4 DEF Acquainted, Receiving
<1>11. NothingMissed'
  <2> SUFFICES ASSUME NEW d \in Joined(Peer) \cap equipped, NEW q \in Producer \ dead,
                      stage'[q] = "announced", owner[q] # d, Capability(q) \in caps[d]
               PROVE  consumes'[<<d, q>>] >= 1
    BY <1>4 DEF NothingMissed, OnConsumerRouter
  <2>1. d \in Peer /\ consumes[<<d, q>>] \in Nat
    BY DEF Joined, TypeOK
  <2>2. CASE q = p
    <3>1. CanReceive(d, p, caps[d])
      BY <2>2 DEF Receiving, CanReceive, Joined
    <3>2. <<d, q>> \in S
      BY <1>3, <2>1, <2>2, <3>1
    <3> QED BY <1>1, <2>1, <3>2, ConsumeCounts
  <2>3. CASE q # p
    <3>1. consumes[<<d, q>>] >= 1
      BY <1>5, <2>3 DEF NothingMissed, OnConsumerRouter
    <3> QED BY <1>1, <2>1, <3>1, ConsumeCounts
  <2> QED BY <2>2, <2>3
<1>12. ToldOfOwner'
  <2> SUFFICES ASSUME NEW x \in Consumer, x[2] # BotData,
                      consumer'[x] \in {"consuming", "sent", "resumed"}
               PROVE  owner[x[2]] \in told[x[1]]
    BY DEF ToldOfOwner
  <2>1. x[1] \in Peer /\ x[2] \in Producer
    BY ConsumerParts
  <2>2. CASE <<x[1], x[2]>> \in S /\ x[2] \notin dead
    <3>1. x[2] = p /\ x[1] \in Joined(Peer) \ {owner[p]}
      BY <1>3, <2>1, <2>2
    <3>2. owner[p] \in Joined(Participant)
      BY <1>2, <2>2, <3>1 DEF OwnersPresent
    <3> QED BY <3>1, <3>2 DEF Acquainted
  <2>3. CASE ~(<<x[1], x[2]>> \in S /\ x[2] \notin dead)
    BY <1>1, <2>3, ConsumeStates DEF ToldOfOwner
  <2> QED BY <2>2, <2>3
<1> QED BY <1>6, <1>7, <1>8, <1>9, <1>10, <1>11, <1>12

\* The answers of the Worker and of the client move one Consumer, to "sent" only
\* if it was requested.
LEMMA StepConsumer ==
  ASSUME IInv, NEW x \in Consumer,
         ConsumeSettled(x) \/ ClientAccepts(x) \/ ProducerClosed(x)
  PROVE  IInv'
<1> USE DEF IInv
<1>1. /\ consumer[x] \in {"consuming", "sent", "resumed"}
      /\ UNCHANGED <<room, owner, stage, dead, consumes, ended>>
  BY DEF ConsumeSettled, ClientAccepts, ProducerClosed
<1>2. PICK s \in {"sent", "resumed", "closed"} : consumer' = [consumer EXCEPT ![x] = s]
  BY DEF ConsumeSettled, ClientAccepts, ProducerClosed
<1>3. TypeOK'
  BY <1>1, <1>2 DEF TypeOK, room
<1>4. Counted' /\ OwnersPresent' /\ BotAnnounced'
  BY <1>1 DEF Counted, OwnersPresent, BotAnnounced, Joined, room
<1>5. Acquainted' /\ Receiving' /\ NothingMissed'
  BY <1>1 DEF Acquainted, Receiving, NothingMissed, Joined, OnConsumerRouter, room
<1>6. \A y \in Consumer : consumer'[y] = consumer[y] \/ y = x
  BY <1>2 DEF TypeOK
<1>7. ConsumersCounted'
  BY <1>1, <1>6 DEF ConsumersCounted
<1>8. ToldOfOwner'
  BY <1>1, <1>6 DEF ToldOfOwner, room
<1> QED BY <1>3, <1>4, <1>5, <1>7, <1>8

\* Closing participants closes what they own; nothing else depends on them.
LEMMA StepClose ==
  ASSUME IInv, NEW S \in SUBSET Participant, Close(S)
  PROVE  IInv'
<1> USE DEF IInv
<1>1. /\ phase' = [x \in Participant |-> IF x \in S THEN "closed" ELSE phase[x]]
      /\ receivers' = receivers \ S
      /\ dead' = dead \cup {p \in Producer : owner[p] \in S /\ stage[p] # "failed"}
      /\ consumer' = [x \in Consumer |->
           IF x[1] \in S /\ consumer[x] \in {"sent", "resumed"} THEN "closed"
           ELSE consumer[x]]
      /\ UNCHANGED <<usePipeTransports, caps, told, equipped, owner, stage, consumes,
                     ended>>
  BY DEF Close
<1>2. Peer \subseteq Participant
  BY DEF Participant
<1>3. /\ \A x \in Participant : phase'[x] = IF x \in S THEN "closed" ELSE phase[x]
      /\ Joined(Peer)' = Joined(Peer) \ S
      /\ Joined(Participant)' = Joined(Participant) \ S
  BY <1>1, <1>2 DEF Joined
<1>4. TypeOK'
  BY <1>1 DEF TypeOK
<1>5. Counted' /\ BotAnnounced'
  BY <1>1, <1>2, <1>3 DEF Counted, BotAnnounced
<1>6. ConsumersCounted'
  BY <1>1 DEF ConsumersCounted
<1>7. OwnersPresent'
  BY <1>1, <1>3 DEF OwnersPresent
<1>8. Acquainted'
  BY <1>1, <1>3 DEF Acquainted
<1>9. Receiving'
  BY <1>1, <1>2, <1>3 DEF Receiving, TypeOK
<1>10. NothingMissed'
  BY <1>1, <1>3 DEF NothingMissed, OnConsumerRouter
<1>11. ToldOfOwner'
  BY <1>1 DEF ToldOfOwner
<1> QED BY <1>4, <1>5, <1>6, <1>7, <1>8, <1>9, <1>10, <1>11

\* A transport more makes a Peer receive, and takes nothing from it.
LEMMA StepTransport ==
  ASSUME IInv, NEW c \in Peer, CreateConsumerTransport(c)
  PROVE  IInv'
<1> USE DEF IInv, CreateConsumerTransport
<1>1. TypeOK' /\ Counted' /\ ConsumersCounted'
  BY DEF TypeOK, Counted, ConsumersCounted
<1>2. OwnersPresent' /\ BotAnnounced' /\ Acquainted'
  BY DEF OwnersPresent, BotAnnounced, Acquainted, Joined
<1>3. Receiving' /\ NothingMissed' /\ ToldOfOwner'
  BY DEF Receiving, NothingMissed, ToldOfOwner, Joined, OnConsumerRouter
<1> QED BY <1>1, <1>2, <1>3

\* A BroadcasterPeer that joins has no Producer yet, and is made known.
LEMMA StepJoinBroadcaster ==
  ASSUME IInv, NEW b \in BroadcasterPeer, JoinBroadcaster(b)
  PROVE  IInv'
<1> USE DEF IInv
<1>1. /\ phase[b] = "out" /\ phase' = [phase EXCEPT ![b] = "in"]
      /\ told' = [d \in Peer |-> IF phase[d] = "in" THEN told[d] \cup {b} ELSE told[d]]
      /\ UNCHANGED <<usePipeTransports, receivers, caps, equipped, owner, stage, dead,
                     consumer, consumes, ended>>
  BY DEF JoinBroadcaster
<1>2. b \in Participant \ Peer /\ Peer \subseteq Participant
  BY DEF Participant
<1>3. /\ \A x \in Participant : phase'[x] = IF x = b THEN "in" ELSE phase[x]
      /\ Joined(Peer)' = Joined(Peer)
      /\ Joined(Participant)' = Joined(Participant) \cup {b}
  BY <1>1, <1>2 DEF Joined, TypeOK
<1>4. TypeOK'
  BY <1>1, <1>2 DEF TypeOK
<1>5. Counted' /\ ConsumersCounted' /\ BotAnnounced'
  BY <1>1, <1>2, <1>3 DEF Counted, ConsumersCounted, BotAnnounced
<1>6. OwnersPresent' /\ NothingMissed'
  BY <1>1, <1>3 DEF OwnersPresent, NothingMissed, OnConsumerRouter
<1>7. Acquainted'
  BY <1>1, <1>3 DEF Acquainted, Joined
<1>8. Receiving'
  BY <1>1, <1>2, <1>3 DEF Receiving, TypeOK
<1>9. ToldOfOwner'
  BY <1>1, ConsumerParts DEF ToldOfOwner
<1> QED BY <1>4, <1>5, <1>6, <1>7, <1>8, <1>9

\* A Producer on its way has an owner that is there, and no Consumer yet.
LEMMA StepProduce ==
  ASSUME IInv, NEW o \in Participant, NEW p \in AudioVideo \cup Chat, Produce(o, p)
  PROVE  IInv'
<1> USE DEF IInv
<1>1. /\ phase[o] = "in" /\ stage[p] = "none"
      /\ owner' = [owner EXCEPT ![p] = o]
      /\ stage' = [stage EXCEPT ![p] = "producing"]
      /\ UNCHANGED <<room, dead, consumer, consumes, ended>>
  BY DEF Produce
<1>2. p \in Producer /\ p # BotData
  BY DEF Producer
<1>3. TypeOK'
  BY <1>1, <1>2 DEF TypeOK, room
<1>4. \A q \in Producer \ {p} : stage'[q] = stage[q] /\ owner'[q] = owner[q]
  BY <1>1
<1>5. stage'[p] = "producing" /\ owner'[p] = o
  BY <1>1, <1>2 DEF TypeOK
<1>6. \A c \in Peer : consumes[<<c, p>>] = 0
  BY <1>1, <1>2 DEF Counted, TypeOK
<1>7. Counted' /\ ConsumersCounted'
  BY <1>1, <1>2, <1>4, <1>6 DEF Counted, ConsumersCounted, room
<1>8. OwnersPresent' /\ BotAnnounced'
  BY <1>1, <1>2, <1>4, <1>5 DEF OwnersPresent, BotAnnounced, Producer, Joined, room
<1>9. Acquainted' /\ Receiving'
  BY <1>1 DEF Acquainted, Receiving, Joined, room
<1>10. NothingMissed'
  BY <1>1, <1>4, <1>5 DEF NothingMissed, OnConsumerRouter, Joined, room
<1>11. ToldOfOwner'
  <2> SUFFICES ASSUME NEW x \in Consumer, x[2] # BotData,
                      consumer[x] \in {"consuming", "sent", "resumed"}
               PROVE  owner'[x[2]] \in told[x[1]]
    BY <1>1 DEF ToldOfOwner, room
  <2>1. x[1] \in Peer /\ x[2] \in Producer
    BY ConsumerParts
  <2>2. consumes[<<x[1], x[2]>>] > 0
    BY DEF ConsumersCounted
  <2>3. x[2] # p
    BY <1>6, <2>1, <2>2
  <2> QED BY <1>4, <2>1, <2>3 DEF ToldOfOwner
<1> QED BY <1>3, <1>7, <1>8, <1>9, <1>10, <1>11

\* A Producer that fails, or goes to the pipe, is still nobody's to consume.
LEMMA StepUnannounced ==
  ASSUME IInv, NEW p \in Producer, stage[p] = "producing",
         NEW s \in {"failed", "piping"}, s = "piping" => usePipeTransports,
         stage' = [stage EXCEPT ![p] = s],
         UNCHANGED <<room, owner, dead, consumer, consumes, ended>>
  PROVE  IInv'
<1> USE DEF IInv, room
<1>1. stage'[p] = s /\ \A q \in Producer \ {p} : stage'[q] = stage[q]
  BY DEF TypeOK
<1>2. TypeOK'
  BY <1>1 DEF TypeOK
<1>3. Counted' /\ ConsumersCounted'
  BY <1>1 DEF Counted, ConsumersCounted
<1>4. OwnersPresent' /\ BotAnnounced'
  BY <1>1 DEF OwnersPresent, BotAnnounced, Producer, Joined
<1>5. Acquainted' /\ Receiving' /\ ToldOfOwner'
  BY DEF Acquainted, Receiving, ToldOfOwner, Joined
<1>6. NothingMissed'
  BY <1>1 DEF NothingMissed, OnConsumerRouter, Joined
<1> QED BY <1>2, <1>3, <1>4, <1>5, <1>6

\* The closure of a Producer, or the end of the process.
LEMMA StepDead ==
  ASSUME IInv, NEW p \in Producer, PipeRejected(p) \/ CloseProducer(p)
  PROVE  IInv'
<1> USE DEF IInv, room
<1>1. /\ dead \subseteq dead' /\ dead' \subseteq Producer /\ ended' \in BOOLEAN
      /\ UNCHANGED <<room, owner, stage, consumer, consumes>>
  BY DEF PipeRejected, CloseProducer, TypeOK
<1>2. TypeOK' /\ Counted' /\ ConsumersCounted' /\ OwnersPresent' /\ BotAnnounced'
  BY <1>1 DEF TypeOK, Counted, ConsumersCounted, OwnersPresent, BotAnnounced, Joined
<1>3. Acquainted' /\ Receiving' /\ NothingMissed' /\ ToldOfOwner'
  BY <1>1 DEF Acquainted, Receiving, NothingMissed, ToldOfOwner, Joined, OnConsumerRouter
<1> QED BY <1>2, <1>3

-----------------------------------------------------------------------------

LEMMA Inductive == IInv /\ [Next]_vars => IInv'
<1> SUFFICES ASSUME IInv, [Next]_vars PROVE IInv'
  OBVIOUS
<1>1. ASSUME NEW c \in Peer, CreateConsumerTransport(c) PROVE IInv'
  BY <1>1, StepTransport
<1>2. ASSUME NEW c \in Peer, NEW k \in SUBSET {"rtp", "sctp"}, Join(c, k) PROVE IInv'
  BY <1>2, StepJoin
<1>3. ASSUME NEW b \in BroadcasterPeer, JoinBroadcaster(b) PROVE IInv'
  BY <1>3, StepJoinBroadcaster
<1>4. ASSUME NEW o \in Participant, NEW p \in AudioVideo \cup Chat, Produce(o, p)
      PROVE  IInv'
  BY <1>4, StepProduce
<1>5. ASSUME NEW p \in Producer, ProduceSettled(p) PROVE IInv'
  <2>1. CASE Announce(p)
    BY <1>5, <2>1, StepAnnounce DEF ProduceSettled
  <2>2. CASE ~Announce(p)
    <3>1. PICK s \in {"failed", "piping"} :
            /\ s = "piping" => usePipeTransports
            /\ stage' = [stage EXCEPT ![p] = s]
            /\ UNCHANGED <<consumer, consumes>>
      BY <1>5, <2>2 DEF ProduceSettled
    <3>2. stage[p] = "producing" /\ UNCHANGED <<room, owner, dead, ended>>
      BY <1>5 DEF ProduceSettled
    <3> QED BY <3>1, <3>2, StepUnannounced
  <2> QED BY <2>1, <2>2
<1>6. ASSUME NEW p \in Producer, PipeResolved(p) PROVE IInv'
  BY <1>6, StepAnnounce DEF PipeResolved
<1>7. ASSUME NEW p \in Producer, PipeRejected(p) \/ CloseProducer(p) PROVE IInv'
  BY <1>7, StepDead
<1>8. ASSUME NEW x \in Consumer,
             ConsumeSettled(x) \/ ClientAccepts(x) \/ ProducerClosed(x)
      PROVE  IInv'
  BY <1>8, StepConsumer
<1>9. ASSUME NEW x \in Participant, Leave(x) PROVE IInv'
  BY <1>9, StepClose DEF Leave
<1>10. CASE CloseRoom
  BY <1>10, StepClose DEF CloseRoom
<1>11. CASE UNCHANGED vars
  <2> USE <1>11 DEF IInv, vars, room
  <2>1. TypeOK' /\ Counted' /\ ConsumersCounted' /\ OwnersPresent' /\ BotAnnounced'
    BY DEF TypeOK, Counted, ConsumersCounted, OwnersPresent, BotAnnounced, Joined
  <2>2. Acquainted' /\ Receiving' /\ NothingMissed' /\ ToldOfOwner'
    BY DEF Acquainted, Receiving, NothingMissed, ToldOfOwner, Joined, OnConsumerRouter
  <2> QED BY <2>1, <2>2
<1> QED
  BY <1>1, <1>2, <1>3, <1>4, <1>5, <1>6, <1>7, <1>8, <1>9, <1>10, <1>11 DEF Next

\* The inductive invariant: counts, owners, lists and equipment hang together
\* in every reachable state, at the end of every handler of Room.ts.
THEOREM ForwardingHolds == Spec => []IInv
BY Initially, Inductive, PTL DEF Spec

\* Every reachable state is well typed, and only a Room with two Routers pipes.
THEOREM TypeCorrect == Spec => []TypeOK
<1>1. IInv => TypeOK
  BY DEF IInv
<1> QED BY <1>1, ForwardingHolds, PTL

\* No Peer consumes a Producer twice, however 'joined', 'new-producer' and
\* pipeToRouter() overlap.
THEOREM NoDoubleConsumption == Spec => []ConsumedAtMostOnce
<1>1. IInv => ConsumedAtMostOnce
  <2> SUFFICES ASSUME IInv, NEW c \in Peer, NEW p \in Producer
               PROVE  consumes[<<c, p>>] <= 1
    BY DEF ConsumedAtMostOnce
  <2> QED BY DEF IInv, TypeOK, Counted
<1> QED BY <1>1, ForwardingHolds, PTL

\* A Peer that was ready when it joined misses no Producer: what the walk of
\* 'joined' cannot consume yet, the announcement brings.
THEOREM NoMissedProducer == Spec => []NothingMissed
<1>1. IInv => NothingMissed
  BY DEF IInv
<1> QED BY <1>1, ForwardingHolds, PTL

\* newConsumer never comes before 'newPeer' or the answer to 'join'.
THEOREM OwnersAreKnown == Spec => []ToldBeforeAsked
<1>1. IInv => ToldBeforeAsked
  BY DEF IInv, ToldOfOwner, ToldBeforeAsked
<1> QED BY <1>1, ForwardingHolds, PTL

=============================================================================
